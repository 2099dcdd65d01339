-------------------------- MODULE TaskControlProofs --------------------------
(***************************************************************************)
(* What holds of the task control plane for every number of keys, threads, *)
(* executions and attempts.  The invariant of TaskControl that is          *)
(* inductive adds to the agreement of the rows where every row and thread  *)
(* comes from: an admitted execution.  The second part goes on to what the *)
(* audit of the deliveries records, and whom the fencing version of a      *)
(* lease keeps out.                                                        *)
(***************************************************************************)
EXTENDS TaskControl, FiniteSetTheorems, TLAPS

\* Rows beyond lastSeq are blank, and nothing names one of them.
RowShape ==
    /\ \A e \in Execs : e > lastSeq => /\ execution[e].state = "none"
                                       /\ execution[e].callback = "pending"
    /\ \A e \in Execs : e <= lastSeq => execution[e].state # "none"
    /\ \A k \in Keys : task[k].owner <= lastSeq
    /\ \A k \in Keys : task[k].owner = NoExec <=> task[k].status = "none"
    /\ \A k \in Keys : guard[k].owner <= lastSeq

\* A thread that is not idle delivers an admitted execution.
ThreadShape ==
    /\ \A s \in Senders : sender[s].pc # "idle" => /\ sender[s].exec \in Execs
                                                  /\ sender[s].exec <= lastSeq
    /\ \A e \in Execs : sender[e].pc # "idle" => sender[e].exec = e

RowInv    == RowTypes /\ RowShape /\ ProjectionAgrees /\ GuardAgrees
ThreadInv == ThreadTypes /\ ThreadShape
IInv      == RowInv /\ ThreadInv

rows == <<execution, task, guard, events, lastSeq>>

-----------------------------------------------------------------------------
(* What the invariant says of one row, one projection and one Guard.       *)

LEMMA OwnerRow ==
    ASSUME RowInv, NEW k \in Keys, NEW e \in Execs, task[k].owner = e
    PROVE  /\ execution[e].key = k
           /\ task[k].callback = execution[e].callback
           /\ task[k].status \in {"active", "terminal"}
           /\ IF task[k].status = "terminal" THEN execution[e].state \in Finished
              ELSE execution[e].state \in {"accepted", "running"}
<1>1. e # NoExec
  BY DEF Execs, NoExec
<1>2. task[k].status \in {"none", "active", "terminal"}
  BY DEF RowInv, RowTypes
<1> QED
  BY <1>1, <1>2 DEF RowInv, RowShape, ProjectionAgrees, Active, KeyOf

LEMMA ActiveRow ==
    ASSUME RowInv, NEW e \in Execs, execution[e].state \in {"accepted", "running"}
    PROVE  /\ execution[e].key \in Keys
           /\ task[execution[e].key].owner = e
           /\ task[execution[e].key].status = "active"
<1>1. execution[e].key \in Keys
  BY DEF RowInv, RowTypes
<1>2. task[execution[e].key].owner = e
  BY DEF RowInv, ProjectionAgrees, Active, IsLatest, KeyOf
<1> QED
  BY <1>1, <1>2, OwnerRow DEF Finished

LEMMA BusyGuard ==
    ASSUME RowInv, NEW k \in Keys, guard[k].state # "idle"
    PROVE  /\ guard[k].owner \in Execs
           /\ task[k].owner = guard[k].owner
           /\ task[k].status = "terminal"
           /\ task[k].callback = guard[k].state
           /\ execution[guard[k].owner].key = k
           /\ execution[guard[k].owner].state \in Finished
           /\ execution[guard[k].owner].callback = guard[k].state
<1>1. /\ guard[k].owner # NoExec
      /\ task[k].owner = guard[k].owner
      /\ task[k].status = "terminal"
      /\ task[k].callback = guard[k].state
  BY DEF RowInv, GuardAgrees
<1>2. guard[k].owner \in Execs
  BY <1>1 DEF RowInv, RowTypes, Ids
<1> QED
  BY <1>1, <1>2, OwnerRow

LEMMA SendingRow ==
    ASSUME RowInv, NEW e \in Execs, execution[e].callback = "sending"
    PROVE  /\ guard[execution[e].key].state = "sending"
           /\ guard[execution[e].key].owner = e
BY DEF RowInv, GuardAgrees, KeyOf

-----------------------------------------------------------------------------
(* Freezing, the move six operations share.                                *)

LEMMA FollowUpsTyped ==
    ASSUME RowTypes, NEW k \in Keys, NEW type \in {"completed", "lease_expired_unknown"},
           NEW outcome \in AllOutcomes \cup {""}
    PROVE  FollowUps(k, type, outcome) \subseteq Event
<1> SUFFICES ASSUME NEW a \in events
             PROVE  Closing(a, type, outcome) \in Event
  BY DEF FollowUps
<1>1. a \in Event
  BY DEF RowTypes
<1> QED
  BY <1>1 DEF Event, Closing

LEMMA FreezeKeepsRows ==
    ASSUME ControlAssumption, RowInv, NEW ks \in SUBSET Keys, \A k \in ks : Expired(k),
           FreezeAll(ks), lastSeq' = lastSeq
    PROVE  RowInv'
<1> USE DEF Execs, NoExec, Ids
<1>a. \A e \in Execs : execution[e] \in [state : ExecutionStates, key : Keys,
                                         callback : CallbackStatuses]
  BY DEF RowInv, RowTypes
<1>b. \A k \in Keys : task[k] \in [owner : Ids, status : {"none", "active", "terminal"},
                                   callback : CallbackStatuses, attempts : Nat]
  BY DEF RowInv, RowTypes
<1>c. "outcome_unknown" \in CallbackStatuses
  BY DEF CallbackStatuses, Unresolved
<1>1. RowTypes'
  <2>1. execution' \in [Execs -> [state : ExecutionStates, key : Keys,
                                  callback : CallbackStatuses]]
    BY <1>a, <1>c DEF FreezeAll
  <2>2. task' \in [Keys -> [owner : Ids, status : {"none", "active", "terminal"},
                            callback : CallbackStatuses, attempts : Nat]]
    BY <1>b, <1>c DEF FreezeAll
  <2>3. guard' \in [Keys -> [state : {"idle", "sending", "outcome_unknown"},
                             owner : Ids, version : Nat, expired : BOOLEAN]]
    BY DEF RowInv, RowTypes, FreezeAll, GuardNow
  <2>4. events' \subseteq Event
    <3>1. RowTypes /\ "delivery_outcome_unknown" \in AllOutcomes \cup {""}
      BY DEF RowInv, AllOutcomes
    <3>2. \A k \in ks : FollowUps(k, "lease_expired_unknown", "delivery_outcome_unknown")
                         \subseteq Event
      BY <3>1, FollowUpsTyped
    <3> QED
      BY <3>1, <3>2 DEF RowTypes, FreezeAll
  <2> QED
    BY <2>1, <2>2, <2>3, <2>4 DEF RowInv, RowTypes
<1>2. \A k \in ks : /\ guard[k].owner \in Execs
                    /\ task[k].owner = guard[k].owner
                    /\ KeyOf(guard[k].owner) = k
                    /\ task[k].status = "terminal"
                    /\ execution[guard[k].owner].state \in Finished
                    /\ execution[guard[k].owner].callback = "sending"
  BY DEF RowInv, RowTypes, GuardAgrees, ProjectionAgrees, Expired
<1>3. RowShape'
  BY <1>2 DEF RowInv, RowTypes, RowShape, FreezeAll, GuardNow
<1>4. \A e \in Execs : /\ execution'[e].key = execution[e].key
                       /\ execution'[e].state = execution[e].state
                       /\ execution'[e].callback = IF \E k \in ks : guard[k].owner = e
                                                   THEN "outcome_unknown"
                                                   ELSE execution[e].callback
  BY DEF RowInv, RowTypes, FreezeAll
<1>5. \A k \in Keys : /\ task'[k].owner = task[k].owner
                      /\ task'[k].status = task[k].status
                      /\ guard'[k].owner = guard[k].owner
                      /\ task'[k].callback = IF k \in ks THEN "outcome_unknown"
                                                         ELSE task[k].callback
                      /\ guard'[k].state = IF k \in ks THEN "outcome_unknown"
                                                       ELSE guard[k].state
  BY <1>2 DEF RowInv, RowTypes, FreezeAll, GuardNow
<1>6. ProjectionAgrees'
  <2>1. \A e \in Execs : Active(e)' => IsLatest(e)'
    BY <1>4, <1>5 DEF RowInv, RowTypes, ProjectionAgrees, Active, IsLatest, KeyOf
  <2>2. ASSUME NEW k \in Keys, NEW e \in Execs, task[k].owner = e
        PROVE  /\ execution'[e].key = k
               /\ task'[k].callback = execution'[e].callback
               /\ IF task'[k].status = "terminal" THEN execution'[e].state \in Finished
                  ELSE execution'[e].state \in {"accepted", "running"}
    <3>1. /\ execution[e].key = k
          /\ task[k].callback = execution[e].callback
          /\ IF task[k].status = "terminal" THEN execution[e].state \in Finished
             ELSE execution[e].state \in {"accepted", "running"}
      BY <2>2 DEF RowInv, ProjectionAgrees, Active, KeyOf
    <3>2. k \in ks <=> \E q \in ks : guard[q].owner = e
      BY <1>2, <2>2, <3>1 DEF KeyOf
    <3> QED
      BY <3>1, <3>2, <1>4, <1>5
  <2>3. \A k \in Keys : task'[k].owner \in Ids /\ task'[k].owner = task[k].owner
    BY <1>5 DEF RowInv, RowTypes
  <2> QED
    BY <2>1, <2>2, <2>3 DEF ProjectionAgrees, Active, KeyOf
<1>7. GuardAgrees'
  <2>1. ASSUME NEW k \in Keys, guard'[k].state # "idle"
        PROVE  /\ guard'[k].owner # NoExec /\ task'[k].owner = guard'[k].owner
               /\ task'[k].status = "terminal"
               /\ task'[k].callback = guard'[k].state
    BY <2>1, <1>2, <1>5 DEF RowInv, GuardAgrees
  <2>2. ASSUME NEW e \in Execs, execution'[e].callback = "sending"
        PROVE  /\ guard'[execution'[e].key].state = "sending"
               /\ guard'[execution'[e].key].owner = e
    <3>1. /\ execution[e].callback = "sending"
          /\ ~ \E k \in ks : guard[k].owner = e
      BY <2>2, <1>4
    <3>2. /\ guard[execution[e].key].state = "sending"
          /\ guard[execution[e].key].owner = e
      BY <3>1 DEF RowInv, GuardAgrees, KeyOf
    <3> QED
      BY <3>1, <3>2, <1>a, <1>4, <1>5
  <2> QED
    BY <2>1, <2>2 DEF GuardAgrees, KeyOf
<1> QED
  BY <1>1, <1>3, <1>6, <1>7 DEF RowInv

-----------------------------------------------------------------------------
(* Admission.                                                              *)

LEMMA OpenKey ==
    ASSUME RowTypes, NEW k \in Keys, BlockReason(k) = "none"
    PROVE  guard[k].state = "idle" /\ task[k].status # "active"
<1>1. guard[k].state \in {"idle", "sending", "outcome_unknown"}
  BY DEF RowTypes
<1> QED
  BY <1>1 DEF BlockReason

LEMMA AdmitKeepsRows ==
    ASSUME ControlAssumption, RowInv, NEW n \in Nat \ {0}, NEW ks \in [1 .. n -> Keys],
           \A i, j \in 1 .. n : ks[i] = ks[j] => i = j,
           Admit(n, ks)
    PROVE  RowInv'
<1> USE DEF Execs, NoExec, Ids
<1> DEFINE Used   == {ks[i] : i \in 1 .. n}
           new    == (lastSeq + 1) .. (lastSeq + n)
           own(k) == lastSeq + (CHOOSE i \in 1 .. n : ks[i] = k)
<1>a. MaxExecs \in Nat /\ lastSeq \in Nat /\ lastSeq' = lastSeq + n
      /\ lastSeq' \in Execs /\ new \subseteq Execs
  BY DEF ControlAssumption, RowInv, RowTypes, Admit
<1>b. \A k \in Used : /\ k \in Keys
                      /\ own(k) \in new
                      /\ ks[own(k) - lastSeq] = k
  <2> SUFFICES ASSUME NEW k \in Used
               PROVE  k \in Keys /\ own(k) \in new /\ ks[own(k) - lastSeq] = k
    OBVIOUS
  <2>1. PICK m \in 1 .. n : ks[m] = k
    OBVIOUS
  <2> DEFINE j == CHOOSE i \in 1 .. n : ks[i] = k
  <2>2. j \in 1 .. n /\ ks[j] = k
    BY <2>1
  <2>3. own(k) = lastSeq + j
    OBVIOUS
  <2> HIDE DEF j
  <2> QED
    BY <2>1, <2>2, <2>3, <1>a
<1> HIDE DEF own
<1>c. \A k \in Used : guard[k].state = "idle" /\ task[k].status # "active"
  BY <1>b, OpenKey DEF Admit, Admissible, RowInv
<1>d. /\ execution' = [e \in Execs |-> IF e \in new THEN NewRow(ks[e - lastSeq])
                                                    ELSE execution[e]]
      /\ task' = [k \in Keys |-> IF k \in Used
                    THEN [owner |-> own(k), status |-> "active",
                          callback |-> "pending", attempts |-> 0]
                    ELSE task[k]]
      /\ guard' = guard /\ events' = events
  BY DEF Admit, own
<1>e. \A e \in new : ks[e - lastSeq] \in Used
  BY <1>a
<1> HIDE DEF Used
<1>1. RowTypes'
  <2>1. \A e \in Execs : execution[e] \in [state : ExecutionStates, key : Keys,
                                           callback : CallbackStatuses]
    BY DEF RowInv, RowTypes
  <2>2. \A k \in Keys : NewRow(k) \in [state : ExecutionStates, key : Keys,
                                       callback : CallbackStatuses]
    BY DEF NewRow, ExecutionStates, CallbackStatuses, Unresolved
  <2>3. execution' \in [Execs -> [state : ExecutionStates, key : Keys,
                                  callback : CallbackStatuses]]
    BY <2>1, <2>2, <1>b, <1>d, <1>e
  <2>4. \A k \in Keys : task[k] \in [owner : Ids, status : {"none", "active", "terminal"},
                                     callback : CallbackStatuses, attempts : Nat]
    BY DEF RowInv, RowTypes
  <2>5. task' \in [Keys -> [owner : Ids, status : {"none", "active", "terminal"},
                            callback : CallbackStatuses, attempts : Nat]]
    BY <2>4, <1>a, <1>b, <1>d DEF CallbackStatuses, Unresolved
  <2> QED
    BY <2>3, <2>5, <1>a, <1>d DEF RowInv, RowTypes
<1>2. \A e \in Execs : IF e \in new
                       THEN /\ execution'[e].state = "accepted"
                            /\ execution'[e].callback = "pending"
                            /\ execution'[e].key = ks[e - lastSeq]
                       ELSE execution'[e] = execution[e]
  BY <1>d DEF NewRow
<1>3. \A k \in Keys : IF k \in Used
                      THEN /\ task'[k].owner = own(k)
                           /\ task'[k].status = "active"
                           /\ task'[k].callback = "pending"
                      ELSE task'[k] = task[k]
  BY <1>d
<1>4. \A e \in Execs : e <= lastSeq => e \notin new
  BY <1>a
<1>5. RowShape'
  <2>1. \A e \in Execs : e <= lastSeq + n /\ ~(e <= lastSeq) => e \in new
    BY <1>a
  <2>2. \A k \in Keys : task[k].owner <= lastSeq + n /\ guard[k].owner <= lastSeq + n
    <3>1. \A k \in Keys : task[k].owner \in Nat /\ guard[k].owner \in Nat
      BY <1>a DEF RowInv, RowTypes
    <3> QED
      BY <3>1, <1>a DEF RowInv, RowShape
  <2>3. ASSUME NEW e \in Execs, e > lastSeq'
        PROVE  execution'[e].state = "none" /\ execution'[e].callback = "pending"
    BY <2>3, <1>a, <1>2 DEF RowInv, RowShape
  <2>4. ASSUME NEW e \in Execs, e <= lastSeq'
        PROVE  execution'[e].state # "none"
    <3>1. CASE e <= lastSeq
      BY <3>1, <1>2, <1>4 DEF RowInv, RowShape
    <3>2. CASE ~(e <= lastSeq)
      BY <3>2, <2>1, <2>4, <1>a, <1>2
    <3> QED
      BY <3>1, <3>2
  <2>5. ASSUME NEW k \in Keys
        PROVE  /\ task'[k].owner <= lastSeq' /\ guard'[k].owner <= lastSeq'
               /\ task'[k].owner = NoExec <=> task'[k].status = "none"
    <3>1. own(k) \in new => own(k) <= lastSeq' /\ own(k) # NoExec
      BY <1>a
    <3> QED
      BY <3>1, <2>2, <1>a, <1>b, <1>d, <1>3 DEF RowInv, RowShape
  <2> QED
    BY <2>3, <2>4, <2>5 DEF RowShape
<1>6. ProjectionAgrees'
  <2>1. ASSUME NEW e \in Execs, execution'[e].state \in {"accepted", "running"}
        PROVE  task'[execution'[e].key].owner = e
    <3>1. CASE e \in new
      <4>1. e - lastSeq \in 1 .. n /\ ks[e - lastSeq] \in Used
        BY <3>1, <1>a, <1>e
      <4>2. own(ks[e - lastSeq]) \in new /\ own(ks[e - lastSeq]) - lastSeq \in 1 .. n
        BY <4>1, <1>a, <1>b
      <4>3. own(ks[e - lastSeq]) - lastSeq = e - lastSeq
        BY <4>1, <4>2, <1>b
      <4> QED
        BY <3>1, <4>1, <4>2, <4>3, <1>a, <1>b, <1>2, <1>3
    <3>2. CASE e \notin new
      <4>1. /\ execution[e].key \in Keys
            /\ task[execution[e].key].owner = e
            /\ task[execution[e].key].status = "active"
        BY <2>1, <3>2, <1>2, ActiveRow
      <4> QED
        BY <3>2, <4>1, <1>2, <1>3, <1>c
    <3> QED
      BY <3>1, <3>2
  <2>2. ASSUME NEW k \in Keys, NEW e \in Execs, task'[k].owner = e
        PROVE  /\ execution'[e].key = k
               /\ task'[k].callback = execution'[e].callback
               /\ IF task'[k].status = "terminal" THEN execution'[e].state \in Finished
                  ELSE execution'[e].state \in {"accepted", "running"}
    <3>1. CASE k \in Used
      BY <2>2, <3>1, <1>b, <1>2, <1>3
    <3>2. CASE k \notin Used
      <4>1. task[k].owner = e /\ e \notin new
        BY <2>2, <3>2, <1>3, <1>4 DEF RowInv, RowShape
      <4>2. /\ execution[e].key = k
            /\ task[k].callback = execution[e].callback
            /\ IF task[k].status = "terminal" THEN execution[e].state \in Finished
               ELSE execution[e].state \in {"accepted", "running"}
        BY <4>1 DEF RowInv, ProjectionAgrees, Active, KeyOf
      <4> QED
        BY <3>2, <4>1, <4>2, <1>2, <1>3
    <3> QED
      BY <3>1, <3>2
  <2>3. \A k \in Keys : task'[k].owner \in Ids
    BY <1>1 DEF RowTypes
  <2> QED
    BY <2>1, <2>2, <2>3 DEF ProjectionAgrees, Active, IsLatest, KeyOf
<1>7. GuardAgrees'
  <2>1. ASSUME NEW k \in Keys, guard[k].state # "idle"
        PROVE  /\ guard[k].owner # NoExec /\ task'[k].owner = guard[k].owner
               /\ task'[k].status = "terminal"
               /\ task'[k].callback = guard[k].state
    <3>1. k \notin Used
      BY <2>1, <1>c
    <3> QED
      BY <2>1, <3>1, <1>3 DEF RowInv, GuardAgrees
  <2>2. ASSUME NEW e \in Execs, execution'[e].callback = "sending"
        PROVE  /\ guard[execution'[e].key].state = "sending"
               /\ guard[execution'[e].key].owner = e
    BY <2>2, <1>2 DEF RowInv, GuardAgrees, KeyOf
  <2> QED
    BY <2>1, <2>2, <1>d DEF GuardAgrees, KeyOf
<1> QED
  BY <1>1, <1>5, <1>6, <1>7 DEF RowInv

-----------------------------------------------------------------------------
(* The execution, and one delivery.                                        *)

LEMMA ClaimKeepsRows ==
    ASSUME ControlAssumption, RowInv, NEW e \in Execs, Claim(e)
    PROVE  RowInv'
<1>1. /\ IsLatest(e) /\ execution[e].state = "accepted" /\ execution[e].key \in Keys
      /\ task[execution[e].key].owner = e
  BY ActiveRow DEF Claim, IsLatest, KeyOf
<1>2. /\ execution' = [execution EXCEPT ![e].state = "running"]
      /\ task' = task /\ guard' = guard /\ events' = events /\ lastSeq' = lastSeq
  BY <1>1 DEF Claim
<1>3. \A d \in Execs : /\ execution'[d].key = execution[d].key
                       /\ execution'[d].callback = execution[d].callback
                       /\ execution'[d].state = IF d = e THEN "running"
                                                ELSE execution[d].state
  BY <1>2 DEF RowInv, RowTypes
<1>4. RowTypes'
  BY <1>2 DEF RowInv, RowTypes, ExecutionStates
<1>5. RowShape'
  BY <1>1, <1>2, <1>3 DEF RowInv, RowShape
<1>6. ProjectionAgrees'
  <2>1. \A d \in Execs : Active(d)' => IsLatest(d)'
    BY <1>1, <1>2, <1>3 DEF RowInv, ProjectionAgrees, Active, IsLatest, KeyOf
  <2>2. \A k \in Keys : task[k].owner # NoExec => task[k].owner \in Execs
    BY DEF RowInv, RowTypes, Ids
  <2> QED
    BY <2>1, <2>2, <1>1, <1>2, <1>3 DEF RowInv, ProjectionAgrees, Active, KeyOf, Finished
<1>7. GuardAgrees'
  BY <1>2, <1>3 DEF RowInv, GuardAgrees, KeyOf
<1> QED
  BY <1>4, <1>5, <1>6, <1>7 DEF RowInv

\* The terminal write of Finish and of FailPoisoned.
LEMMA EndKeepsRows ==
    ASSUME ControlAssumption, RowInv, NEW e \in Execs, NEW st \in Finished,
           execution[e].state \in {"accepted", "running"},
           execution' = [execution EXCEPT ![e].state = st],
           task' = [task EXCEPT ![KeyOf(e)].status = "terminal"],
           UNCHANGED <<guard, events, lastSeq>>
    PROVE  RowInv'
<1>1. execution[e].key \in Keys /\ task[execution[e].key].owner = e
  BY ActiveRow
<1>2. \A d \in Execs : /\ execution'[d].key = execution[d].key
                       /\ execution'[d].callback = execution[d].callback
                       /\ execution'[d].state = IF d = e THEN st ELSE execution[d].state
  BY DEF RowInv, RowTypes
<1>3. \A k \in Keys : /\ task'[k].owner = task[k].owner
                      /\ task'[k].callback = task[k].callback
                      /\ task'[k].status = IF k = execution[e].key THEN "terminal"
                                           ELSE task[k].status
  BY DEF RowInv, RowTypes, KeyOf
<1>4. RowTypes'
  BY DEF RowInv, RowTypes, ExecutionStates
<1>5. RowShape'
  BY <1>1, <1>2, <1>3 DEF RowInv, RowShape, Execs, NoExec, Finished
<1>6. ProjectionAgrees'
  <2>1. \A d \in Execs : Active(d)' => IsLatest(d)'
    BY <1>1, <1>2, <1>3 DEF RowInv, ProjectionAgrees, Active, IsLatest, KeyOf, Finished
  <2>2. ASSUME NEW k \in Keys, NEW d \in Execs, task[k].owner = d
        PROVE  /\ execution'[d].key = k
               /\ task'[k].callback = execution'[d].callback
               /\ IF task'[k].status = "terminal" THEN execution'[d].state \in Finished
                  ELSE execution'[d].state \in {"accepted", "running"}
    <3>1. d = e <=> k = execution[e].key
      BY <2>2, <1>1, OwnerRow
    <3> QED
      BY <2>2, <3>1, <1>2, <1>3, OwnerRow
  <2>3. \A k \in Keys : task'[k].owner # NoExec => task'[k].owner \in Execs
    BY <1>3 DEF RowInv, RowTypes, Ids
  <2> QED
    BY <2>1, <2>2, <2>3, <1>3 DEF ProjectionAgrees, Active, KeyOf
<1>7. GuardAgrees'
  BY <1>2, <1>3 DEF RowInv, GuardAgrees, KeyOf
<1> QED
  BY <1>4, <1>5, <1>6, <1>7 DEF RowInv

\* The rows of e, the latest of k and finished, go to callback c together
\* with the Guard of k: what Acquire and Complete write.
GuardRecord == [state : {"idle", "sending", "outcome_unknown"},
                owner : Ids, version : Nat, expired : BOOLEAN]

CallbackStep(k, e, c, g) ==
    /\ guard' = [guard EXCEPT ![k] = g]
    /\ execution' = [execution EXCEPT ![e].callback = c]
    /\ \E n \in Nat : task' = [task EXCEPT ![k].callback = c, ![k].attempts = n]
    /\ events' \subseteq Event
    /\ lastSeq' = lastSeq

LEMMA CallbackKeepsRows ==
    ASSUME ControlAssumption, RowInv, NEW k \in Keys, NEW e \in Execs,
           NEW c \in CallbackStatuses, NEW g \in GuardRecord,
           task[k].owner = e, task[k].status = "terminal", g.owner = e,
           g.state # "idle" => g.state = c,
           c = "sending" => g.state = "sending",
           CallbackStep(k, e, c, g)
    PROVE  RowInv'
<1>1. execution[e].key = k /\ execution[e].state \in Finished
  BY OwnerRow
<1>2. \A d \in Execs : /\ execution'[d].key = execution[d].key
                       /\ execution'[d].state = execution[d].state
                       /\ execution'[d].callback = IF d = e THEN c ELSE execution[d].callback
  BY DEF RowInv, RowTypes, CallbackStep
<1>3. \A q \in Keys : /\ task'[q].owner = task[q].owner
                      /\ task'[q].status = task[q].status
                      /\ task'[q].callback = IF q = k THEN c ELSE task[q].callback
                      /\ guard'[q].owner = IF q = k THEN e ELSE guard[q].owner
                      /\ guard'[q].state = IF q = k THEN g.state ELSE guard[q].state
  BY DEF RowInv, RowTypes, CallbackStep
<1>0. lastSeq' = lastSeq
  BY DEF CallbackStep
<1>4. RowTypes'
  <2>1. guard' \in [Keys -> GuardRecord]
    BY DEF RowInv, RowTypes, CallbackStep, GuardRecord
  <2>2. execution' \in [Execs -> [state : ExecutionStates, key : Keys,
                                  callback : CallbackStatuses]]
    BY DEF RowInv, RowTypes, CallbackStep
  <2>3. PICK n \in Nat : task' = [task EXCEPT ![k].callback = c, ![k].attempts = n]
    BY DEF CallbackStep
  <2>4. task' \in [Keys -> [owner : Ids, status : {"none", "active", "terminal"},
                            callback : CallbackStatuses, attempts : Nat]]
    BY <2>3 DEF RowInv, RowTypes
  <2> QED
    BY <2>1, <2>2, <2>4 DEF RowTypes, CallbackStep, RowInv, GuardRecord
<1>5. RowShape'
  <2>1. e <= lastSeq /\ execution[e].state # "none"
    BY <1>1 DEF RowInv, RowShape, Finished
  <2>2. e \in Nat /\ lastSeq \in Nat
    BY DEF Execs, RowInv, RowTypes, Ids, NoExec
  <2>3. /\ \A d \in Execs : d > lastSeq => d # e
        /\ \A q \in Keys : task'[q].owner <= lastSeq /\ guard'[q].owner <= lastSeq
    BY <2>1, <2>2, <1>3 DEF RowInv, RowShape, Execs
  <2> QED
    BY <2>3, <1>0, <1>2, <1>3 DEF RowInv, RowShape
<1>6. ProjectionAgrees'
  <2>1. \A d \in Execs : Active(d)' => IsLatest(d)'
    BY <1>2, <1>3 DEF RowInv, RowTypes, ProjectionAgrees, Active, IsLatest, KeyOf
  <2>2. ASSUME NEW q \in Keys, NEW d \in Execs, task[q].owner = d
        PROVE  /\ execution'[d].key = q
               /\ task'[q].callback = execution'[d].callback
               /\ IF task'[q].status = "terminal" THEN execution'[d].state \in Finished
                  ELSE execution'[d].state \in {"accepted", "running"}
    <3>1. d = e <=> q = k
      BY <2>2, <1>1, OwnerRow
    <3>2. /\ execution[d].key = q
          /\ task[q].callback = execution[d].callback
          /\ IF task[q].status = "terminal" THEN execution[d].state \in Finished
             ELSE execution[d].state \in {"accepted", "running"}
      BY <2>2, OwnerRow
    <3> QED
      BY <3>1, <3>2, <1>2, <1>3
  <2>3. \A q \in Keys : task'[q].owner # NoExec => task'[q].owner \in Execs
    BY <1>3 DEF RowInv, RowTypes, Ids
  <2> QED
    BY <2>1, <2>2, <2>3, <1>3 DEF ProjectionAgrees, Active, KeyOf
<1>7. GuardAgrees'
  <2>1. ASSUME NEW q \in Keys, guard'[q].state # "idle"
        PROVE  /\ guard'[q].owner # NoExec /\ task'[q].owner = guard'[q].owner
               /\ task'[q].status = "terminal"
               /\ task'[q].callback = guard'[q].state
    <3>1. CASE q = k
      BY <2>1, <3>1, <1>3 DEF Execs, NoExec
    <3>2. CASE q # k
      BY <2>1, <3>2, <1>3 DEF RowInv, GuardAgrees
    <3> QED
      BY <3>1, <3>2
  <2>2. ASSUME NEW d \in Execs, execution'[d].callback = "sending"
        PROVE  /\ guard'[execution'[d].key].state = "sending"
               /\ guard'[execution'[d].key].owner = d
    <3>1. CASE d = e
      BY <2>2, <3>1, <1>1, <1>2, <1>3
    <3>2. CASE d # e
      <4>1. /\ guard[execution[d].key].state = "sending"
            /\ guard[execution[d].key].owner = d
            /\ execution[d].key \in Keys
        BY <2>2, <3>2, <1>2, SendingRow DEF RowInv, RowTypes
      <4>2. task[execution[d].key].owner = d
        BY <4>1, BusyGuard
      <4> QED
        BY <3>2, <4>1, <4>2, <1>2, <1>3
    <3> QED
      BY <3>1, <3>2
  <2> QED
    BY <2>1, <2>2 DEF GuardAgrees, KeyOf
<1> QED
  BY <1>4, <1>5, <1>6, <1>7 DEF RowInv

LEMMA SenderRow ==
    ASSUME RowInv, ThreadInv, NEW s \in Senders, sender[s].pc # "idle"
    PROVE  /\ sender[s].exec \in Execs /\ SenderKey(s) \in Keys
           /\ SenderKey(s) = execution[sender[s].exec].key
BY DEF RowInv, RowTypes, ThreadInv, ThreadShape, SenderKey, KeyOf

LEMMA LatestRow ==
    ASSUME RowInv, NEW e \in Execs, IsLatest(e), execution[e].state \in Finished
    PROVE  /\ task[KeyOf(e)].owner = e /\ task[KeyOf(e)].status = "terminal"
           /\ task[KeyOf(e)].callback = execution[e].callback
<1>1. KeyOf(e) \in Keys /\ task[KeyOf(e)].owner = e
  BY DEF RowInv, RowTypes, KeyOf, IsLatest
<1> QED
  BY <1>1, OwnerRow DEF Finished

LEMMA AcquireKeepsRows ==
    ASSUME ControlAssumption, RowInv, ThreadInv, NEW s \in Senders, Acquire(s)
    PROVE  RowInv'
<1> DEFINE e == sender[s].exec
           k == SenderKey(s)
           v == guard[k].version + 1
           g == [state |-> "sending", owner |-> e, version |-> v, expired |-> FALSE]
<1>1. e \in Execs /\ k \in Keys
  BY SenderRow DEF Acquire, Acquiring
<1>2. IsLatest(e) /\ execution[e].state \in Finished
  BY DEF Acquire, Granted, Current
<1>3. task[k].owner = e /\ task[k].status = "terminal"
  BY <1>1, <1>2, LatestRow DEF SenderKey
<1>4. v \in Nat /\ task[k].attempts + 1 \in Nat /\ sender[s].attempts \in Nat
  <2>1. guard[k].version \in Nat /\ task[k].attempts \in Nat
    BY <1>1 DEF RowInv, RowTypes
  <2>2. sender[s].attempts \in Nat
    BY DEF ThreadInv, ThreadTypes
  <2> QED
    BY <2>1, <2>2
<1>5. g \in GuardRecord
  BY <1>1, <1>4 DEF GuardRecord, Ids
<1>6. [key |-> k, exec |-> e, version |-> v, attempt |-> task[k].attempts + 1,
       trigger |-> Trigger(s), snapshot |-> sender[s].attempts,
       type |-> "authorized", outcome |-> ""] \in Event
  BY <1>1, <1>4 DEF Event, Trigger
<1>7. CallbackStep(k, e, "sending", g)
  <2>1. /\ guard' = [guard EXCEPT ![k] = g]
        /\ execution' = [execution EXCEPT ![e].callback = "sending"]
        /\ events' \subseteq Event /\ lastSeq' = lastSeq
    BY <1>6 DEF Acquire, RowInv, RowTypes
  <2>2. task' = [task EXCEPT ![k].callback = "sending", ![k].attempts = @ + 1]
    BY DEF Acquire
  <2>3. task' = [task EXCEPT ![k].callback = "sending",
                             ![k].attempts = task[k].attempts + 1]
    BY <2>2, <1>1 DEF RowInv, RowTypes
  <2> QED
    BY <2>1, <2>3, <1>4 DEF CallbackStep
<1>8. "sending" \in CallbackStatuses
  BY DEF CallbackStatuses, Unresolved
<1> QED
  BY <1>1, <1>3, <1>5, <1>7, <1>8, CallbackKeepsRows

\* The Guard is never inconsistent, so this freezes an expired lease.
LEMMA AcquireFreezesExpired ==
    ASSUME RowInv, ThreadInv, NEW s \in Senders, AcquireFreezes(s)
    PROVE  SenderKey(s) \in Keys /\ Expired(SenderKey(s)) /\ FreezeAll({SenderKey(s)})
<1>1. sender[s].exec \in Execs /\ SenderKey(s) \in Keys
      /\ SenderKey(s) = execution[sender[s].exec].key
  BY SenderRow DEF AcquireFreezes, Acquiring
<1>2. ~Inconsistent(s)
  BY <1>1, SendingRow DEF Inconsistent
<1> QED
  BY <1>1, <1>2 DEF AcquireFreezes, MustFreeze

LEMMA CompleteKeepsRows ==
    ASSUME ControlAssumption, RowInv, ThreadInv, NEW s \in Senders, Complete(s)
    PROVE  RowInv'
<1> DEFINE e == sender[s].exec
           k == SenderKey(s)
           c == StatusOf(sender[s].reply)
           g == GuardNow(k, IF c = "outcome_unknown" THEN c ELSE "idle")
<1>1. e \in Execs /\ k \in Keys /\ k = execution[e].key
  BY SenderRow DEF Complete
<1>2. lastSeq' = lastSeq
  BY DEF Complete
<1>3. CASE HoldsLease(s) /\ IsLatest(e)
  <2>1. guard[k].state = "sending" /\ guard[k].owner = e
    BY <1>3 DEF HoldsLease
  <2>2. task[k].owner = e /\ task[k].status = "terminal"
    BY <2>1, <1>1, BusyGuard
  <2>3. c \in {"success", "skipped", "outcome_unknown", "failed"}
    BY DEF StatusOf
  <2>4. c \in CallbackStatuses
    BY <2>3 DEF CallbackStatuses, Unresolved, Resolved
  <2>5. g \in GuardRecord /\ g.owner = e
        /\ g.state = IF c = "outcome_unknown" THEN c ELSE "idle"
    BY <2>1, <2>3, <1>1 DEF RowInv, RowTypes, GuardNow, GuardRecord
  <2>6. sender[s].reply \in AllOutcomes \cup {""}
    BY DEF ThreadInv, ThreadTypes, ControlAssumption
  <2>7. FollowUps(k, "completed", sender[s].reply) \subseteq Event
    BY <2>6, <1>1, FollowUpsTyped DEF RowInv
  <2>8. CallbackStep(k, e, c, g)
    <3>1. /\ guard' = [guard EXCEPT ![k] = g]
          /\ events' = events \cup FollowUps(k, "completed", sender[s].reply)
          /\ execution' = [execution EXCEPT ![e].callback = c]
          /\ task' = [task EXCEPT ![KeyOf(e)].callback = IF IsLatest(e) THEN c ELSE @]
      BY <1>3 DEF Complete, SetCallback
    <3>2. task' = [task EXCEPT ![k].callback = c]
      BY <3>1, <1>3 DEF SenderKey
    <3>3. task' = [task EXCEPT ![k].callback = c, ![k].attempts = task[k].attempts]
      BY <3>2, <1>1 DEF RowInv, RowTypes
    <3>4. task[k].attempts \in Nat /\ events' \subseteq Event
      BY <3>1, <2>7, <1>1 DEF RowInv, RowTypes
    <3> QED
      BY <3>1, <3>3, <3>4, <1>2 DEF CallbackStep
  <2> HIDE DEF c, g, e, k
  <2> QED
    BY <2>2, <2>3, <2>4, <2>5, <2>8, <1>1, CallbackKeepsRows
<1>4. CASE ~(HoldsLease(s) /\ IsLatest(e))
  <2>1. UNCHANGED <<guard, events, execution, task>>
    BY <1>4 DEF Complete
  <2> QED
    BY <2>1, <1>2 DEF RowInv, RowTypes, RowShape, ProjectionAgrees, GuardAgrees,
                      Active, IsLatest, KeyOf
<1> QED
  BY <1>3, <1>4

\* A Guard of k is marked expired, or opened again by the operator.
LEMMA GuardMoveKeepsRows ==
    ASSUME RowInv, NEW k \in Keys, Expire(k) \/ Release(k)
    PROVE  RowInv'
<1>a. \A q \in Keys : guard[q] \in GuardRecord
  BY DEF RowInv, RowTypes, GuardRecord
<1>g. guard = [q \in Keys |-> guard[q]]
  BY DEF RowInv, RowTypes
<1>1. /\ \A q \in Keys : guard'[q].owner = guard[q].owner
      /\ \A q \in Keys : guard'[q].state = guard[q].state
                         \/ /\ guard'[q].state = "idle"
                            /\ guard[q].state = "outcome_unknown"
      /\ guard' \in [Keys -> GuardRecord]
  <2>1. CASE Expire(k)
    <3>1. guard' = [guard EXCEPT ![k].expired = TRUE]
      BY <2>1 DEF Expire
    <3> QED
      BY <3>1, <1>a, <1>g DEF GuardRecord
  <2>2. CASE Release(k)
    <3>1. guard' = [guard EXCEPT ![k].state = "idle"] /\ guard[k].state = "outcome_unknown"
      BY <2>2 DEF Release
    <3> QED
      BY <3>1, <1>a, <1>g DEF GuardRecord
  <2> QED
    BY <2>1, <2>2
<1>b. execution' = execution /\ task' = task /\ events' = events /\ lastSeq' = lastSeq
  BY DEF Expire, Release
<1>2. RowTypes'
  BY <1>1, <1>b DEF RowInv, RowTypes, GuardRecord
<1>3. RowShape'
  BY <1>1, <1>b DEF RowInv, RowShape
<1>4. ProjectionAgrees'
  BY <1>1, <1>b DEF RowInv, ProjectionAgrees, Active, IsLatest, KeyOf
<1>5. GuardAgrees'
  <2>1. \A e \in Execs : execution[e].key \in Keys
    BY DEF RowInv, RowTypes
  <2> QED
    BY <2>1, <1>1, <1>b DEF RowInv, GuardAgrees, KeyOf
<1> QED
  BY <1>2, <1>3, <1>4, <1>5 DEF RowInv

-----------------------------------------------------------------------------
(* The rows under every step.                                              *)

LEMMA SameRows ==
    ASSUME RowInv, UNCHANGED rows
    PROVE  RowInv'
BY DEF rows, RowInv, RowTypes, RowShape, ProjectionAgrees, GuardAgrees, Active, IsLatest, KeyOf

LEMMA FreezeOneKeepsRows ==
    ASSUME ControlAssumption, RowInv, NEW k \in Keys, Expired(k), FreezeAll({k}),
           lastSeq' = lastSeq
    PROVE  RowInv'
BY FreezeKeepsRows

LEMMA SubmitKeepsRows ==
    ASSUME ControlAssumption, RowInv, Admission
    PROVE  RowInv'
<1>1. CASE \E k \in Keys : SubmitTask(k)
  <2>1. PICK k \in Keys : Admit(1, [i \in 1 .. 1 |-> k])
    BY <1>1 DEF SubmitTask
  <2> DEFINE ks == [i \in 1 .. 1 |-> k]
  <2>2. ks \in [1 .. 1 -> Keys] /\ 1 \in Nat \ {0}
        /\ \A i, j \in 1 .. 1 : ks[i] = ks[j] => i = j
    OBVIOUS
  <2>3. Admit(1, ks)
    BY <2>1
  <2> HIDE DEF ks
  <2> QED
    BY <2>2, <2>3, AdmitKeepsRows
<1>2. CASE \E k \in Keys : SubmitFreezes(k)
  BY <1>2, FreezeOneKeepsRows DEF SubmitFreezes
<1>3. CASE \E n \in 1 .. MaxBatch : \E ks \in Batches(n) : SubmitBatch(n, ks)
  <2>0. PICK n \in 1 .. MaxBatch : \E ks \in Batches(n) : Admit(n, ks)
    BY <1>3 DEF SubmitBatch
  <2>1. PICK ks \in Batches(n) : Admit(n, ks)
    BY <2>0
  <2>2. n \in Nat \ {0} /\ ks \in [1 .. n -> Keys]
        /\ \A i, j \in 1 .. n : ks[i] = ks[j] => i = j
    BY DEF Batches, ControlAssumption
  <2> QED
    BY <2>1, <2>2, AdmitKeepsRows
<1> QED
  BY <1>1, <1>2, <1>3 DEF Admission

LEMMA ExecutionKeepsRows ==
    ASSUME ControlAssumption, RowInv, ThreadInv, NEW e \in Execs,
           RunExecution(e) \/ FailPoisoned(e)
    PROVE  RowInv'
<1>1. CASE Claim(e)
  BY <1>1, ClaimKeepsRows
<1>2. ASSUME NEW st \in Finished, Finish(e, st)
      PROVE  RowInv'
  <2>1. execution[e].state = "running"
    BY <1>2 DEF Finish
  <2>2. IsLatest(e)
    BY <2>1, ActiveRow DEF IsLatest, KeyOf
  <2> QED
    BY <1>2, <2>1, <2>2, EndKeepsRows DEF Finish
<1>3. CASE CheckLatest(e)
  BY <1>3, SameRows DEF CheckLatest, rows
<1>4. CASE FailPoisoned(e)
  <2>1. execution[e].state = "accepted" /\ "failed" \in Finished
    BY <1>4 DEF FailPoisoned, Finished
  <2>2. IsLatest(e)
    BY <2>1, ActiveRow DEF IsLatest, KeyOf
  <2> QED
    BY <1>4, <2>1, <2>2, EndKeepsRows DEF FailPoisoned
<1> QED
  BY <1>1, <1>2, <1>3, <1>4 DEF RunExecution

LEMMA DeliverKeepsRows ==
    ASSUME ControlAssumption, RowInv, ThreadInv, NEW s \in Senders,
           Deliver(s) \/ Die(s)
    PROVE  RowInv'
<1>1. CASE Acquire(s)
  BY <1>1, AcquireKeepsRows
<1>2. CASE AcquireFreezes(s)
  BY <1>2, AcquireFreezesExpired, FreezeOneKeepsRows DEF AcquireFreezes
<1>3. CASE AcquireRefused(s)
  BY <1>3, SameRows DEF AcquireRefused, rows
<1>4. CASE Validate(s)
  BY <1>4, SameRows DEF Validate, rows
<1>5. CASE ValidateFails(s)
  <2>1. SenderKey(s) \in Keys
    BY <1>5, SenderRow DEF ValidateFails
  <2>2. CASE Valid(s)
    BY <1>5, <2>1, <2>2, FreezeOneKeepsRows DEF ValidateFails
  <2>3. CASE ~Valid(s)
    BY <1>5, <2>3, SameRows DEF ValidateFails, rows
  <2> QED
    BY <2>2, <2>3
<1>6. ASSUME NEW outcome \in Outcomes, Post(s, outcome)
      PROVE  RowInv'
  BY <1>6, SameRows DEF Post, rows
<1>7. CASE Complete(s)
  BY <1>7, CompleteKeepsRows
<1>8. CASE Die(s)
  BY <1>8, SameRows DEF Die, rows
<1> QED
  BY <1>1, <1>2, <1>3, <1>4, <1>5, <1>6, <1>7, <1>8 DEF Deliver

LEMMA RequestKeepsRows ==
    ASSUME ControlAssumption, RowInv, ThreadInv, NEW r \in Recoverers,
           \E k \in Keys : LoadRecoverable(r, k)
    PROVE  RowInv'
<1>0. r \in Senders
  BY DEF Senders
<1>4. ASSUME NEW k \in Keys, LoadRecoverable(r, k)
      PROVE  RowInv'
  BY <1>4, SameRows DEF LoadRecoverable, rows
<1> QED
  BY <1>4

LEMMA SweepKeepsRows ==
    ASSUME ControlAssumption, RowInv, ThreadInv, SweepRead \/ SweepWrite
    PROVE  RowInv'
<1>1. CASE SweepRead
  BY <1>1, SameRows DEF SweepRead, rows
<1>2. CASE SweepWrite
  <2>1. {k \in candidates : Expired(k)} \in SUBSET Keys
    BY DEF ThreadInv, ThreadTypes
  <2> QED
    BY <1>2, <2>1, FreezeKeepsRows DEF SweepWrite
<1> QED
  BY <1>1, <1>2

LEMMA NextKeepsRows ==
    ASSUME ControlAssumption, IInv, [Next]_vars
    PROVE  RowInv'
<1> USE DEF IInv
<1>1. CASE UNCHANGED vars
  BY <1>1, SameRows DEF vars, rows
<1>2. CASE Admission
  BY <1>2, SubmitKeepsRows
<1>3. CASE \E e \in Execs : RunExecution(e) \/ FailPoisoned(e)
  BY <1>3, ExecutionKeepsRows
<1>4. CASE \E s \in Senders : Deliver(s) \/ Die(s)
  BY <1>4, DeliverKeepsRows
<1>5. CASE \E r \in Recoverers : \E k \in Keys : LoadRecoverable(r, k)
  BY <1>5, RequestKeepsRows
<1>6. CASE \E k \in Keys : Expire(k) \/ Release(k)
  BY <1>6, GuardMoveKeepsRows
<1>7. CASE SweepRead \/ SweepWrite
  BY <1>7, SweepKeepsRows
<1> QED
  BY <1>1, <1>2, <1>3, <1>4, <1>5, <1>6, <1>7 DEF Next

-----------------------------------------------------------------------------
(* The threads.                                                            *)

Points == {"idle", "working", "finished", "ready", "leased",
           "cleared", "replied", "done", "dead"}
Thread == [pc : Points,
           exec : Ids, attempts : Nat, version : Nat, reply : Outcomes \cup {""}]

\* Thread s goes on as t, an admitted execution's or idle.
ThreadStep(s, t) ==
    /\ sender' = [sender EXCEPT ![s] = t]
    /\ t \in Thread
    /\ t.pc # "idle" => t.exec \in Execs /\ t.exec <= lastSeq /\ (s \in Execs => t.exec = s)
    /\ lastSeq' = lastSeq
    /\ candidates' \subseteq Keys
    /\ lastPosted' \in [Keys -> Ids]

LEMMA StepKeepsThreads ==
    ASSUME ThreadInv, NEW s \in Senders, NEW t, ThreadStep(s, t)
    PROVE  ThreadInv'
<1>1. ThreadTypes'
  BY DEF ThreadInv, ThreadTypes, ThreadStep, Thread, Points
<1>2. \A q \in Senders : sender'[q] = IF q = s THEN t ELSE sender[q]
  BY DEF ThreadInv, ThreadTypes, ThreadStep
<1>3. ThreadShape'
  BY <1>2 DEF ThreadInv, ThreadShape, ThreadStep, Senders
<1> QED
  BY <1>1, <1>3 DEF ThreadInv

LEMMA IdleThread ==
    Idle \in Thread /\ Idle.pc = "idle"
BY DEF Idle, Thread, Points, Ids

LEMMA AtPoint ==
    ASSUME NEW t \in Thread, NEW p \in Points
    PROVE  /\ [t EXCEPT !.pc = p] \in Thread
           /\ [t EXCEPT !.pc = p].pc = p
           /\ [t EXCEPT !.pc = p].exec = t.exec
BY DEF Thread

LEMMA ThreadRow ==
    ASSUME ThreadInv, NEW s \in Senders
    PROVE  /\ sender[s] \in Thread
           /\ sender[s].pc # "idle" =>
                /\ sender[s].exec \in Execs /\ sender[s].exec <= lastSeq
                /\ s \in Execs => sender[s].exec = s
           /\ candidates \subseteq Keys
           /\ lastPosted \in [Keys -> Ids]
BY DEF ThreadInv, ThreadTypes, ThreadShape, Thread, Points

LEMMA LeaveKeepsThreads ==
    ASSUME ThreadInv, NEW s \in Senders, Leave(s), sender[s].pc # "idle",
           UNCHANGED <<lastSeq, candidates, lastPosted>>
    PROVE  ThreadInv'
<1>1. CASE s \in Recoverers
  <2>1. ThreadStep(s, Idle)
    BY <1>1, ThreadRow, IdleThread DEF Leave, ThreadStep
  <2> QED
    BY <2>1, StepKeepsThreads
<1>2. CASE s \notin Recoverers
  <2> DEFINE t == [sender[s] EXCEPT !.pc = "done"]
  <2>1. t \in Thread /\ t.exec = sender[s].exec
    BY ThreadRow, AtPoint DEF Points
  <2>2. sender' = [sender EXCEPT ![s] = t]
    BY <1>2 DEF Leave
  <2>3. ThreadStep(s, t)
    BY <2>1, <2>2, ThreadRow DEF ThreadStep
  <2> QED
    BY <2>3, StepKeepsThreads
<1> QED
  BY <1>1, <1>2

\* Thread s, which is not idle, moves to another point of its delivery.
LEMMA MoveKeepsThreads ==
    ASSUME ThreadInv, NEW s \in Senders, NEW t \in Thread, sender[s].pc # "idle",
           t.exec = sender[s].exec, sender' = [sender EXCEPT ![s] = t],
           UNCHANGED <<lastSeq, candidates>>, lastPosted' \in [Keys -> Ids]
    PROVE  ThreadInv'
<1>1. ThreadStep(s, t)
  BY ThreadRow DEF ThreadStep
<1> QED
  BY <1>1, StepKeepsThreads

\* No thread moves.
LEMMA RestKeepsThreads ==
    ASSUME ThreadInv, UNCHANGED <<sender, lastPosted>>, lastSeq \in Nat,
           lastSeq' \in Nat, lastSeq' >= lastSeq, candidates' \subseteq Keys
    PROVE  ThreadInv'
<1>1. \A n \in Execs : n <= lastSeq => n <= lastSeq'
  BY DEF Execs
<1>2. ThreadTypes'
  BY DEF ThreadInv, ThreadTypes
<1>3. ThreadShape'
  BY <1>1 DEF ThreadInv, ThreadShape
<1> QED
  BY <1>2, <1>3 DEF ThreadInv

LEMMA ExecutionKeepsThreads ==
    ASSUME ControlAssumption, RowInv, ThreadInv, NEW e \in Execs,
           RunExecution(e) \/ FailPoisoned(e)
    PROVE  ThreadInv'
<1>0. e \in Senders /\ (e <= lastSeq \/ execution[e].state = "none")
  BY DEF Senders, RowInv, RowShape, RowTypes, Execs, Ids, NoExec
<1>l. lastSeq \in Nat
  BY DEF RowInv, RowTypes, Ids, Execs, NoExec
<1>1. CASE Claim(e)
  <2> DEFINE t == [[sender[e] EXCEPT !.pc = "working"] EXCEPT !.exec = e]
  <2>1. IsLatest(e) /\ e <= lastSeq /\ e \in Senders
    BY <1>0, <1>1, ActiveRow DEF Claim, IsLatest, KeyOf
  <2>2. t \in Thread /\ t.pc = "working" /\ t.exec = e
    <3>1. sender[e] \in Thread /\ "working" \in Points
      BY <2>1, ThreadRow DEF Points
    <3>2. \A u \in Thread : /\ [u EXCEPT !.exec = e] \in Thread
                            /\ [u EXCEPT !.exec = e].pc = u.pc
                            /\ [u EXCEPT !.exec = e].exec = e
      BY DEF Thread, Ids
    <3> QED
      BY <3>1, <3>2, AtPoint
  <2>3. sender' = [sender EXCEPT ![e] = t]
    BY <1>1, <2>1 DEF Claim, ThreadInv, ThreadTypes
  <2>4. ThreadStep(e, t)
    BY <1>1, <2>1, <2>2, <2>3, ThreadRow DEF Claim, ThreadStep
  <2> QED
    BY <2>1, <2>4, StepKeepsThreads
<1>2. ASSUME NEW st \in Finished, Finish(e, st)
      PROVE  ThreadInv'
  <2>1. e \in Senders /\ sender[e].pc # "idle"
    BY <1>2 DEF Finish, Senders
  <2>2. CASE IsLatest(e)
    <3> DEFINE p == IF KeyOf(e) \in FileKeys THEN "ready" ELSE "finished"
               t == [sender[e] EXCEPT !.pc = p]
    <3>0. p \in Points /\ sender[e] \in Thread
      BY <2>1, ThreadRow DEF Points
    <3>2. sender' = [sender EXCEPT ![e] = t]
      BY <1>2, <2>2 DEF Finish
    <3> HIDE DEF p
    <3>1. t \in Thread /\ t.exec = sender[e].exec
      BY <3>0, AtPoint
    <3> QED
      BY <1>2, <2>1, <3>1, <3>2, ThreadRow, MoveKeepsThreads DEF Finish
  <2>3. CASE ~IsLatest(e)
    BY <1>2, <2>1, <2>3, LeaveKeepsThreads DEF Finish
  <2> QED
    BY <2>2, <2>3
<1>3. CASE CheckLatest(e)
  <2>1. e \in Senders /\ sender[e].pc # "idle"
    BY <1>3 DEF CheckLatest, Senders
  <2>2. CASE IsLatest(e)
    <3> DEFINE t == [sender[e] EXCEPT !.pc = "ready"]
    <3>1. t \in Thread /\ t.exec = sender[e].exec
      BY <2>1, ThreadRow, AtPoint DEF Points
    <3>2. sender' = [sender EXCEPT ![e] = t]
      BY <1>3, <2>2 DEF CheckLatest
    <3> QED
      BY <1>3, <2>1, <3>1, <3>2, ThreadRow, MoveKeepsThreads DEF CheckLatest
  <2>3. CASE ~IsLatest(e)
    BY <1>3, <2>1, <2>3, LeaveKeepsThreads DEF CheckLatest
  <2> QED
    BY <2>2, <2>3
<1>4. CASE FailPoisoned(e)
  <2>1. UNCHANGED <<lastSeq, sender, candidates, lastPosted>> /\ candidates \subseteq Keys
    BY <1>4 DEF FailPoisoned, ThreadInv, ThreadTypes
  <2> QED
    BY <2>1, <1>l, RestKeepsThreads
<1> QED
  BY <1>1, <1>2, <1>3, <1>4 DEF RunExecution

LEMMA DeliverKeepsThreads ==
    ASSUME ControlAssumption, RowInv, ThreadInv, NEW s \in Senders,
           Deliver(s) \/ Die(s)
    PROVE  ThreadInv'
<1>1. sender[s] \in Thread /\ lastPosted \in [Keys -> Ids]
  BY ThreadRow
<1>2. CASE Acquire(s)
  <2> DEFINE v == guard[SenderKey(s)].version + 1
             t == [[sender[s] EXCEPT !.pc = "leased"] EXCEPT !.version = v]
  <2>1. sender[s].pc # "idle"
    BY <1>2 DEF Acquire, Acquiring
  <2>2. guard[SenderKey(s)].version \in Nat
    BY <2>1, SenderRow DEF RowInv, RowTypes
  <2>3. t \in Thread /\ t.exec = sender[s].exec
    <3>1. v \in Nat
      BY <2>2
    <3> HIDE DEF v
    <3>2. [sender[s] EXCEPT !.pc = "leased"] \in Thread
          /\ [sender[s] EXCEPT !.pc = "leased"].exec = sender[s].exec
      BY <1>1, AtPoint DEF Points
    <3>3. \A u \in Thread : /\ [u EXCEPT !.version = v] \in Thread
                            /\ [u EXCEPT !.version = v].exec = u.exec
      BY <3>1 DEF Thread
    <3> QED
      BY <3>2, <3>3
  <2>4. sender' = [sender EXCEPT ![s] = t]
    BY <1>2 DEF Acquire, ThreadInv, ThreadTypes
  <2>5. UNCHANGED <<lastSeq, candidates, lastPosted>>
    BY <1>2 DEF Acquire
  <2> QED
    BY <1>1, <2>1, <2>3, <2>4, <2>5, MoveKeepsThreads
<1>3. CASE AcquireFreezes(s)
  BY <1>3, LeaveKeepsThreads DEF AcquireFreezes, Acquiring
<1>4. CASE AcquireRefused(s)
  BY <1>4, LeaveKeepsThreads DEF AcquireRefused, Acquiring
<1>5. CASE Validate(s)
  <2>1. sender' = [sender EXCEPT ![s] = [sender[s] EXCEPT !.pc = "cleared"]]
        /\ UNCHANGED <<lastSeq, candidates, lastPosted>>
        /\ sender[s].pc # "idle"
    BY <1>5 DEF Validate
  <2> QED
    BY <1>1, <2>1, AtPoint, MoveKeepsThreads DEF Points
<1>6. CASE ValidateFails(s)
  BY <1>6, LeaveKeepsThreads DEF ValidateFails
<1>7. ASSUME NEW outcome \in Outcomes, Post(s, outcome)
      PROVE  ThreadInv'
  <2> DEFINE t == [[sender[s] EXCEPT !.pc = "replied"] EXCEPT !.reply = outcome]
  <2>1. t \in Thread /\ t.exec = sender[s].exec
    <3>1. [sender[s] EXCEPT !.pc = "replied"] \in Thread
          /\ [sender[s] EXCEPT !.pc = "replied"].exec = sender[s].exec
      BY <1>1, AtPoint DEF Points
    <3>2. \A u \in Thread : /\ [u EXCEPT !.reply = outcome] \in Thread
                            /\ [u EXCEPT !.reply = outcome].exec = u.exec
      BY DEF Thread
    <3> QED
      BY <3>1, <3>2
  <2>2. sender' = [sender EXCEPT ![s] = t]
    BY <1>7 DEF Post, ThreadInv, ThreadTypes
  <2>3. sender[s].pc # "idle" /\ UNCHANGED <<lastSeq, candidates>>
    BY <1>7 DEF Post
  <2>4. lastPosted' \in [Keys -> Ids]
    BY <1>1, <1>7, <2>3, ThreadRow DEF Post, Ids
  <2> QED
    BY <2>1, <2>2, <2>3, <2>4, MoveKeepsThreads
<1>8. CASE Complete(s)
  BY <1>8, LeaveKeepsThreads DEF Complete
<1>9. CASE Die(s)
  <2> DEFINE t == [sender[s] EXCEPT !.pc = "dead"]
  <2>1. sender[s].pc # "idle" /\ UNCHANGED <<lastSeq, candidates, lastPosted>>
        /\ sender' = [sender EXCEPT ![s] = IF s \in Recoverers THEN Idle ELSE t]
    BY <1>9 DEF Die
  <2>2. t \in Thread /\ t.exec = sender[s].exec
    BY <1>1, AtPoint DEF Points
  <2>3. CASE s \in Recoverers
    <3>1. ThreadStep(s, Idle)
      BY <2>1, <2>3, ThreadRow, IdleThread DEF ThreadStep
    <3> QED
      BY <3>1, StepKeepsThreads
  <2>4. CASE s \notin Recoverers
    BY <1>1, <2>1, <2>2, <2>4, MoveKeepsThreads
  <2> QED
    BY <2>3, <2>4
<1> QED
  BY <1>2, <1>3, <1>4, <1>5, <1>6, <1>7, <1>8, <1>9 DEF Deliver

LEMMA RequestKeepsThreads ==
    ASSUME ControlAssumption, RowInv, ThreadInv, NEW r \in Recoverers,
           \E k \in Keys : LoadRecoverable(r, k)
    PROVE  ThreadInv'
<1>0. r \in Senders /\ r \notin Execs
  BY DEF Senders, ControlAssumption, Execs
<1>1. sender[r] \in Thread /\ lastPosted \in [Keys -> Ids] /\ candidates \subseteq Keys
  BY <1>0, ThreadRow
<1>5. ASSUME NEW k \in Keys, LoadRecoverable(r, k)
      PROVE  ThreadInv'
  <2> DEFINE t == [pc |-> "ready", exec |-> task[k].owner, attempts |-> task[k].attempts,
                   version |-> 0, reply |-> ""]
  <2>1. /\ task[k].owner \in Execs /\ task[k].owner <= lastSeq
        /\ task[k].attempts \in Nat
    BY <1>5 DEF LoadRecoverable, RowInv, RowTypes, RowShape, Ids
  <2>2. t \in Thread /\ t.pc = "ready" /\ t.exec = task[k].owner
    BY <2>1 DEF Thread, Points, Ids
  <2>3. /\ sender' = [sender EXCEPT ![r] = t]
        /\ UNCHANGED <<lastSeq, candidates, lastPosted>>
    BY <1>5 DEF LoadRecoverable
  <2>4. ThreadStep(r, t)
    BY <1>0, <1>1, <2>1, <2>2, <2>3 DEF ThreadStep
  <2> QED
    BY <1>0, <2>4, StepKeepsThreads
<1> QED
  BY <1>5

LEMMA NextKeepsThreads ==
    ASSUME ControlAssumption, IInv, [Next]_vars
    PROVE  ThreadInv'
<1> USE DEF IInv
<1>l. lastSeq \in Nat /\ candidates \subseteq Keys
  <2>1. lastSeq \in Nat
    BY DEF RowInv, RowTypes, Ids, Execs, NoExec
  <2>2. candidates \subseteq Keys
    BY DEF ThreadInv, ThreadTypes
  <2> QED
    BY <2>1, <2>2
<1>1. CASE UNCHANGED vars
  BY <1>1, <1>l, RestKeepsThreads DEF vars
<1>2. CASE Admission
  <2>1. ASSUME NEW n \in Nat, NEW ks, Admit(n, ks)
        PROVE  ThreadInv'
    <3>1. lastSeq' = lastSeq + n /\ UNCHANGED <<sender, candidates, lastPosted>>
      BY <2>1 DEF Admit
    <3> QED
      BY <1>l, <3>1, RestKeepsThreads
  <2>2. CASE \E k \in Keys : SubmitTask(k)
    BY <2>1, <2>2 DEF SubmitTask
  <2>3. CASE \E k \in Keys : SubmitFreezes(k)
    BY <1>l, <2>3, RestKeepsThreads DEF SubmitFreezes
  <2>4. CASE \E n \in 1 .. MaxBatch : \E ks \in Batches(n) : SubmitBatch(n, ks)
    BY <2>1, <2>4 DEF SubmitBatch, ControlAssumption
  <2> QED
    BY <1>2, <2>2, <2>3, <2>4 DEF Admission
<1>3. CASE \E e \in Execs : RunExecution(e) \/ FailPoisoned(e)
  BY <1>3, ExecutionKeepsThreads
<1>4. CASE \E s \in Senders : Deliver(s) \/ Die(s)
  BY <1>4, DeliverKeepsThreads
<1>5. CASE \E r \in Recoverers : \E k \in Keys : LoadRecoverable(r, k)
  BY <1>5, RequestKeepsThreads
<1>6. CASE \E k \in Keys : Expire(k) \/ Release(k)
  BY <1>l, <1>6, RestKeepsThreads DEF Expire, Release
<1>7. CASE SweepRead \/ SweepWrite
  <2>1. UNCHANGED <<lastSeq, sender, lastPosted>> /\ candidates' \subseteq Keys
    BY <1>7 DEF SweepRead, SweepWrite
  <2> QED
    BY <1>l, <2>1, RestKeepsThreads
<1> QED
  BY <1>1, <1>2, <1>3, <1>4, <1>5, <1>6, <1>7 DEF Next

-----------------------------------------------------------------------------
(* The invariant.                                                          *)

LEMMA InitInvariant ==
    ASSUME ControlAssumption, Init
    PROVE  IInv
<1> USE DEF Init
<1>1. NoRow.key \in Keys /\ NoRow.state = "none" /\ NoRow.callback = "pending"
  BY DEF NoRow, ControlAssumption
<1>2. NoRow \in [state : ExecutionStates, key : Keys, callback : CallbackStatuses]
  <2>1. (CHOOSE k \in Keys : TRUE) \in Keys
    BY DEF ControlAssumption
  <2> QED
    BY <2>1 DEF NoRow, ExecutionStates, CallbackStatuses, Unresolved
<1>3. RowTypes
  BY <1>2 DEF RowTypes, Ids, CallbackStatuses, Unresolved, Execs, NoExec
<1>4. RowShape
  BY <1>1 DEF RowShape, Execs, NoExec, ControlAssumption
<1>5. ProjectionAgrees /\ GuardAgrees
  BY <1>1 DEF ProjectionAgrees, GuardAgrees, Active, NoExec
<1>6. ThreadInv
  <2>1. sender \in [Senders -> Thread] /\ \A s \in Senders : sender[s].pc = "idle"
    BY IdleThread
  <2>2. ThreadTypes
    BY <2>1 DEF ThreadTypes, Thread, Points, Ids
  <2>3. ThreadShape
    BY <2>1 DEF ThreadShape, Senders
  <2> QED
    BY <2>2, <2>3 DEF ThreadInv
<1> QED
  BY <1>3, <1>4, <1>5, <1>6 DEF IInv, RowInv

\* The rows, the Guards and the threads keep the inductive invariant.
THEOREM Invariant ==
    ASSUME ControlAssumption
    PROVE  Spec => []IInv
<1>1. Init => IInv
  BY InitInvariant
<1>2. IInv /\ [Next]_vars => IInv'
  BY NextKeepsRows, NextKeepsThreads DEF IInv
<1> QED
  BY <1>1, <1>2, PTL DEF Spec

\* Every reachable row, Guard, event and thread is of its kind.
THEOREM Typed ==
    ASSUME ControlAssumption
    PROVE  Spec => []TypeOK
<1>1. IInv => TypeOK
  BY DEF IInv, RowInv, ThreadInv, TypeOK
<1> QED
  BY <1>1, Invariant, PTL

\* One execution holds a key, and the projection of the key tells its state:
\* the branches of claim and finish that mark an execution stale are dead.
THEOREM ProjectionsAgree ==
    ASSUME ControlAssumption
    PROVE  Spec => []ProjectionAgrees
<1>1. IInv => ProjectionAgrees
  BY DEF IInv, RowInv
<1> QED
  BY <1>1, Invariant, PTL

\* Execution, projection and Guard never disagree about a delivery: the branch
\* of acquire that freezes an inconsistent Guard is dead.
THEOREM GuardsAgree ==
    ASSUME ControlAssumption
    PROVE  Spec => []GuardAgrees
<1>1. IInv => GuardAgrees
  BY DEF IInv, RowInv
<1> QED
  BY <1>1, Invariant, PTL

\* So the rows of every key agree in every reachable state, however many keys,
\* executions, attempts and threads there are.
THEOREM RowsAlwaysAgree ==
    ASSUME ControlAssumption
    PROVE  Spec => []RowsAgree
<1>1. IInv => RowsAgree
  BY DEF IInv, RowInv, RowsAgree
<1> QED
  BY <1>1, Invariant, PTL

-----------------------------------------------------------------------------
(* What a step may do to a key.                                            *)

Quiet(k) == /\ guard'[k].state = guard[k].state
            /\ task'[k].owner = task[k].owner
            /\ task'[k].callback = task[k].callback

Submitted(k) == /\ BlockReason(k) = "none"
                /\ guard'[k].state = guard[k].state
                /\ task'[k].callback = "pending"

Frozen(k) == /\ Expired(k)
             /\ guard'[k].state = "outcome_unknown"
             /\ task'[k].owner = task[k].owner
             /\ task'[k].callback = "outcome_unknown"

Acquired(k) == /\ guard'[k].state = "sending"
               /\ task'[k].owner = task[k].owner
               /\ task'[k].callback = "sending"

Completed(k, s) ==
    LET c == StatusOf(sender[s].reply) IN
    /\ sender[s].pc = "replied" /\ sender'[s].pc # "replied"
    /\ SenderKey(s) = k /\ HoldsLease(s)
    /\ guard'[k].state = IF c = "outcome_unknown" THEN c ELSE "idle"
    /\ task'[k].owner = task[k].owner
    /\ task'[k].callback = c

Released(k) == /\ k \notin FileKeys
               /\ guard[k].state = "outcome_unknown" /\ guard'[k].state = "idle"
               /\ task'[k].owner = task[k].owner
               /\ task'[k].callback = task[k].callback

KeyMove(k) == \/ Quiet(k) \/ Submitted(k) \/ Frozen(k) \/ Acquired(k) \/ Released(k)
              \/ \E s \in Senders : Completed(k, s)

LEMMA QuietStep ==
    ASSUME UNCHANGED <<task, guard>>, NEW k \in Keys
    PROVE  KeyMove(k)
BY DEF KeyMove, Quiet

LEMMA FreezeMoves ==
    ASSUME RowInv, NEW ks \in SUBSET Keys, \A q \in ks : Expired(q), FreezeAll(ks),
           NEW k \in Keys
    PROVE  KeyMove(k)
<1>1. CASE k \in ks
  <2>1. task[k].owner = guard[k].owner
    BY <1>1, BusyGuard DEF Expired
  <2>2. guard'[k].state = "outcome_unknown"
    BY <1>1 DEF FreezeAll, GuardNow
  <2>3. task'[k] = [task[k] EXCEPT !.callback = "outcome_unknown"]
    BY <1>1, <2>1 DEF FreezeAll
  <2> QED
    BY <1>1, <2>2, <2>3 DEF KeyMove, Frozen, RowInv, RowTypes
<1>2. CASE k \notin ks
  BY <1>2 DEF FreezeAll, KeyMove, Quiet
<1> QED
  BY <1>1, <1>2

LEMMA AdmitMoves ==
    ASSUME NEW n \in Nat, NEW ks, Admit(n, ks), NEW k \in Keys
    PROVE  KeyMove(k)
<1>1. CASE k \in {ks[i] : i \in 1 .. n}
  BY <1>1 DEF Admit, Admissible, KeyMove, Submitted
<1>2. CASE k \notin {ks[i] : i \in 1 .. n}
  BY <1>2 DEF Admit, KeyMove, Quiet
<1> QED
  BY <1>1, <1>2

LEMMA DeliverMoves ==
    ASSUME ControlAssumption, RowInv, ThreadInv, NEW s \in Senders,
           Deliver(s) \/ Die(s), NEW k \in Keys
    PROVE  KeyMove(k)
<1>1. CASE Acquire(s)
  <2> DEFINE q == SenderKey(s)
             g == [state |-> "sending", owner |-> sender[s].exec,
                   version |-> guard[q].version + 1, expired |-> FALSE]
  <2>1. /\ guard' = [guard EXCEPT ![q] = g]
        /\ task' = [task EXCEPT ![q].callback = "sending", ![q].attempts = @ + 1]
    BY <1>1 DEF Acquire
  <2>2. CASE k = q
    BY <2>1, <2>2 DEF KeyMove, Acquired, RowInv, RowTypes
  <2>3. CASE k # q
    BY <2>1, <2>3 DEF KeyMove, Quiet, RowInv, RowTypes
  <2> QED
    BY <2>2, <2>3
<1>2. CASE AcquireFreezes(s)
  <2>1. {SenderKey(s)} \in SUBSET Keys
    BY <1>2, AcquireFreezesExpired
  <2> QED
    BY <1>2, <2>1, AcquireFreezesExpired, FreezeMoves
<1>3. CASE AcquireRefused(s) \/ Validate(s) \/ (\E o \in Outcomes : Post(s, o)) \/ Die(s)
  BY <1>3, QuietStep DEF AcquireRefused, Validate, Post, Die
<1>4. CASE ValidateFails(s)
  <2>1. {SenderKey(s)} \in SUBSET Keys
    BY <1>4, SenderRow DEF ValidateFails
  <2>2. CASE Valid(s)
    BY <1>4, <2>1, <2>2, FreezeMoves DEF ValidateFails
  <2>3. CASE ~Valid(s)
    BY <1>4, <2>3, QuietStep DEF ValidateFails
  <2> QED
    BY <2>2, <2>3
<1>5. CASE Complete(s)
  <2> DEFINE q == SenderKey(s)
             c == StatusOf(sender[s].reply)
  <2>1. CASE HoldsLease(s) /\ IsLatest(sender[s].exec)
    <3>1. /\ guard' = [guard EXCEPT ![q] =
                         GuardNow(q, IF c = "outcome_unknown" THEN c ELSE "idle")]
          /\ task' = [task EXCEPT ![q].callback = c]
      BY <1>5, <2>1 DEF Complete, SetCallback, SenderKey
    <3>2. CASE k = q
      <4>1. sender[s].pc = "replied" /\ sender'[s].pc # "replied"
        BY <1>5 DEF Complete, Leave, Idle, ThreadInv, ThreadTypes
      <4>2. guard'[k].state = IF c = "outcome_unknown" THEN c ELSE "idle"
        BY <3>1, <3>2 DEF GuardNow, RowInv, RowTypes
      <4>3. task'[k].owner = task[k].owner /\ task'[k].callback = c
        BY <3>1, <3>2 DEF RowInv, RowTypes
      <4>4. Completed(k, s)
        BY <3>2, <2>1, <4>1, <4>2, <4>3 DEF Completed
      <4> QED
        BY <4>4 DEF KeyMove
    <3>3. CASE k # q
      BY <3>1, <3>3 DEF KeyMove, Quiet, RowInv, RowTypes
    <3> QED
      BY <3>2, <3>3
  <2>2. CASE ~(HoldsLease(s) /\ IsLatest(sender[s].exec))
    BY <1>5, <2>2, QuietStep DEF Complete
  <2> QED
    BY <2>1, <2>2
<1> QED
  BY <1>1, <1>2, <1>3, <1>4, <1>5 DEF Deliver

LEMMA Moves ==
    ASSUME ControlAssumption, IInv, [Next]_vars, NEW k \in Keys
    PROVE  KeyMove(k)
<1> USE DEF IInv
<1>1. CASE UNCHANGED vars
  BY <1>1, QuietStep DEF vars
<1>2. CASE Admission
  <2>1. CASE \E q \in Keys : SubmitTask(q)
    BY <2>1, AdmitMoves DEF SubmitTask
  <2>2. ASSUME NEW q \in Keys, SubmitFreezes(q)
        PROVE  KeyMove(k)
    BY <2>2, FreezeMoves DEF SubmitFreezes
  <2>3. CASE \E n \in 1 .. MaxBatch : \E ks \in Batches(n) : SubmitBatch(n, ks)
    BY <2>3, AdmitMoves DEF SubmitBatch, ControlAssumption
  <2> QED
    BY <1>2, <2>1, <2>2, <2>3 DEF Admission
<1>3. ASSUME NEW e \in Execs, RunExecution(e) \/ FailPoisoned(e)
      PROVE  KeyMove(k)
  <2>1. guard' = guard
    BY <1>3 DEF RunExecution, Claim, Finish, CheckLatest, FailPoisoned
  <2>2. task' = task \/ task' = [task EXCEPT ![KeyOf(e)].status = "terminal"]
    BY <1>3 DEF RunExecution, Claim, Finish, CheckLatest, FailPoisoned
  <2> QED
    BY <2>1, <2>2 DEF KeyMove, Quiet, RowInv, RowTypes
<1>4. CASE \E s \in Senders : Deliver(s) \/ Die(s)
  BY <1>4, DeliverMoves
<1>5. ASSUME NEW r \in Recoverers, \E q \in Keys : LoadRecoverable(r, q)
      PROVE  KeyMove(k)
  BY <1>5, QuietStep DEF LoadRecoverable
<1>6. ASSUME NEW q \in Keys, Expire(q) \/ Release(q)
      PROVE  KeyMove(k)
  <2>1. CASE Expire(q)
    <3>1. task' = task /\ guard' = [guard EXCEPT ![q].expired = TRUE]
      BY <2>1 DEF Expire
    <3> QED
      BY <3>1 DEF KeyMove, Quiet, RowInv, RowTypes
  <2>2. CASE Release(q)
    <3>1. /\ task' = task /\ guard' = [guard EXCEPT ![q].state = "idle"]
          /\ q \notin FileKeys /\ guard[q].state = "outcome_unknown"
      BY <2>2 DEF Release
    <3> QED
      BY <3>1 DEF KeyMove, Quiet, Released, RowInv, RowTypes
  <2> QED
    BY <1>6, <2>1, <2>2
<1>7. CASE SweepRead
  BY <1>7, QuietStep DEF SweepRead
<1>8. CASE SweepWrite
  <2>1. {q \in candidates : Expired(q)} \in SUBSET Keys
    BY DEF ThreadInv, ThreadTypes
  <2> QED
    BY <1>8, <2>1, FreezeMoves DEF SweepWrite
<1> QED
  BY <1>1, <1>2, <1>3, <1>4, <1>5, <1>6, <1>7, <1>8 DEF Next

-----------------------------------------------------------------------------
(* Freezing, and superseding.                                              *)

\* The paths that freeze a Guard leave a live lease alone: only the sender
\* that holds it, with an answer it cannot interpret, ends it as unknown.
THEOREM OnlyExpiredFreeze ==
    ASSUME ControlAssumption
    PROVE  Spec => FreezeOnlyExpired
<1>1. IInv /\ [Next]_vars =>
        \A k \in Keys :
          guard[k].state = "sending" /\ guard'[k].state = "outcome_unknown" =>
            \/ guard[k].expired
            \/ \E s \in Senders : /\ sender[s].pc = "replied" /\ sender'[s].pc # "replied"
                                  /\ SenderKey(s) = k /\ HoldsLease(s)
                                  /\ sender[s].reply = "delivery_outcome_unknown"
  <2> SUFFICES ASSUME IInv, [Next]_vars, NEW k \in Keys,
                      guard[k].state = "sending", guard'[k].state = "outcome_unknown",
                      ~guard[k].expired
               PROVE  \E s \in Senders :
                        /\ sender[s].pc = "replied" /\ sender'[s].pc # "replied"
                        /\ SenderKey(s) = k /\ HoldsLease(s)
                        /\ sender[s].reply = "delivery_outcome_unknown"
    OBVIOUS
  <2>1. KeyMove(k)
    BY Moves
  <2>2. PICK s \in Senders : Completed(k, s)
    BY <2>1 DEF KeyMove, Quiet, Submitted, Frozen, Acquired, Released, Expired
  <2>3. StatusOf(sender[s].reply) = "outcome_unknown"
    BY <2>2 DEF Completed
  <2>4. sender[s].reply = "delivery_outcome_unknown"
    BY <2>3 DEF StatusOf
  <2> QED
    BY <2>2, <2>4 DEF Completed
<1> QED
  BY <1>1, Invariant, PTL DEF Spec, FreezeOnlyExpired

\* A frozen file key keeps its Guard frozen: no operator releases it.
FileFrozen == \A k \in FileKeys :
    task[k].callback = "outcome_unknown" => guard[k].state = "outcome_unknown"

LEMMA FilesStayFrozen ==
    ASSUME ControlAssumption
    PROVE  Spec => [](IInv /\ FileFrozen)
<1>1. Init => FileFrozen
  BY DEF Init, FileFrozen, ControlAssumption
<1>2. IInv /\ FileFrozen /\ [Next]_vars => FileFrozen'
  <2> SUFFICES ASSUME IInv, FileFrozen, [Next]_vars, NEW k \in FileKeys,
                      task'[k].callback = "outcome_unknown"
               PROVE  guard'[k].state = "outcome_unknown"
    BY DEF FileFrozen
  <2>1. KeyMove(k) /\ k \in Keys
    BY Moves DEF ControlAssumption
  <2> QED
    BY <2>1 DEF FileFrozen, KeyMove, Quiet, Submitted, Frozen, Acquired, Released, Completed
<1> QED
  BY <1>1, <1>2, Invariant, PTL DEF Spec

LEMMA OpenFile ==
    ASSUME ControlAssumption, IInv, FileFrozen, NEW k \in FileKeys, BlockReason(k) = "none"
    PROVE  UpsertAllowed(k)
<1>1. k \in Keys /\ guard[k].state = "idle" /\ task[k].status # "active"
  BY OpenKey DEF ControlAssumption, IInv, RowInv
<1>2. task[k].owner # NoExec => task[k].callback # "pending"
  BY <1>1 DEF BlockReason
<1>3. task[k].callback # "outcome_unknown"
  BY <1>1 DEF FileFrozen
<1>4. ASSUME task[k].owner # NoExec
      PROVE  task[k].callback # "sending"
  <2>1. task[k].owner \in Execs
    BY <1>1, <1>4 DEF IInv, RowInv, RowTypes, Ids
  <2>2. /\ execution[task[k].owner].key = k
        /\ task[k].callback = execution[task[k].owner].callback
    BY <1>1, <2>1, OwnerRow DEF IInv
  <2> QED
    BY <1>1, <2>1, <2>2, SendingRow DEF IInv
<1>5. task[k].callback \in CallbackStatuses
  BY <1>1 DEF IInv, RowInv, RowTypes
<1>6. task[k].owner # NoExec => task[k].status = "terminal"
  BY <1>1 DEF IInv, RowInv, RowTypes, RowShape
<1> QED
  BY <1>2, <1>3, <1>4, <1>5, <1>6 DEF UpsertAllowed, CallbackStatuses, Unresolved, Resolved

\* The two statements of one admission, the check in Python and the WHERE of
\* the upsert in SQL, never contradict: the batch never raises half-way.
THEOREM AdmissionNeverContradicts ==
    ASSUME ControlAssumption
    PROVE  Spec => []AdmissionNeverRaises
<1>1. IInv /\ FileFrozen => AdmissionNeverRaises
  BY OpenFile DEF AdmissionNeverRaises
<1> QED
  BY <1>1, FilesStayFrozen, PTL

\* No submission takes a key away from a delivery that is not settled.
THEOREM OnlySettledSuperseded ==
    ASSUME ControlAssumption
    PROVE  Spec => SupersededOnlyWhenSettled
<1>1. IInv /\ FileFrozen /\ [Next]_vars =>
        \A k \in Keys : task'[k].owner # task[k].owner /\ task[k].owner # NoExec =>
          /\ execution[task[k].owner].state \in Finished
          /\ guard[k].state = "idle"
          /\ k \in FileKeys => execution[task[k].owner].callback \in Resolved
  <2> SUFFICES ASSUME IInv, FileFrozen, [Next]_vars, NEW k \in Keys,
                      task'[k].owner # task[k].owner, task[k].owner # NoExec
               PROVE  /\ execution[task[k].owner].state \in Finished
                      /\ guard[k].state = "idle"
                      /\ k \in FileKeys => execution[task[k].owner].callback \in Resolved
    OBVIOUS
  <2>1. BlockReason(k) = "none"
    BY Moves DEF KeyMove, Quiet, Submitted, Frozen, Acquired, Released, Completed
  <2>2. guard[k].state = "idle" /\ task[k].status # "active"
    BY <2>1, OpenKey DEF IInv, RowInv
  <2>3. task[k].owner \in Execs
    BY DEF IInv, RowInv, RowTypes, Ids
  <2>4. /\ execution[task[k].owner].state \in Finished
        /\ task[k].callback = execution[task[k].owner].callback
    BY <2>2, <2>3, OwnerRow DEF IInv
  <2>5. k \in FileKeys => task[k].callback \in Resolved
    BY <2>1, <2>3, OpenFile DEF UpsertAllowed, Execs, NoExec
  <2> QED
    BY <2>2, <2>4, <2>5
<1> QED
  BY <1>1, FilesStayFrozen, PTL DEF Spec, SupersededOnlyWhenSettled

-----------------------------------------------------------------------------
(* What a step may do to the callback of an execution.                     *)

CallbackKept(e) == execution'[e].callback = execution[e].callback

CallbackMove(e) ==
    \/ CallbackKept(e)
    \/ /\ execution'[e].callback # "pending"
       /\ \/ execution[e].callback = "sending"
          \/ \E s \in Senders : Acquire(s) /\ sender[s].exec = e

LEMMA FreezeMovesCallback ==
    ASSUME RowInv, NEW ks \in SUBSET Keys, \A q \in ks : Expired(q), FreezeAll(ks),
           NEW e \in Execs
    PROVE  CallbackMove(e)
<1>1. CASE \E k \in ks : guard[k].owner = e
  <2>1. execution[e].callback = "sending"
    BY <1>1, BusyGuard DEF Expired
  <2>2. execution'[e].callback = "outcome_unknown"
    BY <1>1 DEF FreezeAll, RowInv, RowTypes
  <2> QED
    BY <2>1, <2>2 DEF CallbackMove
<1>2. CASE ~\E k \in ks : guard[k].owner = e
  BY <1>2 DEF FreezeAll, CallbackMove, CallbackKept
<1> QED
  BY <1>1, <1>2

LEMMA AdmitMovesCallback ==
    ASSUME RowInv, NEW n \in Nat, NEW ks, Admit(n, ks), NEW e \in Execs
    PROVE  CallbackMove(e)
<1>1. CASE e \in (lastSeq + 1) .. (lastSeq + n)
  <2>1. execution'[e].callback = "pending"
    BY <1>1 DEF Admit, NewRow
  <2>2. e > lastSeq
    BY <1>1 DEF RowInv, RowTypes, Ids, Execs, NoExec
  <2> QED
    BY <2>1, <2>2 DEF RowInv, RowShape, CallbackMove, CallbackKept
<1>2. CASE e \notin (lastSeq + 1) .. (lastSeq + n)
  BY <1>2 DEF Admit, CallbackMove, CallbackKept
<1> QED
  BY <1>1, <1>2

LEMMA SameExecutions ==
    ASSUME execution' = execution, NEW e \in Execs
    PROVE  CallbackMove(e)
BY DEF CallbackMove, CallbackKept

LEMMA DeliverMovesCallback ==
    ASSUME ControlAssumption, RowInv, ThreadInv, NEW s \in Senders,
           Deliver(s) \/ Die(s), NEW e \in Execs
    PROVE  CallbackMove(e)
<1>1. CASE Acquire(s)
  <2>1. execution' = [execution EXCEPT ![sender[s].exec].callback = "sending"]
    BY <1>1 DEF Acquire
  <2> QED
    BY <1>1, <2>1 DEF CallbackMove, CallbackKept, RowInv, RowTypes
<1>2. CASE AcquireFreezes(s)
  <2>1. {SenderKey(s)} \in SUBSET Keys
    BY <1>2, AcquireFreezesExpired
  <2> QED
    BY <1>2, <2>1, AcquireFreezesExpired, FreezeMovesCallback
<1>3. CASE AcquireRefused(s) \/ Validate(s) \/ (\E o \in Outcomes : Post(s, o)) \/ Die(s)
  BY <1>3, SameExecutions DEF AcquireRefused, Validate, Post, Die
<1>4. CASE ValidateFails(s)
  <2>1. {SenderKey(s)} \in SUBSET Keys
    BY <1>4, SenderRow DEF ValidateFails
  <2>2. CASE Valid(s)
    BY <1>4, <2>1, <2>2, FreezeMovesCallback DEF ValidateFails
  <2>3. CASE ~Valid(s)
    BY <1>4, <2>3, SameExecutions DEF ValidateFails
  <2> QED
    BY <2>2, <2>3
<1>5. CASE Complete(s)
  <2>1. CASE HoldsLease(s) /\ IsLatest(sender[s].exec)
    <3>1. execution' = [execution EXCEPT ![sender[s].exec].callback =
                                            StatusOf(sender[s].reply)]
      BY <1>5, <2>1 DEF Complete, SetCallback
    <3>2. execution[sender[s].exec].callback = "sending"
      BY <1>5, <2>1, SenderRow, BusyGuard DEF Complete, HoldsLease
    <3>3. StatusOf(sender[s].reply) # "pending"
      BY DEF StatusOf
    <3> QED
      BY <3>1, <3>2, <3>3 DEF CallbackMove, CallbackKept, RowInv, RowTypes
  <2>2. CASE ~(HoldsLease(s) /\ IsLatest(sender[s].exec))
    BY <1>5, <2>2, SameExecutions DEF Complete
  <2> QED
    BY <2>1, <2>2
<1> QED
  BY <1>1, <1>2, <1>3, <1>4, <1>5 DEF Deliver

LEMMA CallbackMoves ==
    ASSUME ControlAssumption, IInv, [Next]_vars, NEW e \in Execs
    PROVE  CallbackMove(e)
<1> USE DEF IInv
<1>1. CASE UNCHANGED vars
  BY <1>1, SameExecutions DEF vars
<1>2. CASE Admission
  <2>1. CASE \E q \in Keys : SubmitTask(q)
    BY <2>1, AdmitMovesCallback DEF SubmitTask
  <2>2. ASSUME NEW q \in Keys, SubmitFreezes(q)
        PROVE  CallbackMove(e)
    BY <2>2, FreezeMovesCallback DEF SubmitFreezes
  <2>3. CASE \E n \in 1 .. MaxBatch : \E ks \in Batches(n) : SubmitBatch(n, ks)
    BY <2>3, AdmitMovesCallback DEF SubmitBatch, ControlAssumption
  <2> QED
    BY <1>2, <2>1, <2>2, <2>3 DEF Admission
<1>3. ASSUME NEW d \in Execs, RunExecution(d) \/ FailPoisoned(d)
      PROVE  CallbackMove(e)
  <2>1. execution' = execution
        \/ \E st \in ExecutionStates : execution' = [execution EXCEPT ![d].state = st]
    BY <1>3 DEF RunExecution, Claim, Finish, CheckLatest, FailPoisoned, ExecutionStates,
                Finished
  <2> QED
    BY <2>1 DEF CallbackMove, CallbackKept, RowInv, RowTypes
<1>4. CASE \E s \in Senders : Deliver(s) \/ Die(s)
  BY <1>4, DeliverMovesCallback
<1>5. ASSUME NEW r \in Recoverers, \E q \in Keys : LoadRecoverable(r, q)
      PROVE  CallbackMove(e)
  BY <1>5, SameExecutions DEF LoadRecoverable
<1>6. CASE \E q \in Keys : Expire(q) \/ Release(q)
  BY <1>6, SameExecutions DEF Expire, Release
<1>7. CASE SweepRead
  BY <1>7, SameExecutions DEF SweepRead
<1>8. CASE SweepWrite
  <2>1. {q \in candidates : Expired(q)} \in SUBSET Keys
    BY DEF ThreadInv, ThreadTypes
  <2> QED
    BY <1>8, <2>1, FreezeMovesCallback DEF SweepWrite
<1> QED
  BY <1>1, <1>2, <1>3, <1>4, <1>5, <1>6, <1>7, <1>8 DEF Next

\* A callback that was delivered or skipped is never sent or recorded again.
THEOREM DeliveriesAreFinal ==
    ASSUME ControlAssumption
    PROVE  Spec => DeliveredIsFinal
<1>1. IInv /\ [Next]_vars =>
        \A e \in Execs : execution[e].callback \in {"success", "skipped"} =>
          execution'[e].callback = execution[e].callback
  <2> SUFFICES ASSUME IInv, [Next]_vars, NEW e \in Execs,
                      execution[e].callback \in {"success", "skipped"}
               PROVE  CallbackKept(e)
    BY DEF CallbackKept
  <2>1. CallbackMove(e)
    BY CallbackMoves
  <2>2. ~\E s \in Senders : Acquire(s) /\ sender[s].exec = e
    BY DEF Acquire, Granted, Open
  <2> QED
    BY <2>1, <2>2 DEF CallbackMove
<1> QED
  BY <1>1, Invariant, PTL DEF Spec, DeliveredIsFinal

-----------------------------------------------------------------------------
(* No automatic retry.                                                     *)

\* An authorization is of an execution that has been sent, under a version
\* that its Guard has reached.
Recorded(a) == /\ a.exec <= lastSeq
               /\ a.key = execution[a.exec].key
               /\ a.version <= guard[a.key].version
               /\ execution[a.exec].callback # "pending"

RetryInv == NoAutomaticRetry /\ \A a \in Authorized : Recorded(a)

NewEvent(s) ==
    [key |-> SenderKey(s), exec |-> sender[s].exec,
     version |-> guard[SenderKey(s)].version + 1,
     attempt |-> task[SenderKey(s)].attempts + 1, trigger |-> Trigger(s),
     snapshot |-> sender[s].attempts, type |-> "authorized", outcome |-> ""]

LEMMA AuthorizedMoves ==
    ASSUME ControlAssumption, IInv, [Next]_vars
    PROVE  \/ Authorized' = Authorized
           \/ \E s \in Senders : Acquire(s) /\ Authorized' = Authorized \cup {NewEvent(s)}
<1>1. ASSUME NEW ks, FreezeAll(ks)
      PROVE  Authorized' = Authorized
  BY <1>1 DEF FreezeAll, FollowUps, Closing, Authorized
<1>2. ASSUME events' = events
      PROVE  Authorized' = Authorized
  BY <1>2 DEF Authorized
<1>3. CASE UNCHANGED vars
  BY <1>2, <1>3 DEF vars
<1>4. CASE Admission
  BY <1>1, <1>2, <1>4 DEF Admission, SubmitTask, SubmitBatch, Admit, SubmitFreezes
<1>5. CASE \E e \in Execs : RunExecution(e) \/ FailPoisoned(e)
  BY <1>2, <1>5 DEF RunExecution, Claim, Finish, CheckLatest, FailPoisoned
<1>6. ASSUME NEW s \in Senders, Deliver(s) \/ Die(s)
      PROVE  \/ Authorized' = Authorized
             \/ Acquire(s) /\ Authorized' = Authorized \cup {NewEvent(s)}
  <2>1. CASE Acquire(s)
    <3>1. events' = events \cup {NewEvent(s)}
      BY <2>1 DEF Acquire, NewEvent
    <3>2. NewEvent(s).type = "authorized"
      BY DEF NewEvent
    <3> QED
      BY <2>1, <3>1, <3>2 DEF Authorized
  <2>2. ASSUME AcquireFreezes(s)
        PROVE  Authorized' = Authorized
    BY <1>1, <2>2, AcquireFreezesExpired DEF IInv
  <2>3. ASSUME AcquireRefused(s) \/ Validate(s) \/ (\E o \in Outcomes : Post(s, o)) \/ Die(s)
        PROVE  Authorized' = Authorized
    BY <1>2, <2>3 DEF AcquireRefused, Validate, Post, Die
  <2>4. ASSUME ValidateFails(s)
        PROVE  Authorized' = Authorized
    BY <1>1, <1>2, <2>4 DEF ValidateFails
  <2>5. ASSUME Complete(s)
        PROVE  Authorized' = Authorized
    BY <1>2, <2>5 DEF Complete, FollowUps, Closing, Authorized
  <2>6. \/ Acquire(s) \/ AcquireFreezes(s)
        \/ AcquireRefused(s) \/ Validate(s) \/ (\E o \in Outcomes : Post(s, o)) \/ Die(s)
        \/ ValidateFails(s) \/ Complete(s)
    BY <1>6 DEF Deliver
  <2> QED
    BY <2>1, <2>2, <2>3, <2>4, <2>5, <2>6
<1>7. CASE \E r \in Recoverers : \E k \in Keys : LoadRecoverable(r, k)
  BY <1>1, <1>2, <1>7 DEF LoadRecoverable
<1>8. CASE \E k \in Keys : Expire(k) \/ Release(k)
  BY <1>2, <1>8 DEF Expire, Release
<1>9. CASE SweepRead \/ SweepWrite
  BY <1>1, <1>2, <1>9 DEF SweepRead, SweepWrite
<1> QED
  BY <1>3, <1>4, <1>5, <1>6, <1>7, <1>8, <1>9 DEF Next

LEMMA AcquiredRecord ==
    ASSUME ControlAssumption, IInv, NEW s \in Senders, Acquire(s)
    PROVE  /\ sender[s].exec \in Execs /\ sender[s].exec <= lastSeq
           /\ SenderKey(s) \in Keys /\ SenderKey(s) = execution[sender[s].exec].key
           /\ guard'[SenderKey(s)].version = guard[SenderKey(s)].version + 1
           /\ execution'[sender[s].exec].callback = "sending"
           /\ execution'[sender[s].exec].key = SenderKey(s)
           /\ s \in Recoverers \/ execution[sender[s].exec].callback = "pending"
<1>1. /\ sender[s].exec \in Execs /\ SenderKey(s) \in Keys
      /\ SenderKey(s) = execution[sender[s].exec].key
  BY SenderRow DEF Acquire, Acquiring, IInv
<1>2. sender[s].exec <= lastSeq
  BY ThreadRow DEF Acquire, Acquiring, IInv
<1>3. guard'[SenderKey(s)].version = guard[SenderKey(s)].version + 1
  BY <1>1 DEF Acquire, IInv, RowInv, RowTypes
<1>4. execution' = [execution EXCEPT ![sender[s].exec].callback = "sending"]
  BY DEF Acquire
<1>5. /\ execution'[sender[s].exec].callback = "sending"
      /\ execution'[sender[s].exec].key = execution[sender[s].exec].key
  BY <1>1, <1>4 DEF IInv, RowInv, RowTypes
<1>6. s \in Recoverers \/ execution[sender[s].exec].callback = "pending"
  <2>1. Granted(s) /\ Open(s)
    BY DEF Acquire, Granted
  <2>2. s \notin Recoverers => execution[sender[s].exec].callback \in {"pending", "sending"}
    BY <2>1 DEF Open
  <2>3. s \notin Recoverers => execution[sender[s].exec].callback \in {"pending", "failed"}
    BY <2>1 DEF Granted, ExplicitUnknownRetry
  <2> QED
    BY <2>2, <2>3
<1> QED
  BY <1>1, <1>2, <1>3, <1>5, <1>6

\* Sequences and lease versions only grow, and an execution keeps its key.
Grows == /\ lastSeq' \in Nat /\ lastSeq' >= lastSeq
         /\ \A e \in Execs : e <= lastSeq => execution'[e].key = execution[e].key
         /\ \A k \in Keys : guard'[k].version >= guard[k].version

LEMMA GuardRows ==
    ASSUME IInv
    PROVE  /\ lastSeq \in Nat
           /\ \A k \in Keys : guard[k].version \in Nat
           /\ \A e \in Execs : e \in Nat
<1>1. lastSeq \in Nat /\ \A k \in Keys : guard[k].version \in Nat
  BY DEF IInv, RowInv, RowTypes, Ids, Execs, NoExec
<1> QED
  BY <1>1 DEF Execs

LEMMA SameGrows ==
    ASSUME IInv, UNCHANGED <<execution, guard, lastSeq>>
    PROVE  Grows
BY GuardRows DEF Grows

LEMMA FreezeGrows ==
    ASSUME IInv, NEW ks, FreezeAll(ks), lastSeq' = lastSeq
    PROVE  Grows
<1>1. \A e \in Execs : execution'[e].key = execution[e].key
  BY DEF FreezeAll, IInv, RowInv, RowTypes
<1>2. \A k \in Keys : guard'[k].version = guard[k].version
  BY DEF FreezeAll, GuardNow
<1> QED
  BY <1>1, <1>2, GuardRows DEF Grows

LEMMA DeliverGrows ==
    ASSUME ControlAssumption, IInv, NEW s \in Senders, Deliver(s) \/ Die(s)
    PROVE  Grows
<1>1. CASE Acquire(s)
  <2> DEFINE q == SenderKey(s)
             e == sender[s].exec
             g == [state |-> "sending", owner |-> e,
                   version |-> guard[q].version + 1, expired |-> FALSE]
  <2>1. /\ guard' = [guard EXCEPT ![q] = g]
        /\ execution' = [execution EXCEPT ![e].callback = "sending"]
        /\ lastSeq' = lastSeq
    BY <1>1 DEF Acquire
  <2>2. \A d \in Execs : execution'[d].key = execution[d].key
    BY <2>1 DEF IInv, RowInv, RowTypes
  <2>3. \A k \in Keys : guard'[k].version >= guard[k].version
    <3>1. \A k \in Keys : k # q => guard'[k] = guard[k]
      BY <2>1 DEF IInv, RowInv, RowTypes
    <3>2. q \in Keys => guard'[q].version = guard[q].version + 1
      BY <2>1 DEF IInv, RowInv, RowTypes
    <3> QED
      BY <3>1, <3>2, GuardRows
  <2> QED
    BY <2>1, <2>2, <2>3, GuardRows DEF Grows
<1>2. CASE AcquireFreezes(s)
  BY <1>2, AcquireFreezesExpired, FreezeGrows DEF IInv, AcquireFreezes
<1>3. CASE AcquireRefused(s) \/ Validate(s) \/ (\E o \in Outcomes : Post(s, o)) \/ Die(s)
  BY <1>3, SameGrows DEF AcquireRefused, Validate, Post, Die
<1>4. CASE ValidateFails(s)
  BY <1>4, SameGrows, FreezeGrows DEF ValidateFails
<1>5. CASE Complete(s)
  <2>1. CASE HoldsLease(s) /\ IsLatest(sender[s].exec)
    <3> DEFINE c == StatusOf(sender[s].reply)
               q == SenderKey(s)
    <3>1. /\ guard' = [guard EXCEPT ![q] =
                         GuardNow(q, IF c = "outcome_unknown" THEN c ELSE "idle")]
          /\ execution' = [execution EXCEPT ![sender[s].exec].callback = c]
          /\ lastSeq' = lastSeq
      BY <1>5, <2>1 DEF Complete, SetCallback
    <3>2. \A d \in Execs : execution'[d].key = execution[d].key
      BY <3>1 DEF IInv, RowInv, RowTypes
    <3>3. \A k \in Keys : guard'[k].version = guard[k].version
      BY <3>1 DEF GuardNow, IInv, RowInv, RowTypes
    <3> QED
      BY <3>1, <3>2, <3>3, GuardRows DEF Grows
  <2>2. CASE ~(HoldsLease(s) /\ IsLatest(sender[s].exec))
    BY <1>5, <2>2, SameGrows DEF Complete
  <2> QED
    BY <2>1, <2>2
<1> QED
  BY <1>1, <1>2, <1>3, <1>4, <1>5 DEF Deliver

LEMMA NextGrows ==
    ASSUME ControlAssumption, IInv, [Next]_vars
    PROVE  Grows
<1>1. CASE UNCHANGED vars
  BY <1>1, SameGrows DEF vars
<1>2. CASE Admission
  <2>1. ASSUME NEW n \in Nat, NEW ks, Admit(n, ks)
        PROVE  Grows
    <3>1. /\ lastSeq' = lastSeq + n /\ guard' = guard
          /\ \A e \in Execs : e <= lastSeq => execution'[e] = execution[e]
      BY <2>1, GuardRows DEF Admit
    <3> QED
      BY <3>1, GuardRows DEF Grows
  <2>2. CASE \E k \in Keys : SubmitTask(k)
    BY <2>1, <2>2 DEF SubmitTask
  <2>3. CASE \E k \in Keys : SubmitFreezes(k)
    BY <2>3, FreezeGrows DEF SubmitFreezes
  <2>4. CASE \E n \in 1 .. MaxBatch : \E ks \in Batches(n) : SubmitBatch(n, ks)
    BY <2>1, <2>4 DEF SubmitBatch, ControlAssumption
  <2> QED
    BY <1>2, <2>2, <2>3, <2>4 DEF Admission
<1>3. ASSUME NEW e \in Execs, RunExecution(e) \/ FailPoisoned(e)
      PROVE  Grows
  <2>1. execution' = execution
        \/ \E st \in ExecutionStates : execution' = [execution EXCEPT ![e].state = st]
    BY <1>3 DEF RunExecution, Claim, Finish, CheckLatest, FailPoisoned, ExecutionStates,
                Finished
  <2>2. guard' = guard /\ lastSeq' = lastSeq
    BY <1>3 DEF RunExecution, Claim, Finish, CheckLatest, FailPoisoned
  <2>3. \A d \in Execs : execution'[d].key = execution[d].key
    BY <2>1 DEF IInv, RowInv, RowTypes
  <2> QED
    BY <2>2, <2>3, GuardRows DEF Grows
<1>4. CASE \E s \in Senders : Deliver(s) \/ Die(s)
  BY <1>4, DeliverGrows
<1>5. CASE \E r \in Recoverers : \E k \in Keys : LoadRecoverable(r, k)
  BY <1>5, SameGrows, FreezeGrows
     DEF LoadRecoverable
<1>6. ASSUME NEW k \in Keys, Expire(k) \/ Release(k)
      PROVE  Grows
  <2>1. UNCHANGED <<execution, lastSeq>>
    BY <1>6 DEF Expire, Release
  <2>2. CASE guard' = [guard EXCEPT ![k].expired = TRUE]
    BY <2>1, <2>2, GuardRows DEF Grows, IInv, RowInv, RowTypes
  <2>3. CASE guard' = [guard EXCEPT ![k].state = "idle"]
    BY <2>1, <2>3, GuardRows DEF Grows, IInv, RowInv, RowTypes
  <2> QED
    BY <1>6, <2>2, <2>3 DEF Expire, Release
<1>7. CASE SweepRead \/ SweepWrite
  BY <1>7, SameGrows, FreezeGrows DEF SweepRead, SweepWrite
<1> QED
  BY <1>1, <1>2, <1>3, <1>4, <1>5, <1>6, <1>7 DEF Next

\* What a step leaves as it was, for an execution that was ever sent.
LEMMA RecordedStays ==
    ASSUME ControlAssumption, IInv, [Next]_vars, NEW a \in Authorized, Recorded(a)
    PROVE  Recorded(a)'
<1>0. a \in Event /\ lastSeq \in Nat
  <2>1. a \in Event
    BY DEF IInv, RowInv, RowTypes, Authorized
  <2> QED
    BY <2>1, GuardRows
<1>1. a.exec \in Execs /\ a.key \in Keys /\ a.version \in Nat /\ a.exec \in Nat
  BY <1>0, GuardRows DEF Event
<1>2. /\ lastSeq' \in Nat /\ lastSeq' >= lastSeq
      /\ \A e \in Execs : e <= lastSeq => execution'[e].key = execution[e].key
      /\ \A k \in Keys : guard'[k].version >= guard[k].version
  BY NextGrows DEF Grows
<1>3. execution'[a.exec].callback # "pending"
  BY <1>1, CallbackMoves DEF Recorded, CallbackMove, CallbackKept
<1>4. guard[a.key].version \in Nat /\ guard'[a.key].version \in Nat
  BY <1>1, NextKeepsRows DEF IInv, RowInv, RowTypes
<1> QED
  BY <1>0, <1>1, <1>2, <1>3, <1>4 DEF Recorded

LEMMA RetryStep ==
    ASSUME ControlAssumption, IInv, RetryInv, [Next]_vars
    PROVE  RetryInv'
<1>1. \A a \in Authorized : Recorded(a) /\ Recorded(a)'
  BY RecordedStays DEF RetryInv
<1>2. CASE Authorized' = Authorized
  BY <1>1, <1>2 DEF RetryInv, NoAutomaticRetry
<1>3. ASSUME NEW s \in Senders, Acquire(s), Authorized' = Authorized \cup {NewEvent(s)}
      PROVE  RetryInv'
  <2>0. PICK n : n = NewEvent(s)
    OBVIOUS
  <2>1. /\ n.exec = sender[s].exec /\ n.key = SenderKey(s)
        /\ n.version = guard[SenderKey(s)].version + 1 /\ n.trigger = Trigger(s)
    BY <2>0 DEF NewEvent
  <2>2. /\ n.exec \in Execs /\ n.exec <= lastSeq /\ n.key \in Keys
        /\ n.key = execution[n.exec].key /\ n.key = execution'[n.exec].key
        /\ guard'[n.key].version = n.version /\ n.version \in Nat
        /\ execution'[n.exec].callback = "sending"
        /\ s \in Recoverers \/ execution[n.exec].callback = "pending"
    BY <1>3, <2>1, AcquiredRecord, GuardRows
  <2>3. Recorded(n)'
    <3>1. lastSeq' = lastSeq
      BY <1>3 DEF Acquire
    <3> QED
      BY <2>2, <3>1 DEF Recorded
  <2>4. \A a \in Authorized : a.exec = n.exec => a.version < n.version /\ s \in Recoverers
    <3> SUFFICES ASSUME NEW a \in Authorized, a.exec = n.exec
                 PROVE  a.version < n.version /\ s \in Recoverers
      OBVIOUS
    <3>1. a.version <= guard[n.key].version /\ execution[n.exec].callback # "pending"
      BY <1>1, <2>2 DEF Recorded
    <3>2. a.version \in Nat
      BY DEF Authorized, IInv, RowInv, RowTypes, Event
    <3> QED
      BY <2>1, <2>2, <3>1, <3>2, GuardRows
  <2>5. s \in Recoverers => n.trigger = "explicit_check_task_recovery"
    BY <2>1 DEF Trigger
  <2>6. ASSUME NEW a \in Authorized \cup {n}, NEW b \in Authorized \cup {n},
               a.exec = b.exec, a.version < b.version
        PROVE  b.trigger = "explicit_check_task_recovery"
    <3>1. CASE a \in Authorized /\ b \in Authorized
      BY <2>6, <3>1 DEF RetryInv, NoAutomaticRetry
    <3>2. CASE a \in Authorized /\ b = n
      BY <2>4, <2>5, <2>6, <3>2
    <3>3. CASE a = n
      <4>1. ~(b.version < n.version)
        <5>1. b.version \in Nat
          BY <2>2 DEF Authorized, IInv, RowInv, RowTypes, Event
        <5> QED
          BY <2>2, <2>6, <3>3, <5>1
      <4>2. b # n
        BY <2>2, <2>6, <3>3
      <4> QED
        BY <2>4, <2>6, <3>3, <4>1, <4>2
    <3> QED
      BY <3>1, <3>2, <3>3
  <2>7. Authorized' = Authorized \cup {n}
    BY <1>3, <2>0
  <2>8. NoAutomaticRetry'
    BY <2>6, <2>7 DEF NoAutomaticRetry
  <2>9. \A a \in Authorized' : Recorded(a)'
    BY <1>1, <2>3, <2>7
  <2> QED
    BY <2>8, <2>9 DEF RetryInv
<1> QED
  BY <1>2, <1>3, AuthorizedMoves

\* The server sends an execution's result by itself once: whatever is sent
\* after that, for whatever reason, an explicit check-task asked for.
THEOREM NoRetryByItself ==
    ASSUME ControlAssumption
    PROVE  Spec => []NoAutomaticRetry
<1>1. Init => RetryInv
  BY DEF Init, RetryInv, NoAutomaticRetry, Authorized
<1>2. IInv /\ RetryInv /\ [Next]_vars => RetryInv'
  BY RetryStep
<1>3. RetryInv => NoAutomaticRetry
  BY DEF RetryInv
<1> QED
  BY <1>1, <1>2, <1>3, Invariant, PTL DEF Spec

-----------------------------------------------------------------------------
(* No request waits.                                                       *)

\* What a step may do to the attempts and the callback of a key.
AttemptMove(k) ==
    \/ task'[k].owner > lastSeq
    \/ /\ task'[k].owner = task[k].owner
       /\ task'[k].attempts = task[k].attempts
       /\ task'[k].callback = "sending" => task[k].callback = "sending"
    \/ /\ task'[k].owner = task[k].owner
       /\ task'[k].attempts = task[k].attempts + 1

\* A request that is about to acquire has read an attempt that is either past
\* or not yet in delivery.
Snapshot(r) ==
    LET k == SenderKey(r) IN
    (sender[r].pc = "ready" /\ task[k].owner = sender[r].exec) =>
        /\ sender[r].attempts <= task[k].attempts
        /\ sender[r].attempts = task[k].attempts => task[k].callback # "sending"

Snapshots == \A r \in Recoverers : Snapshot(r)

LEMMA SameAttempt ==
    ASSUME task' = task, NEW k \in Keys
    PROVE  AttemptMove(k)
BY DEF AttemptMove

LEMMA FreezeAttempt ==
    ASSUME RowInv, NEW ks, FreezeAll(ks), NEW k \in Keys
    PROVE  AttemptMove(k)
<1>1. task'[k] = task[k] \/ task'[k] = [task[k] EXCEPT !.callback = "outcome_unknown"]
  BY DEF FreezeAll
<1> QED
  BY <1>1 DEF AttemptMove, RowInv, RowTypes

LEMMA AdmitAttempt ==
    ASSUME IInv, NEW n \in Nat, NEW ks, Admit(n, ks), NEW k \in Keys
    PROVE  AttemptMove(k)
<1> DEFINE new == lastSeq + (CHOOSE i \in 1 .. n : ks[i] = k)
<1>1. CASE k \in {ks[i] : i \in 1 .. n}
  <2>1. (CHOOSE i \in 1 .. n : ks[i] = k) \in 1 .. n
    BY <1>1
  <2>2. task'[k].owner = new
    BY <1>1 DEF Admit
  <2>3. new > lastSeq
    BY <2>1, GuardRows
  <2> QED
    BY <2>2, <2>3 DEF AttemptMove
<1>2. CASE k \notin {ks[i] : i \in 1 .. n}
  BY <1>2 DEF Admit, AttemptMove
<1> QED
  BY <1>1, <1>2

LEMMA DeliverAttempt ==
    ASSUME ControlAssumption, IInv, NEW s \in Senders, Deliver(s) \/ Die(s), NEW k \in Keys
    PROVE  AttemptMove(k)
<1> USE DEF IInv
<1>1. CASE Acquire(s)
  <2> DEFINE q == SenderKey(s)
  <2>1. task' = [task EXCEPT ![q].callback = "sending", ![q].attempts = @ + 1]
    BY <1>1 DEF Acquire
  <2>2. CASE k = q
    BY <2>1, <2>2 DEF AttemptMove, RowInv, RowTypes
  <2>3. CASE k # q
    BY <2>1, <2>3 DEF AttemptMove, RowInv, RowTypes
  <2> QED
    BY <2>2, <2>3
<1>2. CASE AcquireFreezes(s)
  BY <1>2, AcquireFreezesExpired, FreezeAttempt
<1>3. CASE AcquireRefused(s) \/ Validate(s) \/ (\E o \in Outcomes : Post(s, o)) \/ Die(s)
  BY <1>3, SameAttempt DEF AcquireRefused, Validate, Post, Die
<1>4. CASE ValidateFails(s)
  BY <1>4, FreezeAttempt, SameAttempt DEF ValidateFails
<1>5. CASE Complete(s)
  <2>1. CASE HoldsLease(s) /\ IsLatest(sender[s].exec)
    <3>1. task' = [task EXCEPT ![SenderKey(s)].callback = StatusOf(sender[s].reply)]
      BY <1>5, <2>1 DEF Complete, SetCallback, SenderKey
    <3>2. StatusOf(sender[s].reply) # "sending"
      BY DEF StatusOf
    <3> QED
      BY <3>1, <3>2 DEF AttemptMove, RowInv, RowTypes
  <2>2. CASE ~(HoldsLease(s) /\ IsLatest(sender[s].exec))
    BY <1>5, <2>2, SameAttempt DEF Complete
  <2> QED
    BY <2>1, <2>2
<1> QED
  BY <1>1, <1>2, <1>3, <1>4, <1>5 DEF Deliver

LEMMA Attempts ==
    ASSUME ControlAssumption, IInv, [Next]_vars, NEW k \in Keys
    PROVE  AttemptMove(k)
<1> USE DEF IInv
<1>1. CASE UNCHANGED vars
  BY <1>1, SameAttempt DEF vars
<1>2. CASE Admission
  <2>1. CASE \E q \in Keys : SubmitTask(q)
    BY <2>1, AdmitAttempt DEF SubmitTask
  <2>2. CASE \E q \in Keys : SubmitFreezes(q)
    BY <2>2, FreezeAttempt DEF SubmitFreezes
  <2>3. CASE \E n \in 1 .. MaxBatch : \E ks \in Batches(n) : SubmitBatch(n, ks)
    BY <2>3, AdmitAttempt DEF SubmitBatch, ControlAssumption
  <2> QED
    BY <1>2, <2>1, <2>2, <2>3 DEF Admission
<1>3. ASSUME NEW e \in Execs, RunExecution(e) \/ FailPoisoned(e)
      PROVE  AttemptMove(k)
  <2>1. task' = task \/ task' = [task EXCEPT ![KeyOf(e)].status = "terminal"]
    BY <1>3 DEF RunExecution, Claim, Finish, CheckLatest, FailPoisoned
  <2>2. /\ task'[k].owner = task[k].owner /\ task'[k].attempts = task[k].attempts
        /\ task'[k].callback = task[k].callback
    BY <2>1 DEF RowInv, RowTypes
  <2> QED
    BY <2>2 DEF AttemptMove
<1>4. CASE \E s \in Senders : Deliver(s) \/ Die(s)
  BY <1>4, DeliverAttempt
<1>5. CASE \E r \in Recoverers : \E q \in Keys : LoadRecoverable(r, q)
  BY <1>5, SameAttempt DEF LoadRecoverable
<1>6. CASE (\E q \in Keys : Expire(q) \/ Release(q)) \/ SweepRead
  BY <1>6, SameAttempt DEF Expire, Release, SweepRead
<1>7. CASE SweepWrite
  BY <1>7, FreezeAttempt DEF SweepWrite
<1> QED
  BY <1>1, <1>2, <1>3, <1>4, <1>5, <1>6, <1>7 DEF Next

\* A request gets ready to acquire by reading the projection, in no other way.
LEMMA GetsReady ==
    ASSUME ControlAssumption, IInv, [Next]_vars, NEW r \in Recoverers,
           sender'[r].pc = "ready"
    PROVE  sender'[r] = sender[r] \/ \E k \in Keys : LoadRecoverable(r, k)
<1>0. r \in Senders /\ r \notin Execs
  BY DEF Senders, ControlAssumption, Execs
<1>1. sender \in [Senders -> Thread]
  BY DEF IInv, ThreadInv, ThreadTypes, Thread, Points
<1>2. CASE UNCHANGED sender
  BY <1>2
<1>3. CASE Admission
  BY <1>2, <1>3 DEF Admission, SubmitTask, SubmitBatch, SubmitFreezes, Admit
<1>4. ASSUME NEW e \in Execs, RunExecution(e) \/ FailPoisoned(e)
      PROVE  sender'[r] = sender[r]
  <2>1. e # r
    BY <1>0
  <2>2. \A q \in Senders \ {e} : sender'[q] = sender[q]
    BY <1>1, <1>4 DEF RunExecution, FailPoisoned, Claim, Finish, CheckLatest, Leave
  <2> QED
    BY <1>0, <2>1, <2>2
<1>5. ASSUME NEW s \in Senders, Deliver(s) \/ Die(s)
      PROVE  sender'[r] = sender[r]
  <2>1. CASE s # r
    BY <1>0, <1>1, <1>5, <2>1
       DEF Deliver, Die, Acquire, AcquireFreezes, AcquireRefused, Validate, ValidateFails,
           Post, Complete, Leave
  <2>2. CASE s = r
    <3>1. CASE Leave(r)
      BY <1>0, <1>1, <3>1 DEF Leave, Idle
    <3>2. CASE Acquire(r) \/ Validate(r) \/ (\E o \in Outcomes : Post(r, o))
      <4>1. CASE Acquire(r)
        BY <1>0, <1>1, <4>1 DEF Acquire, Thread
      <4>2. CASE Validate(r)
        BY <1>0, <1>1, <4>2 DEF Validate, Thread
      <4>3. ASSUME NEW o \in Outcomes, Post(r, o)
            PROVE  sender'[r].pc # "ready"
        BY <1>0, <1>1, <4>3 DEF Post, Thread
      <4> QED
        BY <3>2, <4>1, <4>2, <4>3
    <3>3. CASE Die(r)
      BY <1>0, <1>1, <3>3 DEF Die, Idle
    <3> QED
      BY <1>5, <2>2, <3>1, <3>2, <3>3
         DEF Deliver, AcquireFreezes, AcquireRefused, ValidateFails, Complete
  <2> QED
    BY <2>1, <2>2
<1>6. ASSUME NEW q \in Recoverers, NEW k \in Keys, LoadRecoverable(q, k)
      PROVE  sender'[r] = sender[r] \/ LoadRecoverable(r, k)
  BY <1>0, <1>1, <1>6 DEF LoadRecoverable, Senders
<1>7. CASE (\E k \in Keys : Expire(k) \/ Release(k)) \/ SweepRead \/ SweepWrite
  BY <1>2, <1>7 DEF Expire, Release, SweepRead, SweepWrite
<1> QED
  BY <1>2, <1>3, <1>4, <1>5, <1>6, <1>7 DEF Next, vars

LEMMA SnapshotsStay ==
    ASSUME ControlAssumption, IInv, IInv', Snapshots, [Next]_vars
    PROVE  Snapshots'
<1> SUFFICES ASSUME NEW r \in Recoverers, sender'[r].pc = "ready",
                    task'[SenderKey(r)'].owner = sender'[r].exec
             PROVE  LET k == SenderKey(r)' IN
                    /\ sender'[r].attempts <= task'[k].attempts
                    /\ sender'[r].attempts = task'[k].attempts => task'[k].callback # "sending"
  BY DEF Snapshots, Snapshot
<1>0. r \in Senders
  BY DEF Senders
<1>1. /\ \A k \in Keys : task[k].attempts \in Nat /\ task[k].owner \in Nat
      /\ \A k \in Keys : task'[k].attempts \in Nat
  BY DEF IInv, RowInv, RowTypes, Ids, Execs, NoExec
<1>2. CASE sender'[r] = sender[r]
  <2> DEFINE e == sender[r].exec
             k == execution[e].key
  <2>1. e \in Execs /\ e <= lastSeq /\ sender[r].attempts \in Nat
    BY <1>0, <1>2, ThreadRow DEF IInv, Thread
  <2>2. k \in Keys /\ execution'[e].key = k
    BY <2>1, NextGrows DEF Grows, IInv, RowInv, RowTypes
  <2>3. SenderKey(r) = k /\ SenderKey(r)' = k
    BY <1>2, <2>2 DEF SenderKey, KeyOf
  <2>4. task'[k].owner = e
    BY <1>2, <2>3
  <2>5. AttemptMove(k)
    BY <2>2, Attempts
  <2>6. ~(task'[k].owner > lastSeq)
    BY <2>1, <2>4, GuardRows DEF Execs
  <2>7. task[k].owner = e
    BY <2>4, <2>5, <2>6 DEF AttemptMove
  <2>8. /\ sender[r].attempts <= task[k].attempts
        /\ sender[r].attempts = task[k].attempts => task[k].callback # "sending"
    BY <1>2, <2>3, <2>7 DEF Snapshots, Snapshot
  <2>9. /\ sender'[r].attempts <= task'[k].attempts
        /\ sender'[r].attempts = task'[k].attempts => task'[k].callback # "sending"
    BY <1>1, <1>2, <2>1, <2>2, <2>5, <2>6, <2>8 DEF AttemptMove
  <2> QED
    BY <2>3, <2>9
<1>3. ASSUME NEW k \in Keys, LoadRecoverable(r, k)
      PROVE  LET q == SenderKey(r)' IN
             /\ sender'[r].attempts <= task'[q].attempts
             /\ sender'[r].attempts = task'[q].attempts => task'[q].callback # "sending"
  <2> DEFINE e == task[k].owner
  <2>1. /\ sender'[r].exec = e /\ sender'[r].attempts = task[k].attempts
        /\ task' = task /\ execution' = execution
        /\ task[k].status = "terminal" /\ task[k].callback # "sending"
    BY <1>0, <1>3, ThreadRow DEF LoadRecoverable, IInv, ThreadInv, ThreadTypes
  <2>2. e \in Execs
    BY <2>1 DEF IInv, RowInv, RowTypes, RowShape, Ids
  <2>3. execution[e].key = k
    BY <2>2, OwnerRow DEF IInv
  <2>4. SenderKey(r)' = k
    BY <2>1, <2>3 DEF SenderKey, KeyOf
  <2> QED
    BY <1>1, <2>1, <2>4
<1> QED
  BY <1>2, <1>3, GetsReady

\* A check-task request never finds the Guard in use: who took it since the
\* request read the projection has made that reading stale.  The wait for the
\* holder in RecoverAnalysisCallback is never entered.
THEOREM RequestsNeverWait ==
    ASSUME ControlAssumption
    PROVE  Spec => []NobodyWaits
<1>1. Init => Snapshots
  <2> SUFFICES ASSUME Init, NEW r \in Recoverers
               PROVE  sender[r].pc # "ready"
    BY DEF Snapshots, Snapshot
  <2>1. sender[r] = Idle
    BY DEF Init, Senders
  <2> QED
    BY <2>1, IdleThread
<1>2. IInv /\ IInv' /\ Snapshots /\ [Next]_vars => Snapshots'
  BY SnapshotsStay
<1>3. IInv /\ Snapshots => NobodyWaits
  <2> SUFFICES ASSUME IInv, Snapshots, NEW r \in Recoverers, Acquiring(r), Busy(r)
               PROVE  FALSE
    BY DEF NobodyWaits
  <2>1. r \in Senders
    BY DEF Senders
  <2>2. SenderKey(r) \in Keys
    BY <2>1, SenderRow DEF Acquiring, IInv
  <2>3. /\ task[SenderKey(r)].owner = sender[r].exec
        /\ task[SenderKey(r)].attempts = sender[r].attempts
    BY DEF Busy, Current, IsLatest, SenderKey
  <2>4. task[SenderKey(r)].callback = "sending"
    BY <2>2 DEF Busy, IInv, RowInv, GuardAgrees
  <2> QED
    BY <2>3, <2>4 DEF Snapshots, Snapshot, Acquiring
<1> QED
  BY <1>1, <1>2, <1>3, Invariant, PTL DEF Spec

-----------------------------------------------------------------------------
(* The audit of the deliveries, and the fencing version of a lease.        *)

\* What a step may do to the Guards and to the audit.
StepKind ==
    \/ UNCHANGED <<guard, events>>
    \/ \E ks \in SUBSET Keys : (\A k \in ks : Expired(k)) /\ FreezeAll(ks)
    \/ \E s \in Senders : Acquire(s)
    \/ \E s \in Senders : Complete(s) /\ HoldsLease(s) /\ IsLatest(sender[s].exec)
    \/ \E k \in Keys : Expire(k) \/ Release(k)

LEMMA FreezeKind ==
    ASSUME NEW k \in Keys, Expired(k), FreezeAll({k})
    PROVE  StepKind
<1>1. {k} \in SUBSET Keys /\ \A q \in {k} : Expired(q)
  OBVIOUS
<1> QED
  BY <1>1 DEF StepKind

LEMMA DeliverKind ==
    ASSUME IInv, NEW s \in Senders, Deliver(s) \/ Die(s)
    PROVE  StepKind
<1>1. CASE Acquire(s)
  BY <1>1 DEF StepKind
<1>2. CASE AcquireFreezes(s)
  BY <1>2, AcquireFreezesExpired, FreezeKind DEF IInv
<1>3. CASE AcquireRefused(s) \/ Validate(s) \/ (\E o \in Outcomes : Post(s, o)) \/ Die(s)
  BY <1>3 DEF StepKind, AcquireRefused, Validate, Post, Die
<1>4. CASE ValidateFails(s)
  <2>1. SenderKey(s) \in Keys
    BY <1>4, SenderRow DEF ValidateFails, IInv
  <2>2. CASE Valid(s)
    BY <1>4, <2>1, <2>2, FreezeKind DEF ValidateFails
  <2>3. CASE ~Valid(s)
    BY <1>4, <2>3 DEF ValidateFails, StepKind
  <2> QED
    BY <2>2, <2>3
<1>5. CASE Complete(s)
  <2>1. CASE HoldsLease(s) /\ IsLatest(sender[s].exec)
    BY <1>5, <2>1 DEF StepKind
  <2>2. CASE ~(HoldsLease(s) /\ IsLatest(sender[s].exec))
    BY <1>5, <2>2 DEF Complete, StepKind
  <2> QED
    BY <2>1, <2>2
<1> QED
  BY <1>1, <1>2, <1>3, <1>4, <1>5 DEF Deliver

LEMMA Kinds ==
    ASSUME ControlAssumption, IInv, [Next]_vars
    PROVE  StepKind
<1>1. CASE UNCHANGED vars
  BY <1>1 DEF vars, StepKind
<1>2. CASE Admission
  <2>1. CASE \E k \in Keys : SubmitTask(k)
    BY <2>1 DEF SubmitTask, Admit, StepKind
  <2>2. ASSUME NEW k \in Keys, SubmitFreezes(k)
        PROVE  StepKind
    BY <2>2, FreezeKind DEF SubmitFreezes
  <2>3. CASE \E n \in 1 .. MaxBatch : \E ks \in Batches(n) : SubmitBatch(n, ks)
    BY <2>3 DEF SubmitBatch, Admit, StepKind
  <2> QED
    BY <1>2, <2>1, <2>2, <2>3 DEF Admission
<1>3. CASE \E e \in Execs : RunExecution(e) \/ FailPoisoned(e)
  BY <1>3 DEF RunExecution, Claim, Finish, CheckLatest, FailPoisoned, StepKind
<1>4. CASE \E s \in Senders : Deliver(s) \/ Die(s)
  BY <1>4, DeliverKind
<1>5. CASE \E r \in Recoverers : \E k \in Keys : LoadRecoverable(r, k)
  BY <1>5 DEF LoadRecoverable, StepKind
<1>6. CASE \E k \in Keys : Expire(k) \/ Release(k)
  BY <1>6 DEF StepKind
<1>7. CASE SweepRead
  BY <1>7 DEF SweepRead, StepKind
<1>8. CASE SweepWrite
  <2>1. {k \in candidates : Expired(k)} \in SUBSET Keys
    BY DEF IInv, ThreadInv, ThreadTypes
  <2> QED
    BY <1>8, <2>1 DEF SweepWrite, StepKind
<1> QED
  BY <1>1, <1>2, <1>3, <1>4, <1>5, <1>6, <1>7, <1>8 DEF Next

-----------------------------------------------------------------------------
(* The effect of each kind of step, row by row.                            *)

LEMMA FreezeEffect ==
    ASSUME IInv, NEW ks \in SUBSET Keys, FreezeAll(ks)
    PROVE  \A k \in Keys :
             /\ guard'[k].version = guard[k].version
             /\ guard'[k].owner = guard[k].owner
             /\ guard'[k].state = IF k \in ks THEN "outcome_unknown" ELSE guard[k].state
BY DEF FreezeAll, GuardNow

LEMMA AcquireEffect ==
    ASSUME ControlAssumption, IInv, NEW s \in Senders, Acquire(s)
    PROVE  LET k == SenderKey(s) IN
           /\ k \in Keys /\ sender[s].exec \in Execs
           /\ guard[k].state # "sending"
           /\ s \notin Recoverers => guard[k].state = "idle"
           /\ guard'[k].state = "sending" /\ guard'[k].owner = sender[s].exec
           /\ guard'[k].version = guard[k].version + 1
           /\ \A q \in Keys \ {k} : guard'[q] = guard[q]
           /\ events' = events \cup {NewEvent(s)}
           /\ task[k].owner = sender[s].exec
           /\ s \in Recoverers => task[k].attempts = sender[s].attempts
           /\ task'[k].owner = task[k].owner /\ task'[k].attempts = task[k].attempts + 1
           /\ \A q \in Keys \ {k} : task'[q] = task[q]
<1> DEFINE k == SenderKey(s)
           g == [state |-> "sending", owner |-> sender[s].exec,
                 version |-> guard[k].version + 1, expired |-> FALSE]
<1>1. k \in Keys /\ sender[s].exec \in Execs
  BY SenderRow DEF Acquire, Acquiring, IInv
<1>2. Granted(s)
  BY DEF Acquire
<1>3. /\ guard[k].state # "sending"
      /\ s \notin Recoverers => guard[k].state = "idle"
  BY <1>2 DEF Granted, ExplicitUnknownRetry
<1>4. /\ task[k].owner = sender[s].exec
      /\ s \in Recoverers => task[k].attempts = sender[s].attempts
  BY <1>2 DEF Granted, Current, IsLatest, SenderKey
<1>5. /\ guard' = [guard EXCEPT ![k] = g]
      /\ task' = [task EXCEPT ![k].callback = "sending", ![k].attempts = @ + 1]
      /\ events' = events \cup {NewEvent(s)}
  BY DEF Acquire, NewEvent
<1>6. /\ guard \in [Keys -> GuardRecord]
      /\ task \in [Keys -> [owner : Ids, status : {"none", "active", "terminal"},
                            callback : CallbackStatuses, attempts : Nat]]
  BY DEF IInv, RowInv, RowTypes, GuardRecord
<1>7. /\ guard'[k] = g
      /\ \A q \in Keys \ {k} : guard'[q] = guard[q]
  BY <1>1, <1>5, <1>6
<1>8. /\ task'[k].owner = task[k].owner /\ task'[k].attempts = task[k].attempts + 1
      /\ \A q \in Keys \ {k} : task'[q] = task[q]
  BY <1>1, <1>5, <1>6
<1>9. /\ guard'[k].state = "sending" /\ guard'[k].owner = sender[s].exec
      /\ guard'[k].version = guard[k].version + 1
  BY <1>7
<1>10. \A q \in Keys \ {k} : guard'[q] = guard[q]
  BY <1>7
<1>11. events' = events \cup {NewEvent(s)}
  BY <1>5
<1> HIDE DEF g
<1> QED
  BY <1>1, <1>3, <1>4, <1>8, <1>9, <1>10, <1>11

LEMMA CompleteEffect ==
    ASSUME IInv, NEW s \in Senders, Complete(s), HoldsLease(s), IsLatest(sender[s].exec)
    PROVE  LET k == SenderKey(s) IN
           /\ k \in Keys
           /\ guard[k].state = "sending" /\ guard[k].version = sender[s].version
           /\ guard'[k].state # "sending"
           /\ guard'[k].owner = guard[k].owner /\ guard'[k].version = guard[k].version
           /\ \A q \in Keys \ {k} : guard'[q] = guard[q]
           /\ events' = events \cup FollowUps(k, "completed", sender[s].reply)
<1> DEFINE k == SenderKey(s)
           c == StatusOf(sender[s].reply)
           g == GuardNow(k, IF c = "outcome_unknown" THEN c ELSE "idle")
<1>1. k \in Keys
  BY SenderRow DEF Complete, IInv
<1>2. /\ guard' = [guard EXCEPT ![k] = g]
      /\ events' = events \cup FollowUps(k, "completed", sender[s].reply)
  BY DEF Complete
<1>3. g.state # "sending" /\ g.owner = guard[k].owner /\ g.version = guard[k].version
  BY DEF GuardNow
<1>4. guard'[k] = g /\ \A q \in Keys \ {k} : guard'[q] = guard[q]
  BY <1>1, <1>2 DEF IInv, RowInv, RowTypes
<1> QED
  BY <1>1, <1>2, <1>3, <1>4 DEF HoldsLease

LEMMA ReopenEffect ==
    ASSUME IInv, NEW k \in Keys, Expire(k) \/ Release(k)
    PROVE  /\ events' = events
           /\ \A q \in Keys : /\ guard'[q].version = guard[q].version
                              /\ guard'[q].owner = guard[q].owner
                              /\ guard'[q].state = "sending" <=> guard[q].state = "sending"
                              /\ guard'[q].state # guard[q].state => Release(k) /\ q = k
<1>1. CASE Expire(k)
  <2>1. guard' = [guard EXCEPT ![k].expired = TRUE] /\ events' = events
    BY <1>1 DEF Expire
  <2> QED
    BY <2>1 DEF IInv, RowInv, RowTypes
<1>2. CASE Release(k)
  <2>1. /\ guard' = [guard EXCEPT ![k].state = "idle"] /\ events' = events
        /\ guard[k].state = "outcome_unknown"
    BY <1>2 DEF Release
  <2> QED
    BY <1>2, <2>1 DEF IInv, RowInv, RowTypes
<1> QED
  BY <1>1, <1>2

-----------------------------------------------------------------------------
(* One delivery per snapshot.                                              *)

\* An attempt that a request has read and delivered is in the past of the
\* projection, for as long as the same execution holds the key.
Spent(a) ==
    (a.trigger = "explicit_check_task_recovery" /\ task[a.key].owner = a.exec) =>
        a.snapshot < task[a.key].attempts

SnapshotInv == OneDeliveryPerSnapshot /\ \A a \in Authorized : Spent(a)

LEMMA AuthorizedRow ==
    ASSUME IInv, NEW a \in Authorized
    PROVE  /\ a.key \in Keys /\ a.exec \in Execs /\ a.version \in Nat
           /\ a.snapshot \in Nat /\ a \in events /\ a.type = "authorized"
<1>1. a \in Event /\ a \in events /\ a.type = "authorized"
  BY DEF IInv, RowInv, RowTypes, Authorized
<1> QED
  BY <1>1 DEF Event

LEMMA SpentStays ==
    ASSUME ControlAssumption, IInv, IInv', [Next]_vars,
           NEW a \in Authorized, Recorded(a), Spent(a)
    PROVE  Spent(a)'
<1>1. a.key \in Keys /\ a.exec \in Nat /\ a.snapshot \in Nat
  BY AuthorizedRow, GuardRows
<1>2. a.exec <= lastSeq /\ lastSeq \in Nat
  BY GuardRows DEF Recorded
<1>3. AttemptMove(a.key)
  BY <1>1, Attempts
<1>4. task[a.key].attempts \in Nat /\ task'[a.key].attempts \in Nat
  BY <1>1 DEF IInv, RowInv, RowTypes
<1>5. CASE task'[a.key].owner > lastSeq
  <2>1. task'[a.key].owner # a.exec
    BY <1>1, <1>2, <1>5
  <2> QED
    BY <2>1 DEF Spent
<1>6. CASE task'[a.key].owner = task[a.key].owner
           /\ task'[a.key].attempts \in {task[a.key].attempts, task[a.key].attempts + 1}
  BY <1>1, <1>4, <1>6 DEF Spent
<1> QED
  BY <1>3, <1>5, <1>6 DEF AttemptMove

LEMMA SnapshotStep ==
    ASSUME ControlAssumption, IInv, IInv', RetryInv, SnapshotInv, [Next]_vars
    PROVE  SnapshotInv'
<1>1. \A a \in Authorized : Recorded(a) /\ Spent(a)'
  BY SpentStays DEF RetryInv, SnapshotInv
<1>2. CASE Authorized' = Authorized
  BY <1>1, <1>2 DEF SnapshotInv, OneDeliveryPerSnapshot
<1>3. ASSUME NEW s \in Senders, Acquire(s), Authorized' = Authorized \cup {NewEvent(s)}
      PROVE  SnapshotInv'
  <2>0. PICK n : n = NewEvent(s)
    OBVIOUS
  <2> DEFINE k == SenderKey(s)
  <2>1. /\ n.exec = sender[s].exec /\ n.key = k /\ n.trigger = Trigger(s)
        /\ n.snapshot = sender[s].attempts
    BY <2>0 DEF NewEvent
  <2>2. /\ k \in Keys /\ k = execution[sender[s].exec].key
        /\ task[k].owner = sender[s].exec
        /\ s \in Recoverers => task[k].attempts = sender[s].attempts
        /\ task'[k].attempts = task[k].attempts + 1
    BY <1>3, AcquireEffect, AcquiredRecord
  <2>3. task[k].attempts \in Nat
    BY <2>2 DEF IInv, RowInv, RowTypes
  <2>4. n.trigger = "explicit_check_task_recovery" => n.snapshot = task[k].attempts
    BY <2>1, <2>2 DEF Trigger
  <2>5. Spent(n)'
    BY <2>1, <2>2, <2>3, <2>4 DEF Spent
  <2>6. ASSUME NEW a \in Authorized, a.exec = n.exec, a.snapshot = n.snapshot,
               a.trigger = "explicit_check_task_recovery",
               n.trigger = "explicit_check_task_recovery"
        PROVE  FALSE
    <3>1. a.key = k
      BY <1>1, <2>1, <2>2, <2>6 DEF Recorded
    <3>2. Spent(a)
      BY DEF SnapshotInv
    <3>3. a.snapshot < task[k].attempts
      BY <2>1, <2>2, <2>6, <3>1, <3>2 DEF Spent
    <3> QED
      BY <2>3, <2>4, <2>6, <3>3
  <2>7. ASSUME NEW a \in Authorized \cup {n}, NEW b \in Authorized \cup {n},
               a.exec = b.exec, a.snapshot = b.snapshot,
               a.trigger = "explicit_check_task_recovery", b.trigger = a.trigger
        PROVE  a = b
    <3>1. CASE a \in Authorized /\ b \in Authorized
      BY <2>7, <3>1 DEF SnapshotInv, OneDeliveryPerSnapshot
    <3>2. CASE a \in Authorized /\ b = n
      BY <2>6, <2>7, <3>2
    <3>3. CASE a = n /\ b \in Authorized
      BY <2>6, <2>7, <3>3
    <3> QED
      BY <3>1, <3>2, <3>3
  <2>8. Authorized' = Authorized \cup {n}
    BY <1>3, <2>0
  <2>9. OneDeliveryPerSnapshot'
    BY <2>7, <2>8 DEF OneDeliveryPerSnapshot
  <2>10. \A a \in Authorized' : Spent(a)'
    BY <1>1, <2>5, <2>8
  <2> QED
    BY <2>9, <2>10 DEF SnapshotInv
<1> QED
  BY <1>2, <1>3, AuthorizedMoves

LEMMA RetryInvariant ==
    ASSUME ControlAssumption
    PROVE  Spec => [](IInv /\ RetryInv)
<1>1. Init => RetryInv
  BY DEF Init, RetryInv, NoAutomaticRetry, Authorized
<1>2. IInv /\ RetryInv /\ [Next]_vars => RetryInv'
  BY RetryStep
<1> QED
  BY <1>1, <1>2, Invariant, PTL DEF Spec

\* However many check-task requests read the same attempt of a projection, in
\* whatever processes, the Guard lets one of them deliver.
THEOREM SnapshotsDeliverOnce ==
    ASSUME ControlAssumption
    PROVE  Spec => []OneDeliveryPerSnapshot
<1>1. Init => SnapshotInv
  BY DEF Init, SnapshotInv, OneDeliveryPerSnapshot, Authorized
<1>2. IInv /\ IInv' /\ RetryInv /\ SnapshotInv /\ [Next]_vars => SnapshotInv'
  BY SnapshotStep
<1>3. SnapshotInv => OneDeliveryPerSnapshot
  BY DEF SnapshotInv
<1> QED
  BY <1>1, <1>2, <1>3, RetryInvariant, PTL DEF Spec

-----------------------------------------------------------------------------
(* The fence between two threads in a delivery for one key.                *)

LEMMA AcquireThread ==
    ASSUME ControlAssumption, IInv, NEW s \in Senders, Acquire(s)
    PROVE  /\ ~Delivering(s) /\ Delivering(s)'
           /\ sender'[s].exec = sender[s].exec
           /\ sender'[s].version = guard[SenderKey(s)].version + 1
           /\ \A q \in Senders \ {s} : sender'[q] = sender[q]
<1> DEFINE v == guard[SenderKey(s)].version + 1
<1>1. /\ sender' = [sender EXCEPT ![s].pc = "leased", ![s].version = v]
      /\ sender[s].pc = "ready"
  BY DEF Acquire, Acquiring
<1>2. sender \in [Senders -> Thread]
  BY DEF IInv, ThreadInv, ThreadTypes, Thread, Points
<1> HIDE DEF v
<1>3. /\ sender'[s].pc = "leased" /\ sender'[s].exec = sender[s].exec
      /\ sender'[s].version = v
      /\ \A q \in Senders \ {s} : sender'[q] = sender[q]
  BY <1>1, <1>2 DEF Thread
<1> QED
  BY <1>1, <1>3 DEF Delivering, v

LEMMA LeavesDelivery ==
    ASSUME ControlAssumption, IInv, NEW s \in Senders, Leave(s) \/ Die(s)
    PROVE  ~Delivering(s)' /\ \A q \in Senders \ {s} : sender'[q] = sender[q]
<1>1. sender \in [Senders -> Thread]
  BY DEF IInv, ThreadInv, ThreadTypes, Thread, Points
<1>2. \/ sender' = [sender EXCEPT ![s] = Idle]
      \/ sender' = [sender EXCEPT ![s].pc = "done"]
      \/ sender' = [sender EXCEPT ![s].pc = "dead"]
  BY DEF Leave, Die
<1>3. sender'[s].pc \in {"idle", "done", "dead"}
  BY <1>1, <1>2, IdleThread DEF Thread
<1>4. \A q \in Senders \ {s} : sender'[q] = sender[q]
  BY <1>1, <1>2
<1> QED
  BY <1>3, <1>4 DEF Delivering

\* Thread s goes on with the delivery it is in.
Stayed(s) == /\ Delivering(s)
             /\ sender'[s].exec = sender[s].exec
             /\ sender'[s].version = sender[s].version
             /\ SenderKey(s)' = SenderKey(s)

LEMMA SameThread ==
    ASSUME ControlAssumption, IInv, [Next]_vars, NEW s \in Senders, Delivering(s),
           sender'[s].exec = sender[s].exec, sender'[s].version = sender[s].version
    PROVE  Stayed(s)
<1>1. sender[s].exec \in Execs /\ sender[s].exec <= lastSeq
  BY ThreadRow DEF IInv, Delivering
<1>2. execution'[sender[s].exec].key = execution[sender[s].exec].key
  BY <1>1, NextGrows DEF Grows
<1> QED
  BY <1>2 DEF Stayed, SenderKey, KeyOf

\* A thread is in a delivery because it was, or because it acquires the Guard.
LEMMA DeliversOn ==
    ASSUME ControlAssumption, IInv, [Next]_vars, NEW s \in Senders, Delivering(s)'
    PROVE  Acquire(s) \/ Stayed(s)
<1>t. sender \in [Senders -> Thread]
  BY DEF IInv, ThreadInv, ThreadTypes, Thread, Points
<1>s. ASSUME sender'[s] = sender[s]
      PROVE  Stayed(s)
  BY <1>s, SameThread DEF Delivering
<1>1. CASE UNCHANGED vars
  BY <1>1, <1>s DEF vars
<1>2. CASE Admission
  BY <1>2, <1>s DEF Admission, SubmitTask, SubmitBatch, SubmitFreezes, Admit
<1>3. ASSUME NEW e \in Execs, RunExecution(e) \/ FailPoisoned(e)
      PROVE  Stayed(s)
  <2>0. e \in Senders
    BY DEF Senders
  <2>1. CASE e # s
    <3>1. \A q \in Senders \ {e} : sender'[q] = sender[q]
      BY <1>t, <1>3 DEF RunExecution, FailPoisoned, Claim, Finish, CheckLatest, Leave
    <3> QED
      BY <2>1, <3>1, <1>s
  <2>2. CASE e = s
    <3>1. CASE sender' = sender
      BY <3>1, <1>s
    <3>2. CASE Leave(e)
      BY <2>0, <2>2, <3>2, LeavesDelivery
    <3>3. CASE \/ sender' = [sender EXCEPT ![e].pc = "working", ![e].exec = e]
               \/ sender' = [sender EXCEPT ![e].pc = "ready"]
               \/ sender' = [sender EXCEPT ![e].pc = "finished"]
      <4>1. sender'[s].pc \in {"working", "ready", "finished"}
        <5>1. /\ sender[s] \in Thread /\ s \in Senders
              /\ \A p \in {"working", "ready", "finished"} :
                   [sender EXCEPT ![s].pc = p][s].pc = p
              /\ [sender EXCEPT ![s].pc = "working", ![s].exec = s][s].pc = "working"
          BY <1>t DEF Thread
        <5> QED
          BY <2>2, <3>3, <5>1
      <4> QED
        BY <4>1 DEF Delivering
    <3> QED
      BY <1>3, <3>1, <3>2, <3>3 DEF RunExecution, FailPoisoned, Claim, Finish, CheckLatest
  <2> QED
    BY <2>1, <2>2
<1>4. ASSUME NEW q \in Senders, Deliver(q) \/ Die(q)
      PROVE  Acquire(s) \/ Stayed(s)
  <2>1. CASE Acquire(q)
    <3>1. CASE q = s
      BY <2>1, <3>1
    <3>2. CASE q # s
      BY <2>1, <3>2, <1>s, AcquireThread
    <3> QED
      BY <3>1, <3>2
  <2>2. CASE Leave(q) \/ Die(q)
    BY <2>2, <1>s, LeavesDelivery
  <2>3. CASE Validate(q)
    <3>1. /\ sender' = [sender EXCEPT ![q].pc = "cleared"] /\ sender[q].pc = "leased"
      BY <2>3 DEF Validate
    <3>2. /\ sender'[s].exec = sender[s].exec /\ sender'[s].version = sender[s].version
          /\ s # q => sender'[s] = sender[s]
      BY <1>t, <3>1 DEF Thread
    <3>3. Delivering(s)
      BY <3>1, <3>2 DEF Delivering
    <3> QED
      BY <3>2, <3>3, SameThread
  <2>4. ASSUME NEW o \in Outcomes, Post(q, o)
        PROVE  Stayed(s)
    <3>1. /\ sender' = [sender EXCEPT ![q].pc = "replied", ![q].reply = o]
          /\ sender[q].pc = "cleared"
      BY <2>4 DEF Post
    <3>2. /\ sender'[s].exec = sender[s].exec /\ sender'[s].version = sender[s].version
          /\ s # q => sender'[s] = sender[s]
      BY <1>t, <3>1 DEF Thread
    <3>3. Delivering(s)
      BY <3>1, <3>2 DEF Delivering
    <3> QED
      BY <3>2, <3>3, SameThread
  <2> QED
    BY <1>4, <2>1, <2>2, <2>3, <2>4
       DEF Deliver, AcquireFreezes, AcquireRefused, ValidateFails, Complete
<1>5. ASSUME NEW r \in Recoverers, NEW k \in Keys, LoadRecoverable(r, k)
      PROVE  Stayed(s)
  <2>0. r \in Senders
    BY DEF Senders
  <2>1. CASE r = s
    BY <1>5, <1>t, <2>1 DEF LoadRecoverable, Delivering
  <2>2. CASE r # s
    BY <1>5, <1>t, <1>s, <2>2 DEF LoadRecoverable
  <2> QED
    BY <2>1, <2>2
<1>6. CASE (\E k \in Keys : Expire(k) \/ Release(k)) \/ SweepRead \/ SweepWrite
  BY <1>6, <1>s DEF Expire, Release, SweepRead, SweepWrite
<1> QED
  BY <1>1, <1>2, <1>3, <1>4, <1>5, <1>6 DEF Next

\* A request has reopened the key of s after the lease of s, up to version v.
Reopened(s, v) ==
    \E a \in Authorized : /\ a.key = SenderKey(s)
                          /\ a.version \in (sender[s].version + 1) .. v
                          /\ a.trigger = "explicit_check_task_recovery"

\* The Guard of a thread in a delivery is idle only if it was reopened.
Fenced(s) ==
    Delivering(s) =>
        /\ sender[s].version <= guard[SenderKey(s)].version
        /\ guard[SenderKey(s)].state = "idle" => Reopened(s, guard[SenderKey(s)].version)

Ordered(s, t) ==
    (s # t /\ Delivering(s) /\ Delivering(t) /\ SenderKey(s) = SenderKey(t)) =>
        /\ sender[s].version # sender[t].version
        /\ sender[s].version < sender[t].version => Reopened(s, sender[t].version)

FenceInv == /\ \A s \in Senders : Fenced(s)
            /\ \A s, t \in Senders : Ordered(s, t)

LEMMA VersionRow ==
    ASSUME IInv, NEW s \in Senders, Delivering(s)
    PROVE  /\ sender[s].version \in Nat /\ SenderKey(s) \in Keys
           /\ guard[SenderKey(s)].version \in Nat
<1>1. SenderKey(s) \in Keys
  BY SenderRow DEF IInv, Delivering
<1>2. sender[s].version \in Nat
  BY DEF IInv, ThreadInv, ThreadTypes
<1> QED
  BY <1>1, <1>2, GuardRows

LEMMA MoreAuthorized ==
    ASSUME ControlAssumption, IInv, [Next]_vars
    PROVE  Authorized \subseteq Authorized'
BY AuthorizedMoves

LEMMA ReopenedStays ==
    ASSUME ControlAssumption, IInv, [Next]_vars, NEW s \in Senders, Stayed(s),
           NEW v \in Nat, NEW w \in Nat, v <= w, Reopened(s, v)
    PROVE  Reopened(s, w)'
<1>1. PICK a \in Authorized : /\ a.key = SenderKey(s)
                              /\ a.version \in (sender[s].version + 1) .. v
                              /\ a.trigger = "explicit_check_task_recovery"
  BY DEF Reopened
<1>2. sender[s].version \in Nat
  BY VersionRow DEF Stayed
<1>3. a.version \in (sender[s].version + 1) .. w
  BY <1>1, <1>2
<1>4. /\ a \in Authorized'
      /\ a.key = SenderKey(s)' /\ sender'[s].version = sender[s].version
  BY <1>1, MoreAuthorized DEF Stayed
<1>5. a.version \in (sender'[s].version + 1) .. w
  BY <1>3, <1>4
<1> QED
  BY <1>1, <1>4, <1>5 DEF Reopened

\* How a Guard whose thread is still in its delivery may become idle.
LEMMA IdleAgain ==
    ASSUME ControlAssumption, IInv, FenceInv, [Next]_vars, NEW s \in Senders, Stayed(s),
           Delivering(s)', guard'[SenderKey(s)].state = "idle"
    PROVE  /\ guard'[SenderKey(s)].version = guard[SenderKey(s)].version
           /\ Reopened(s, guard[SenderKey(s)].version)
<1> DEFINE k == SenderKey(s)
<1>0. /\ k \in Keys /\ Delivering(s) /\ sender[s].version \in Nat
      /\ guard[k].version \in Nat
  BY VersionRow DEF Stayed
<1>1. guard[k].state = "idle" => Reopened(s, guard[k].version)
  BY <1>0 DEF FenceInv, Fenced
<1>2. CASE UNCHANGED <<guard, events>>
  BY <1>1, <1>2
<1>3. ASSUME NEW ks \in SUBSET Keys, FreezeAll(ks)
      PROVE  guard'[k].version = guard[k].version /\ guard[k].state = "idle"
  BY <1>0, <1>3, FreezeEffect
<1>4. ASSUME NEW t \in Senders, Acquire(t)
      PROVE  guard'[k].version = guard[k].version /\ guard[k].state = "idle"
  <2>1. SenderKey(t) # k
    BY <1>4, AcquireEffect
  <2> QED
    BY <1>0, <1>4, <2>1, AcquireEffect
<1>5. ASSUME NEW t \in Senders, Complete(t), HoldsLease(t), IsLatest(sender[t].exec)
      PROVE  /\ guard'[k].version = guard[k].version
             /\ Reopened(s, guard[k].version)
  <2>1. CASE SenderKey(t) # k
    <3>1. guard'[k] = guard[k]
      BY <1>0, <1>5, <2>1, CompleteEffect
    <3> QED
      BY <1>1, <3>1
  <2>2. CASE SenderKey(t) = k
    <3>1. Delivering(t) /\ t # s
      BY <1>0, <1>5, LeavesDelivery DEF Complete, Delivering, Stayed
    <3>2. guard[k].version = sender[t].version /\ guard'[k].version = guard[k].version
      BY <1>5, <2>2, CompleteEffect
    <3>3. sender[s].version <= guard[k].version
      BY <1>0 DEF FenceInv, Fenced
    <3>4. Ordered(s, t)
      BY DEF FenceInv
    <3> QED
      BY <1>0, <2>2, <3>1, <3>2, <3>3, <3>4 DEF Ordered
  <2> QED
    BY <2>1, <2>2
<1>6. ASSUME NEW q \in Keys, Expire(q) \/ Release(q)
      PROVE  guard'[k].version = guard[k].version /\ guard[k].state = "idle"
  <2>1. CASE guard'[k].state = guard[k].state
    BY <1>0, <1>6, <2>1, ReopenEffect
  <2>2. CASE guard'[k].state # guard[k].state
    <3>1. Release(q) /\ q = k
      BY <1>0, <1>6, <2>2, ReopenEffect
    <3> QED
      BY <1>0, <3>1 DEF Release, WorkerStopped, Delivering
  <2> QED
    BY <2>1, <2>2
<1> QED
  BY <1>1, <1>2, <1>3, <1>4, <1>5, <1>6, Kinds DEF StepKind

LEMMA FencedStays ==
    ASSUME ControlAssumption, IInv, FenceInv, [Next]_vars, NEW s \in Senders
    PROVE  Fenced(s)'
<1> SUFFICES ASSUME Delivering(s)'
             PROVE  /\ sender'[s].version <= guard'[SenderKey(s)'].version
                    /\ guard'[SenderKey(s)'].state = "idle" =>
                         Reopened(s, guard[SenderKey(s)].version)'
  BY DEF Fenced
<1>1. CASE Acquire(s)
  <2> DEFINE k == SenderKey(s)
  <2>1. /\ k \in Keys /\ guard'[k].state = "sending"
        /\ guard'[k].version = guard[k].version + 1
        /\ sender'[s].version = guard[k].version + 1
        /\ sender'[s].exec = sender[s].exec
    BY <1>1, AcquireEffect, AcquireThread
  <2>2. SenderKey(s)' = k
    BY <1>1, <2>1, AcquiredRecord DEF SenderKey, KeyOf
  <2>3. guard[k].version + 1 \in Nat
    BY <2>1, GuardRows
  <2> QED
    BY <2>1, <2>2, <2>3
<1>2. CASE Stayed(s)
  <2> DEFINE k == SenderKey(s)
  <2>1. /\ k \in Keys /\ Delivering(s) /\ sender[s].version \in Nat
        /\ guard[k].version \in Nat
    BY <1>2, VersionRow DEF Stayed
  <2>2. SenderKey(s)' = k /\ sender'[s].version = sender[s].version
    BY <1>2 DEF Stayed
  <2>3. sender[s].version <= guard[k].version
    BY <2>1 DEF FenceInv, Fenced
  <2>4. guard'[k].version >= guard[k].version
    BY <2>1, NextGrows DEF Grows
  <2>5. guard'[k].version \in Nat
    <3>1. RowTypes'
      BY NextKeepsRows DEF RowInv
    <3> QED
      BY <2>1, <3>1 DEF RowTypes
  <2>6. ASSUME guard'[k].state = "idle"
        PROVE  Reopened(s, guard[k].version)'
    <3>1. guard'[k].version = guard[k].version /\ Reopened(s, guard[k].version)
      BY <1>2, <2>6, IdleAgain
    <3>2. PICK v \in Nat : v = guard[k].version
      BY <2>1
    <3>3. Reopened(s, v)'
      BY <1>2, <3>1, <3>2, ReopenedStays
    <3> QED
      BY <2>2, <3>1, <3>2, <3>3
  <2> QED
    BY <2>1, <2>2, <2>3, <2>4, <2>5, <2>6
<1> QED
  BY <1>1, <1>2, DeliversOn

\* Who acquires a Guard behind a thread in a delivery is a request, or finds the
\* Guard idle, reopened by a request.
LEMMA AcquiredBehind ==
    ASSUME ControlAssumption, IInv, FenceInv, [Next]_vars,
           NEW s \in Senders, NEW t \in Senders, Stayed(s), Acquire(t),
           SenderKey(s) = SenderKey(t)
    PROVE  /\ sender[s].version < sender'[t].version
           /\ Reopened(s, sender[t].version)'
<1> DEFINE k == SenderKey(t)
           v == guard[k].version
<1>1. /\ k \in Keys /\ Delivering(s) /\ sender[s].version \in Nat /\ v \in Nat
  BY VersionRow DEF Stayed
<1>2. sender[s].version <= v
  BY <1>1 DEF FenceInv, Fenced
<1>w. PICK w \in Nat : w = v + 1
  BY <1>1
<1>v. sender'[t].version = w
  BY <1>w, AcquireThread
<1>3. CASE t \in Recoverers
  <2>0. PICK n : n = NewEvent(t)
    OBVIOUS
  <2>1. /\ n.type = "authorized" /\ n.key = k /\ n.version = v + 1
        /\ n.trigger = "explicit_check_task_recovery"
    BY <1>3, <2>0 DEF NewEvent, Trigger
  <2>2. n \in Authorized'
    BY <2>0, <2>1, AcquireEffect DEF Authorized
  <2>3. n.version \in (sender[s].version + 1) .. w
    BY <1>1, <1>2, <1>w, <2>1
  <2>4. /\ SenderKey(s)' = k /\ sender'[s].version = sender[s].version
    BY DEF Stayed
  <2>5. n.version \in (sender'[s].version + 1) .. sender'[t].version
    BY <1>v, <2>3, <2>4
  <2>6. Reopened(s, sender[t].version)'
    BY <2>1, <2>2, <2>4, <2>5 DEF Reopened
  <2> QED
    BY <1>1, <1>2, <1>v, <1>w, <2>6
<1>4. CASE t \notin Recoverers
  <2>1. Reopened(s, v)
    BY <1>1, <1>4, AcquireEffect DEF FenceInv, Fenced
  <2>2. PICK u \in Nat : u = v
    BY <1>1
  <2>3. Reopened(s, w)'
    BY <1>1, <1>w, <2>1, <2>2, ReopenedStays
  <2> QED
    BY <1>1, <1>2, <1>v, <1>w, <2>3
<1> QED
  BY <1>3, <1>4

LEMMA OrderedStays ==
    ASSUME ControlAssumption, IInv, FenceInv, [Next]_vars,
           NEW s \in Senders, NEW t \in Senders
    PROVE  Ordered(s, t)'
<1> SUFFICES ASSUME s # t, Delivering(s)', Delivering(t)', SenderKey(s)' = SenderKey(t)'
             PROVE  /\ sender'[s].version # sender'[t].version
                    /\ sender'[s].version < sender'[t].version =>
                         Reopened(s, sender[t].version)'
  BY DEF Ordered
<1>1. ASSUME NEW q \in Senders, Acquire(q)
      PROVE  SenderKey(q)' = SenderKey(q)
  BY <1>1, AcquireThread, AcquiredRecord DEF SenderKey, KeyOf
<1>2. CASE Stayed(s) /\ Stayed(t)
  <2>1. /\ Delivering(s) /\ Delivering(t) /\ SenderKey(s) = SenderKey(t)
        /\ sender'[s].version = sender[s].version
        /\ sender'[t].version = sender[t].version
    BY <1>2 DEF Stayed
  <2>2. /\ sender[s].version # sender[t].version
        /\ sender[s].version < sender[t].version => Reopened(s, sender[t].version)
    BY <2>1 DEF FenceInv, Ordered
  <2>3. PICK v \in Nat : v = sender[t].version
    BY <2>1, VersionRow
  <2>4. ASSUME Reopened(s, v)
        PROVE  Reopened(s, sender[t].version)'
    <3>1. Reopened(s, v)'
      BY <1>2, <2>4, ReopenedStays
    <3> QED
      BY <2>1, <2>3, <3>1
  <2> QED
    BY <2>1, <2>2, <2>3, <2>4
<1>3. CASE Stayed(s) /\ Acquire(t)
  <2>1. SenderKey(s) = SenderKey(t) /\ sender'[s].version = sender[s].version
        /\ sender[s].version \in Nat
    BY <1>1, <1>3, VersionRow DEF Stayed
  <2>2. sender[s].version < sender'[t].version /\ Reopened(s, sender[t].version)'
    BY <1>3, <2>1, AcquiredBehind
  <2>3. sender'[t].version \in Nat
    BY NextKeepsThreads DEF ThreadInv, ThreadTypes
  <2> QED
    BY <2>1, <2>2, <2>3
<1>4. CASE Acquire(s) /\ Stayed(t)
  <2>1. SenderKey(s) = SenderKey(t) /\ sender'[t].version = sender[t].version
        /\ sender[t].version \in Nat
    BY <1>1, <1>4, VersionRow DEF Stayed
  <2>2. sender[t].version < sender'[s].version
    BY <1>4, <2>1, AcquiredBehind
  <2>3. sender'[s].version \in Nat
    BY NextKeepsThreads DEF ThreadInv, ThreadTypes
  <2> QED
    BY <2>1, <2>2, <2>3
<1>5. CASE Acquire(s) /\ Acquire(t)
  <2>1. ~Delivering(t) /\ sender'[t] = sender[t]
    BY <1>5, AcquireThread
  <2> QED
    BY <2>1 DEF Delivering
<1> QED
  BY <1>2, <1>3, <1>4, <1>5, DeliversOn

\* Of two threads that deliver for one key the older has lost its lease for good,
\* and a check-task request has reopened the key behind it: the initial delivery of
\* a later execution never overtakes a thread that may still post.
THEOREM SendersFenced ==
    ASSUME ControlAssumption
    PROVE  Spec => []FencedSenders
<1>1. Init => FenceInv
  <2> SUFFICES ASSUME Init, NEW s \in Senders
               PROVE  ~Delivering(s)
    BY DEF FenceInv, Fenced, Ordered
  <2>1. sender[s] = Idle
    BY DEF Init
  <2> QED
    BY <2>1, IdleThread DEF Delivering
<1>2. IInv /\ FenceInv /\ [Next]_vars => FenceInv'
  BY FencedStays, OrderedStays DEF FenceInv
<1>3. IInv /\ FenceInv => FencedSenders
  <2> SUFFICES ASSUME IInv, FenceInv, NEW s \in Senders, NEW t \in Senders,
                      s # t, Delivering(s), Delivering(t), SenderKey(s) = SenderKey(t)
               PROVE  /\ sender[s].version # sender[t].version
                      /\ sender[s].version < sender[t].version =>
                           /\ ~HoldsLease(s)
                           /\ Reopened(s, sender[t].version)
    BY DEF FencedSenders, Reopened
  <2>1. /\ sender[s].version # sender[t].version
        /\ sender[s].version < sender[t].version => Reopened(s, sender[t].version)
    BY DEF FenceInv, Ordered
  <2>2. sender[t].version <= guard[SenderKey(s)].version
    BY DEF FenceInv, Fenced
  <2>3. sender[s].version < sender[t].version => ~HoldsLease(s)
    BY <2>2, VersionRow DEF HoldsLease
  <2> QED
    BY <2>1, <2>3
<1> QED
  BY <1>1, <1>2, <1>3, Invariant, PTL DEF Spec

-----------------------------------------------------------------------------
(* The ledger.                                                             *)

\* No version is given out twice, and none before the Guard has reached it.
Numbered ==
    /\ \A c \in events : c.version <= guard[c.key].version
    /\ \A a, b \in Authorized : a.key = b.key /\ a.version = b.version => a = b

HasLease(k) == guard[k].state = "sending" => \E a \in Authorized : a.key = k /\ InUse(a)

\* An authorization is open while its lease is in use and closed once afterwards.
Booked(a) == IF InUse(a) THEN Closings(a) = {} ELSE \E c \in events : Closings(a) = {c}

LeaseInv == /\ Numbered
            /\ \A k \in Keys : HasLease(k)
            /\ \A a \in Authorized : Booked(a)

LEMMA EventRow ==
    ASSUME IInv, NEW c \in events
    PROVE  c.key \in Keys /\ c.version \in Nat
BY DEF IInv, RowInv, RowTypes, Event

\* Neither the audit nor what decides whether a lease is in use has moved.
LEMMA SameLeases ==
    ASSUME IInv, LeaseInv, events' = events,
           \A k \in Keys : /\ guard'[k].version = guard[k].version
                           /\ guard'[k].owner = guard[k].owner
                           /\ guard'[k].state = "sending" <=> guard[k].state = "sending"
    PROVE  LeaseInv'
<1>1. Authorized' = Authorized /\ \A a \in Authorized : Closings(a)' = Closings(a)
  BY DEF Authorized, Closings
<1>2. \A a \in Authorized : InUse(a)' <=> InUse(a)
  BY AuthorizedRow DEF InUse
<1>3. Numbered'
  BY <1>1, EventRow DEF LeaseInv, Numbered
<1>4. \A k \in Keys : HasLease(k)'
  BY <1>1, <1>2 DEF LeaseInv, HasLease
<1>5. \A a \in Authorized : Booked(a)'
  BY <1>1, <1>2 DEF LeaseInv, Booked
<1> QED
  BY <1>1, <1>3, <1>4, <1>5 DEF LeaseInv

\* The leases of ks are closed together.
CloseAll(ks, type, outcome) ==
    /\ events' = events \cup UNION {FollowUps(k, type, outcome) : k \in ks}
    /\ \A k \in ks : guard[k].state = "sending" /\ guard'[k].state # "sending"
    /\ \A k \in Keys : /\ guard'[k].version = guard[k].version
                       /\ guard'[k].owner = guard[k].owner
                       /\ k \notin ks =>
                            (guard'[k].state = "sending" <=> guard[k].state = "sending")

LEMMA FollowUp ==
    ASSUME IInv, LeaseInv, NEW k \in Keys, guard[k].state = "sending",
           NEW type, NEW outcome
    PROVE  \E a \in Authorized :
             /\ a.key = k /\ InUse(a)
             /\ FollowUps(k, type, outcome) = {Closing(a, type, outcome)}
<1>1. PICK a \in Authorized : a.key = k /\ InUse(a)
  BY DEF LeaseInv, HasLease
<1>2. \A b \in Authorized : (b.key = k /\ b.version = guard[k].version) => b = a
  BY <1>1 DEF LeaseInv, Numbered, InUse
<1>3. {v \in events : /\ v.type = "authorized" /\ v.key = k
                      /\ v.exec = guard[k].owner /\ v.version = guard[k].version} = {a}
  BY <1>1, <1>2 DEF Authorized, InUse
<1>4. FollowUps(k, type, outcome) = {Closing(v, type, outcome) : v \in {a}}
  BY <1>3 DEF FollowUps
<1>5. {Closing(v, type, outcome) : v \in {a}} = {Closing(a, type, outcome)}
  OBVIOUS
<1> QED
  BY <1>1, <1>4, <1>5

LEMMA ClosingRow ==
    ASSUME NEW a, NEW type, NEW outcome
    PROVE  /\ Closing(a, type, outcome).key = a.key
           /\ Closing(a, type, outcome).version = a.version
           /\ Closing(a, type, outcome).type = type
BY DEF Closing

\* What closing adds to the audit: one event per key, under the version of its lease.
LEMMA Added ==
    ASSUME IInv, LeaseInv, NEW ks \in SUBSET Keys,
           NEW type \in {"completed", "lease_expired_unknown"}, NEW outcome,
           CloseAll(ks, type, outcome)
    PROVE  /\ \A c \in events' \ events :
                /\ c.key \in ks /\ c.version = guard[c.key].version /\ c.type = type
           /\ \A a \in Authorized : (a.key \in ks /\ InUse(a)) =>
                /\ Closing(a, type, outcome) \in events'
                /\ \A c \in events' \ events :
                      c.key = a.key => c = Closing(a, type, outcome)
<1>1. ASSUME NEW k \in ks
      PROVE  \E a \in Authorized : /\ a.key = k /\ InUse(a)
                                   /\ FollowUps(k, type, outcome) = {Closing(a, type, outcome)}
  BY FollowUp DEF CloseAll
<1>2. events' = events \cup UNION {FollowUps(k, type, outcome) : k \in ks}
  BY DEF CloseAll
<1>3. ASSUME NEW c \in events' \ events
      PROVE  \E a \in Authorized : /\ a.key \in ks /\ InUse(a)
                                   /\ c = Closing(a, type, outcome)
  <2>1. PICK k \in ks : c \in FollowUps(k, type, outcome)
    BY <1>2
  <2> QED
    BY <1>1, <2>1
<1>4. ASSUME NEW c \in events' \ events
      PROVE  c.key \in ks /\ c.version = guard[c.key].version /\ c.type = type
  BY <1>3, ClosingRow DEF InUse
<1>5. \A a, b \in Authorized : (InUse(a) /\ InUse(b) /\ a.key = b.key) => a = b
  BY DEF InUse, LeaseInv, Numbered
<1>6. ASSUME NEW a \in Authorized, a.key \in ks, InUse(a)
      PROVE  /\ Closing(a, type, outcome) \in events'
             /\ \A c \in events' \ events : c.key = a.key => c = Closing(a, type, outcome)
  <2>1. PICK b \in Authorized :
           /\ b.key = a.key /\ InUse(b)
           /\ FollowUps(a.key, type, outcome) = {Closing(b, type, outcome)}
    BY <1>1, <1>6
  <2>2. b = a
    BY <1>5, <1>6, <2>1
  <2>3. Closing(a, type, outcome) \in UNION {FollowUps(k, type, outcome) : k \in ks}
    BY <1>6, <2>1, <2>2
  <2>4. ASSUME NEW c \in events' \ events, c.key = a.key
        PROVE  c = Closing(a, type, outcome)
    <3>1. PICK d \in Authorized : /\ d.key \in ks /\ InUse(d)
                                  /\ c = Closing(d, type, outcome)
      BY <1>3
    <3>2. d.key = a.key
      BY <2>4, <3>1, ClosingRow
    <3> QED
      BY <1>5, <1>6, <3>1, <3>2
  <2> QED
    BY <1>2, <2>3, <2>4
<1> QED
  BY <1>4, <1>6

LEMMA CloseAllKeepsLeases ==
    ASSUME IInv, LeaseInv, NEW ks \in SUBSET Keys,
           NEW type \in {"completed", "lease_expired_unknown"}, NEW outcome,
           CloseAll(ks, type, outcome)
    PROVE  LeaseInv'
<1>1. \A c \in events' \ events :
         c.key \in ks /\ c.version = guard[c.key].version /\ c.type # "authorized"
  BY Added
<1>2. /\ events \subseteq events'
      /\ \A k \in ks : guard[k].state = "sending" /\ guard'[k].state # "sending"
      /\ \A k \in Keys : /\ guard'[k].version = guard[k].version
                         /\ guard'[k].owner = guard[k].owner
                         /\ k \notin ks =>
                              (guard'[k].state = "sending" <=> guard[k].state = "sending")
  BY DEF CloseAll
<1>3. Authorized' = Authorized
  BY <1>1, <1>2 DEF Authorized
<1>4. \A a \in Authorized : InUse(a)' <=> (InUse(a) /\ a.key \notin ks)
  BY <1>2, AuthorizedRow DEF InUse
<1>5. Numbered'
  <2>1. \A a, b \in Authorized : a.key = b.key /\ a.version = b.version => a = b
    BY DEF LeaseInv, Numbered
  <2>2. ASSUME NEW c \in events'
        PROVE  c.version <= guard'[c.key].version
    <3>1. CASE c \in events
      BY <1>2, <3>1, EventRow DEF LeaseInv, Numbered
    <3>2. CASE c \notin events
      <4>1. c.key \in Keys /\ c.version = guard'[c.key].version
        BY <1>1, <1>2, <3>2
      <4>2. c.version \in Nat
        BY <1>1, <3>2, <4>1, GuardRows
      <4> QED
        BY <4>1, <4>2
    <3> QED
      BY <3>1, <3>2
  <2> QED
    BY <1>3, <2>1, <2>2 DEF Numbered
<1>6. ASSUME NEW k \in Keys
      PROVE  HasLease(k)'
  BY <1>2, <1>3, <1>4 DEF LeaseInv, HasLease
<1>7. ASSUME NEW a \in Authorized
      PROVE  Booked(a)'
  <2>0. a.key \in Keys
    BY AuthorizedRow
  <2>1. CASE a.key \in ks /\ InUse(a)
    <3> DEFINE c == Closing(a, type, outcome)
    <3>1. Closings(a) = {}
      BY <2>1 DEF LeaseInv, Booked
    <3>2. c \in events' /\ \A d \in events' \ events : d.key = a.key => d = c
      BY <2>1, Added
    <3>3. c.key = a.key /\ c.version = a.version /\ c.type # "authorized"
      BY ClosingRow
    <3> HIDE DEF c
    <3>4. Closings(a)' = {c}
      BY <3>1, <3>2, <3>3 DEF Closings
    <3>5. ~InUse(a)'
      BY <1>4, <2>1
    <3> QED
      BY <3>2, <3>4, <3>5 DEF Booked
  <2>2. CASE a.key \in ks /\ ~InUse(a)
    <3>1. PICK b \in Authorized : b.key = a.key /\ InUse(b)
      BY <1>2, <2>0, <2>2 DEF LeaseInv, HasLease
    <3>2. a.version # guard[a.key].version
      BY <2>2, <3>1 DEF LeaseInv, Numbered, InUse
    <3>3. Closings(a)' = Closings(a)
      BY <1>1, <1>2, <3>2 DEF Closings
    <3>4. \E c \in events : Closings(a) = {c}
      BY <2>2 DEF LeaseInv, Booked
    <3> QED
      BY <1>2, <1>4, <2>2, <3>3, <3>4 DEF Booked
  <2>3. CASE a.key \notin ks
    <3>1. Closings(a)' = Closings(a)
      BY <1>1, <1>2, <2>3 DEF Closings
    <3>2. Booked(a)
      BY DEF LeaseInv
    <3> QED
      BY <1>2, <1>4, <2>3, <3>1, <3>2 DEF Booked
  <2> QED
    BY <2>1, <2>2, <2>3
<1> QED
  BY <1>3, <1>5, <1>6, <1>7 DEF LeaseInv

LEMMA AcquireKeepsLeases ==
    ASSUME ControlAssumption, IInv, LeaseInv, NEW s \in Senders, Acquire(s)
    PROVE  LeaseInv'
<1> DEFINE k == SenderKey(s)
<1>0. PICK n : n = NewEvent(s)
  OBVIOUS
<1>1. /\ n.key = k /\ n.exec = sender[s].exec /\ n.version = guard[k].version + 1
      /\ n.type = "authorized"
  BY <1>0 DEF NewEvent
<1>2. /\ k \in Keys /\ guard[k].state # "sending"
      /\ guard'[k].state = "sending" /\ guard'[k].owner = sender[s].exec
      /\ guard'[k].version = n.version
      /\ \A q \in Keys \ {k} : guard'[q] = guard[q]
      /\ events' = events \cup {n}
  BY <1>0, <1>1, AcquireEffect
<1>3. guard[k].version \in Nat /\ n.version \in Nat
  BY <1>1, <1>2, GuardRows
<1>4. Authorized' = Authorized \cup {n}
  BY <1>1, <1>2 DEF Authorized
<1>5. \A c \in events : c.key = k => c.version < n.version
  BY <1>1, <1>3, EventRow DEF LeaseInv, Numbered
<1>6. Numbered'
  <2>1. ASSUME NEW c \in events \cup {n}
        PROVE  c.version <= guard'[c.key].version
    <3>1. CASE c = n
      BY <1>1, <1>2, <1>3, <3>1
    <3>2. CASE c \in events /\ c.key = k
      BY <1>2, <1>3, <1>5, <3>2, EventRow
    <3>3. CASE c \in events /\ c.key # k
      BY <1>2, <3>3, EventRow DEF LeaseInv, Numbered
    <3> QED
      BY <3>1, <3>2, <3>3
  <2>2. ASSUME NEW a \in Authorized \cup {n}, NEW b \in Authorized \cup {n},
               a.key = b.key, a.version = b.version
        PROVE  a = b
    <3>1. \A c \in Authorized : c.key = n.key => c.version # n.version
      BY <1>1, <1>3, <1>5, AuthorizedRow
    <3>2. CASE a \in Authorized /\ b \in Authorized
      BY <2>2, <3>2 DEF LeaseInv, Numbered
    <3>3. CASE a = n \/ b = n
      BY <2>2, <3>1, <3>3
    <3> QED
      BY <3>2, <3>3
  <2> QED
    BY <1>2, <1>4, <2>1, <2>2 DEF Numbered
<1>7. InUse(n)'
  BY <1>1, <1>2 DEF InUse
<1>8. \A a \in Authorized : InUse(a)' <=> InUse(a)
  <2> SUFFICES ASSUME NEW a \in Authorized
               PROVE  InUse(a)' <=> InUse(a)
    OBVIOUS
  <2>1. a.key \in Keys /\ a \in events /\ a.version \in Nat
    BY AuthorizedRow
  <2>2. CASE a.key = k
    <3>1. a.version # n.version
      BY <1>3, <1>5, <2>1, <2>2
    <3> QED
      BY <1>2, <2>2, <3>1 DEF InUse
  <2>3. CASE a.key # k
    BY <1>2, <2>1, <2>3 DEF InUse
  <2> QED
    BY <2>2, <2>3
<1>9. ASSUME NEW q \in Keys
      PROVE  HasLease(q)'
  <2>1. CASE q = k
    BY <1>1, <1>4, <1>7, <2>1 DEF HasLease
  <2>2. CASE q # k
    BY <1>2, <1>4, <1>8, <2>2 DEF LeaseInv, HasLease
  <2> QED
    BY <2>1, <2>2
<1>10. \A a : Closings(a)' = Closings(a)
  BY <1>1, <1>2 DEF Closings
<1>11. ASSUME NEW a \in Authorized \cup {n}
       PROVE  Booked(a)'
  <2>1. CASE a = n
    <3>1. Closings(n) = {}
      BY <1>1, <1>3, <1>5, EventRow DEF Closings
    <3> QED
      BY <1>7, <1>10, <2>1, <3>1 DEF Booked
  <2>2. CASE a \in Authorized
    <3>1. Booked(a)
      BY <2>2 DEF LeaseInv
    <3> QED
      BY <1>2, <1>8, <1>10, <2>2, <3>1 DEF Booked
  <2> QED
    BY <2>1, <2>2
<1> QED
  BY <1>4, <1>6, <1>9, <1>11 DEF LeaseInv

LEMMA LeaseStep ==
    ASSUME ControlAssumption, IInv, LeaseInv, [Next]_vars
    PROVE  LeaseInv'
<1>1. CASE UNCHANGED <<guard, events>>
  BY <1>1, SameLeases
<1>2. ASSUME NEW ks \in SUBSET Keys, \A k \in ks : Expired(k), FreezeAll(ks)
      PROVE  LeaseInv'
  <2>1. CloseAll(ks, "lease_expired_unknown", "delivery_outcome_unknown")
    <3>1. \A k \in ks : guard[k].state = "sending"
      BY <1>2 DEF Expired
    <3>2. events' = events \cup UNION {FollowUps(k, "lease_expired_unknown",
                                                 "delivery_outcome_unknown") : k \in ks}
      BY <1>2 DEF FreezeAll
    <3> QED
      BY <1>2, <3>1, <3>2, FreezeEffect DEF CloseAll
  <2> QED
    BY <2>1, CloseAllKeepsLeases
<1>3. CASE \E s \in Senders : Acquire(s)
  BY <1>3, AcquireKeepsLeases
<1>4. ASSUME NEW s \in Senders, Complete(s), HoldsLease(s), IsLatest(sender[s].exec)
      PROVE  LeaseInv'
  <2> DEFINE k == SenderKey(s)
  <2>1. /\ k \in Keys /\ guard[k].state = "sending" /\ guard'[k].state # "sending"
        /\ guard'[k].owner = guard[k].owner /\ guard'[k].version = guard[k].version
        /\ \A q \in Keys \ {k} : guard'[q] = guard[q]
        /\ events' = events \cup FollowUps(k, "completed", sender[s].reply)
    BY <1>4, CompleteEffect
  <2> HIDE DEF k
  <2>2. UNION {FollowUps(q, "completed", sender[s].reply) : q \in {k}}
          = FollowUps(k, "completed", sender[s].reply)
    OBVIOUS
  <2>3. CloseAll({k}, "completed", sender[s].reply) /\ {k} \in SUBSET Keys
    BY <2>1, <2>2 DEF CloseAll
  <2> QED
    BY <2>3, CloseAllKeepsLeases
<1>5. ASSUME NEW k \in Keys, Expire(k) \/ Release(k)
      PROVE  LeaseInv'
  BY <1>5, ReopenEffect, SameLeases
<1> QED
  BY <1>1, <1>2, <1>3, <1>4, <1>5, Kinds DEF StepKind

\* The attempts of a key, but for an acquisition: kept, or those of a new owner.
CountMove(k) ==
    \/ task'[k].owner = task[k].owner /\ task'[k].attempts = task[k].attempts
    \/ task'[k].owner > lastSeq /\ task'[k].attempts = 0

LEMMA SameCount ==
    ASSUME task' = task, NEW k \in Keys
    PROVE  CountMove(k)
BY DEF CountMove

LEMMA FreezeCount ==
    ASSUME IInv, NEW ks, FreezeAll(ks), NEW k \in Keys
    PROVE  CountMove(k)
<1>1. task'[k] = task[k] \/ task'[k] = [task[k] EXCEPT !.callback = "outcome_unknown"]
  BY DEF FreezeAll
<1> QED
  BY <1>1 DEF CountMove, IInv, RowInv, RowTypes

LEMMA AdmitCount ==
    ASSUME IInv, NEW n \in Nat, NEW ks, Admit(n, ks), NEW k \in Keys
    PROVE  CountMove(k)
<1> DEFINE new == lastSeq + (CHOOSE i \in 1 .. n : ks[i] = k)
<1>1. CASE k \in {ks[i] : i \in 1 .. n}
  <2>1. (CHOOSE i \in 1 .. n : ks[i] = k) \in 1 .. n
    BY <1>1
  <2>2. task'[k].owner = new /\ task'[k].attempts = 0
    BY <1>1 DEF Admit
  <2>3. new > lastSeq
    BY <2>1, GuardRows
  <2> QED
    BY <2>2, <2>3 DEF CountMove
<1>2. CASE k \notin {ks[i] : i \in 1 .. n}
  BY <1>2 DEF Admit, CountMove
<1> QED
  BY <1>1, <1>2

LEMMA DeliverCount ==
    ASSUME ControlAssumption, IInv, NEW s \in Senders, Deliver(s) \/ Die(s), ~Acquire(s),
           NEW k \in Keys
    PROVE  CountMove(k)
<1>1. CASE AcquireFreezes(s)
  BY <1>1, AcquireFreezesExpired, FreezeCount DEF IInv
<1>2. CASE AcquireRefused(s) \/ Validate(s) \/ (\E o \in Outcomes : Post(s, o)) \/ Die(s)
  BY <1>2, SameCount DEF AcquireRefused, Validate, Post, Die
<1>3. CASE ValidateFails(s)
  BY <1>3, FreezeCount, SameCount DEF ValidateFails
<1>4. CASE Complete(s)
  <2>1. CASE HoldsLease(s) /\ IsLatest(sender[s].exec)
    <3>1. task' = [task EXCEPT ![SenderKey(s)].callback = StatusOf(sender[s].reply)]
      BY <1>4, <2>1 DEF Complete, SetCallback, SenderKey
    <3> QED
      BY <3>1 DEF CountMove, IInv, RowInv, RowTypes
  <2>2. CASE ~(HoldsLease(s) /\ IsLatest(sender[s].exec))
    BY <1>4, <2>2, SameCount DEF Complete
  <2> QED
    BY <2>1, <2>2
<1> QED
  BY <1>1, <1>2, <1>3, <1>4 DEF Deliver

LEMMA Counts ==
    ASSUME ControlAssumption, IInv, [Next]_vars, \A s \in Senders : ~Acquire(s), NEW k \in Keys
    PROVE  CountMove(k)
<1>1. CASE UNCHANGED vars
  BY <1>1, SameCount DEF vars
<1>2. CASE Admission
  <2>1. CASE \E q \in Keys : SubmitTask(q)
    BY <2>1, AdmitCount DEF SubmitTask
  <2>2. CASE \E q \in Keys : SubmitFreezes(q)
    BY <2>2, FreezeCount DEF SubmitFreezes
  <2>3. CASE \E n \in 1 .. MaxBatch : \E ks \in Batches(n) : SubmitBatch(n, ks)
    BY <2>3, AdmitCount DEF SubmitBatch, ControlAssumption
  <2> QED
    BY <1>2, <2>1, <2>2, <2>3 DEF Admission
<1>3. ASSUME NEW e \in Execs, RunExecution(e) \/ FailPoisoned(e)
      PROVE  CountMove(k)
  <2>1. task' = task \/ task' = [task EXCEPT ![KeyOf(e)].status = "terminal"]
    BY <1>3 DEF RunExecution, Claim, Finish, CheckLatest, FailPoisoned
  <2>2. task'[k].owner = task[k].owner /\ task'[k].attempts = task[k].attempts
    BY <2>1 DEF IInv, RowInv, RowTypes
  <2> QED
    BY <2>2 DEF CountMove
<1>4. CASE \E s \in Senders : Deliver(s) \/ Die(s)
  BY <1>4, DeliverCount
<1>5. CASE \E r \in Recoverers : \E q \in Keys : LoadRecoverable(r, q)
  BY <1>5, SameCount DEF LoadRecoverable
<1>6. CASE (\E q \in Keys : Expire(q) \/ Release(q)) \/ SweepRead
  BY <1>6, SameCount DEF Expire, Release, SweepRead
<1>7. CASE SweepWrite
  BY <1>7, FreezeCount DEF SweepWrite
<1> QED
  BY <1>1, <1>2, <1>3, <1>4, <1>5, <1>6, <1>7 DEF Next

Deliveries(e) == {a \in Authorized : a.exec = e}

CountInv ==
    /\ IsFiniteSet(Authorized)
    /\ \A k \in Keys : task[k].owner \in Execs =>
         task[k].attempts = Cardinality(Deliveries(task[k].owner))

LEMMA AcquireKeepsCount ==
    ASSUME ControlAssumption, IInv, LeaseInv, CountInv, NEW s \in Senders, Acquire(s)
    PROVE  CountInv'
<1> DEFINE k == SenderKey(s)
<1>e. PICK e : e = sender[s].exec
  OBVIOUS
<1>0. PICK n : n = NewEvent(s)
  OBVIOUS
<1>1. /\ n.key = k /\ n.exec = e /\ n.version = guard[k].version + 1
      /\ n.type = "authorized"
  BY <1>e, <1>0 DEF NewEvent
<1>2. /\ k \in Keys /\ e \in Execs /\ k = execution[e].key
      /\ events' = events \cup {n}
      /\ task[k].owner = e /\ task'[k].owner = e /\ task'[k].attempts = task[k].attempts + 1
      /\ \A q \in Keys \ {k} : task'[q] = task[q]
  BY <1>e, <1>0, AcquireEffect, AcquiredRecord
<1>3. Authorized' = Authorized \cup {n}
  BY <1>1, <1>2 DEF Authorized
<1>4. n \notin Authorized
  <2>1. guard[k].version \in Nat
    BY <1>2, GuardRows
  <2>2. n \in events => n.version <= guard[n.key].version
    BY DEF LeaseInv, Numbered
  <2> QED
    BY <1>1, <2>1, <2>2 DEF Authorized
<1> HIDE DEF k
<1>5. Deliveries(e)' = Deliveries(e) \cup {n}
  BY <1>1, <1>3 DEF Deliveries
<1>6. IsFiniteSet(Deliveries(e))
  <2>1. Deliveries(e) \in SUBSET Authorized
    BY DEF Deliveries
  <2> QED
    BY <2>1, FS_Subset DEF CountInv
<1>7. Cardinality(Deliveries(e) \cup {n}) = Cardinality(Deliveries(e)) + 1
  <2>1. n \notin Deliveries(e)
    BY <1>4 DEF Deliveries
  <2> QED
    BY <1>6, <2>1, FS_AddElement
<1>8. IsFiniteSet(Authorized')
  BY <1>3, FS_AddElement DEF CountInv
<1>9. ASSUME NEW q \in Keys, task'[q].owner \in Execs
      PROVE  task'[q].attempts = Cardinality(Deliveries(task[q].owner)')
  <2>1. CASE q = k
    <3>1. task[k].attempts = Cardinality(Deliveries(e))
      BY <1>2 DEF CountInv
    <3>2. task'[k].attempts = Cardinality(Deliveries(e) \cup {n})
      BY <1>2, <1>7, <3>1
    <3>3. Deliveries(task[q].owner)' = Deliveries(e) \cup {n}
      BY <1>1, <1>2, <1>3, <2>1 DEF Deliveries
    <3> QED
      BY <2>1, <3>2, <3>3
  <2>2. CASE q # k
    <3>1. task'[q] = task[q]
      BY <1>2, <2>2
    <3>2. task[q].owner # e
      <4>1. task[q].owner = e => execution[e].key = q
        BY <1>2, OwnerRow DEF IInv
      <4> QED
        BY <1>2, <2>2, <4>1
    <3>3. Deliveries(task[q].owner)' = Deliveries(task[q].owner)
      BY <1>1, <1>3, <3>1, <3>2 DEF Deliveries
    <3>4. task[q].attempts = Cardinality(Deliveries(task[q].owner))
      BY <1>9, <3>1 DEF CountInv
    <3> QED
      BY <3>1, <3>3, <3>4
  <2> QED
    BY <2>1, <2>2
<1> QED
  BY <1>8, <1>9 DEF CountInv

LEMMA CountStep ==
    ASSUME ControlAssumption, IInv, RetryInv, LeaseInv, CountInv, [Next]_vars
    PROVE  CountInv'
<1>1. CASE \E s \in Senders : Acquire(s)
  BY <1>1, AcquireKeepsCount
<1>2. CASE \A s \in Senders : ~Acquire(s)
  <2>1. Authorized' = Authorized
    BY <1>2, AuthorizedMoves
  <2>2. ASSUME NEW k \in Keys, task'[k].owner \in Execs
        PROVE  task'[k].attempts = Cardinality(Deliveries(task[k].owner)')
    <3>1. CASE task'[k].owner = task[k].owner /\ task'[k].attempts = task[k].attempts
      <4>1. Deliveries(task[k].owner)' = Deliveries(task[k].owner)
        BY <2>1, <3>1 DEF Deliveries
      <4> QED
        BY <2>2, <3>1, <4>1 DEF CountInv
    <3>2. CASE task'[k].owner > lastSeq /\ task'[k].attempts = 0
      <4>1. \A a \in Authorized : a.exec # task'[k].owner
        <5> SUFFICES ASSUME NEW a \in Authorized
                     PROVE  a.exec # task'[k].owner
          OBVIOUS
        <5>1. a.exec <= lastSeq /\ a.exec \in Nat /\ lastSeq \in Nat
          BY AuthorizedRow, GuardRows DEF RetryInv, Recorded
        <5> QED
          BY <3>2, <5>1
      <4>2. Deliveries(task[k].owner)' = {}
        BY <2>1, <4>1 DEF Deliveries
      <4> QED
        BY <3>2, <4>2, FS_EmptySet
    <3> QED
      BY <1>2, <3>1, <3>2, Counts DEF CountMove
  <2> QED
    BY <2>1, <2>2 DEF CountInv
<1> QED
  BY <1>1, <1>2

\* The audit is a ledger of the deliveries: whatever the interleaving of workers,
\* requests, sweep and operator, a lease in use is authorized and open, every other
\* one was closed once, and the attempts a projection shows are those recorded.
THEOREM LedgerKept ==
    ASSUME ControlAssumption
    PROVE  Spec => []LedgerAgrees
<1>1. Init => LeaseInv /\ CountInv
  <2> SUFFICES ASSUME Init
               PROVE  LeaseInv /\ CountInv
    OBVIOUS
  <2>1. /\ Authorized = {} /\ events = {}
        /\ \A k \in Keys : task[k].owner = NoExec /\ guard[k].state = "idle"
    BY DEF Init, Authorized
  <2>2. LeaseInv
    BY <2>1 DEF LeaseInv, Numbered, HasLease
  <2>3. CountInv
    BY <2>1, FS_EmptySet DEF CountInv, NoExec, Execs
  <2> QED
    BY <2>2, <2>3
<1>2. IInv /\ RetryInv /\ LeaseInv /\ CountInv /\ [Next]_vars => LeaseInv' /\ CountInv'
  BY LeaseStep, CountStep
<1>3. IInv /\ LeaseInv /\ CountInv => LedgerAgrees
  <2> SUFFICES ASSUME IInv, LeaseInv, CountInv
               PROVE  LedgerAgrees
    OBVIOUS
  <2>1. \A k \in Keys : guard[k].state = "sending" => \E a \in Authorized : a.key = k /\ InUse(a)
    BY DEF LeaseInv, HasLease
  <2>2. ASSUME NEW a \in Authorized
        PROVE  IF InUse(a) THEN Closings(a) = {} ELSE Cardinality(Closings(a)) = 1
    <3>1. Booked(a)
      BY DEF LeaseInv
    <3> QED
      BY <3>1, FS_Singleton DEF Booked
  <2>3. ASSUME NEW e \in Execs, IsLatest(e)
        PROVE  task[KeyOf(e)].attempts = Cardinality({a \in Authorized : a.exec = e})
    <3>1. KeyOf(e) \in Keys /\ task[KeyOf(e)].owner = e
      BY <2>3 DEF IsLatest, KeyOf, IInv, RowInv, RowTypes
    <3>2. task[KeyOf(e)].attempts = Cardinality(Deliveries(e))
      BY <3>1 DEF CountInv
    <3> QED
      BY <3>2 DEF Deliveries
  <2> QED
    BY <2>1, <2>2, <2>3 DEF LedgerAgrees
<1> QED
  BY <1>1, <1>2, <1>3, RetryInvariant, PTL DEF Spec

-----------------------------------------------------------------------------
(* What reaches the receiver.                                              *)

\* A check-task request has delivered for k.
Retried(k) == \E a \in Authorized : a.key = k /\ a.trigger = "explicit_check_task_recovery"

\* A thread in a delivery delivers the execution that owns the key, or an older one
\* after a request has retried; the receiver has seen nothing newer than the owner.
PostInv ==
    /\ \A s \in Senders : Delivering(s) =>
         /\ sender[s].exec <= task[SenderKey(s)].owner
         /\ task[SenderKey(s)].owner = sender[s].exec \/ Retried(SenderKey(s))
    /\ \A k \in Keys : lastPosted[k] <= task[k].owner

LEMMA PostedRow ==
    ASSUME IInv, NEW k \in Keys
    PROVE  lastPosted[k] \in Nat
<1>1. lastPosted \in [Keys -> Ids]
  BY DEF IInv, ThreadInv, ThreadTypes
<1>2. Ids \subseteq Nat
  BY DEF Ids, Execs, NoExec
<1> QED
  BY <1>1, <1>2

LEMMA PostedMove ==
    ASSUME ControlAssumption, IInv, [Next]_vars, NEW k \in Keys
    PROVE  \/ lastPosted'[k] = lastPosted[k]
           \/ \E s \in Senders : /\ Delivering(s) /\ SenderKey(s) = k
                                 /\ lastPosted'[k] = sender[s].exec
                                 /\ task' = task
<1>1. CASE lastPosted' = lastPosted
  BY <1>1
<1>2. ASSUME NEW s \in Senders, NEW o \in Outcomes, Post(s, o)
      PROVE  \/ lastPosted'[k] = lastPosted[k]
             \/ /\ Delivering(s) /\ SenderKey(s) = k
                /\ lastPosted'[k] = sender[s].exec
                /\ task' = task
  <2>1. /\ Delivering(s) /\ task' = task
        /\ \/ lastPosted' = lastPosted
           \/ lastPosted' = [lastPosted EXCEPT ![SenderKey(s)] = sender[s].exec]
    BY <1>2 DEF Post, Delivering
  <2>2. lastPosted \in [Keys -> Ids]
    BY ThreadRow, <1>2 DEF IInv
  <2> QED
    BY <2>1, <2>2
<1>3. CASE UNCHANGED vars
  BY <1>1, <1>3 DEF vars
<1>4. CASE Admission
  BY <1>1, <1>4 DEF Admission, SubmitTask, SubmitBatch, SubmitFreezes, Admit
<1>5. CASE \E e \in Execs : RunExecution(e) \/ FailPoisoned(e)
  BY <1>1, <1>5 DEF RunExecution, Claim, Finish, CheckLatest, FailPoisoned
<1>6. ASSUME NEW s \in Senders, Deliver(s) \/ Die(s), \A o \in Outcomes : ~Post(s, o)
      PROVE  lastPosted' = lastPosted
  BY <1>6 DEF Deliver, Die, Acquire, AcquireFreezes, AcquireRefused, Validate,
              ValidateFails, Complete
<1>7. CASE \E r \in Recoverers : \E q \in Keys : LoadRecoverable(r, q)
  BY <1>1, <1>7 DEF LoadRecoverable
<1>8. CASE (\E q \in Keys : Expire(q) \/ Release(q)) \/ SweepRead \/ SweepWrite
  BY <1>1, <1>8 DEF Expire, Release, SweepRead, SweepWrite
<1> QED
  BY <1>1, <1>2, <1>3, <1>4, <1>5, <1>6, <1>7, <1>8 DEF Next

LEMMA RetriedStays ==
    ASSUME ControlAssumption, IInv, [Next]_vars, NEW k, Retried(k)
    PROVE  Retried(k)'
BY MoreAuthorized DEF Retried

\* The owner of a key changes to a newer execution, and only under an idle Guard.
LEMMA OwnerMove ==
    ASSUME ControlAssumption, IInv, [Next]_vars, NEW k \in Keys
    PROVE  /\ task[k].owner \in Nat /\ task'[k].owner \in Nat
           /\ task[k].owner <= task'[k].owner
           /\ task'[k].owner # task[k].owner => guard[k].state = "idle"
<1>1. task[k].owner \in Nat /\ task[k].owner <= lastSeq /\ lastSeq \in Nat
  BY GuardRows DEF IInv, RowInv, RowTypes, RowShape, Ids, Execs, NoExec
<1>2. task'[k].owner \in Nat
  <2>1. RowTypes'
    BY NextKeepsRows DEF RowInv
  <2> QED
    BY <2>1 DEF RowTypes, Ids, Execs, NoExec
<1>3. task[k].owner <= task'[k].owner
  <2>1. AttemptMove(k)
    BY Attempts
  <2> QED
    BY <1>1, <1>2, <2>1 DEF AttemptMove
<1>4. task'[k].owner # task[k].owner => guard[k].state = "idle"
  <2>1. KeyMove(k)
    BY Moves
  <2>2. task'[k].owner # task[k].owner => BlockReason(k) = "none"
    BY <2>1 DEF KeyMove, Quiet, Submitted, Frozen, Acquired, Released, Completed
  <2> QED
    BY <2>2, OpenKey DEF IInv, RowInv
<1> QED
  BY <1>1, <1>2, <1>3, <1>4

LEMMA PostStep ==
    ASSUME ControlAssumption, IInv, FenceInv, PostInv, [Next]_vars
    PROVE  PostInv'
<1>1. ASSUME NEW s \in Senders, Delivering(s)'
      PROVE  /\ sender'[s].exec <= task'[SenderKey(s)'].owner
             /\ task'[SenderKey(s)'].owner = sender'[s].exec \/ Retried(SenderKey(s))'
  <2> DEFINE k == SenderKey(s)
  <2>1. CASE Acquire(s)
    <3>1. /\ k \in Keys /\ task[k].owner = sender[s].exec /\ task'[k].owner = task[k].owner
          /\ sender'[s].exec = sender[s].exec
      BY <2>1, AcquireEffect, AcquireThread
    <3>2. SenderKey(s)' = k
      BY <2>1, <3>1, AcquiredRecord DEF SenderKey, KeyOf
    <3>3. task[k].owner \in Nat
      BY <3>1, OwnerMove
    <3> QED
      BY <3>1, <3>2, <3>3
  <2>2. CASE Stayed(s)
    <3>1. /\ Delivering(s) /\ k \in Keys /\ SenderKey(s)' = k
          /\ sender'[s].exec = sender[s].exec
      BY <2>2, VersionRow DEF Stayed
    <3>2. /\ task[k].owner \in Nat /\ task'[k].owner \in Nat
          /\ task[k].owner <= task'[k].owner
          /\ task'[k].owner # task[k].owner => guard[k].state = "idle"
      BY <3>1, OwnerMove
    <3>3. /\ sender[s].exec <= task[k].owner
          /\ task[k].owner = sender[s].exec \/ Retried(k)
      BY <3>1 DEF PostInv
    <3>4. sender[s].exec \in Nat
      BY <3>1, ThreadRow, GuardRows DEF IInv, Delivering
    <3>5. guard[k].state = "idle" => Retried(k)
      BY <3>1 DEF FenceInv, Fenced, Reopened, Retried
    <3>6. Retried(k) => Retried(SenderKey(s))'
      <4> SUFFICES ASSUME NEW a \in Authorized, a.key = k,
                          a.trigger = "explicit_check_task_recovery"
                   PROVE  Retried(SenderKey(s))'
        BY DEF Retried
      <4>1. a \in Authorized' /\ a.key = SenderKey(s)'
        BY <3>1, MoreAuthorized
      <4> QED
        BY <4>1 DEF Retried
    <3> QED
      BY <3>1, <3>2, <3>3, <3>4, <3>5, <3>6
  <2> QED
    BY <1>1, <2>1, <2>2, DeliversOn
<1>2. ASSUME NEW k \in Keys
      PROVE  lastPosted'[k] <= task'[k].owner
  <2>1. CASE lastPosted'[k] = lastPosted[k]
    <3>1. lastPosted[k] <= task[k].owner /\ lastPosted[k] \in Nat
      BY PostedRow DEF PostInv
    <3> QED
      BY <2>1, <3>1, OwnerMove
  <2>2. ASSUME NEW s \in Senders, Delivering(s), SenderKey(s) = k,
               lastPosted'[k] = sender[s].exec, task' = task
        PROVE  lastPosted'[k] <= task'[k].owner
    BY <2>2 DEF PostInv
  <2> QED
    BY <2>1, <2>2, PostedMove
<1> QED
  BY <1>1, <1>2 DEF PostInv

LEMMA PostInvariant ==
    ASSUME ControlAssumption
    PROVE  Spec => [](IInv /\ PostInv)
<1>1. Init => FenceInv /\ PostInv
  <2> SUFFICES ASSUME Init
               PROVE  FenceInv /\ PostInv
    OBVIOUS
  <2>1. \A s \in Senders : ~Delivering(s)
    BY IdleThread DEF Init, Delivering
  <2>2. \A k \in Keys : lastPosted[k] <= task[k].owner
    BY DEF Init, NoExec
  <2> QED
    BY <2>1, <2>2 DEF FenceInv, Fenced, Ordered, PostInv
<1>2. IInv /\ FenceInv /\ [Next]_vars => FenceInv'
  BY FencedStays, OrderedStays DEF FenceInv
<1>3. IInv /\ FenceInv /\ PostInv /\ [Next]_vars => PostInv'
  BY PostStep
<1> QED
  BY <1>1, <1>2, <1>3, Invariant, PTL DEF Spec

LEMMA PostedLater ==
    ASSUME ControlAssumption, IInv, PostInv, [Next]_vars, NEW k \in Keys
    PROVE  lastPosted'[k] >= lastPosted[k] \/ Retried(k)
<1>1. lastPosted[k] <= task[k].owner /\ lastPosted[k] \in Nat
  BY PostedRow DEF PostInv
<1>2. CASE lastPosted'[k] = lastPosted[k]
  BY <1>1, <1>2
<1>3. ASSUME NEW s \in Senders, Delivering(s), SenderKey(s) = k,
             lastPosted'[k] = sender[s].exec
      PROVE  lastPosted'[k] >= lastPosted[k] \/ Retried(k)
  <2>1. task[k].owner = sender[s].exec \/ Retried(k)
    BY <1>3 DEF PostInv
  <2>2. task[k].owner \in Nat
    BY OwnerMove
  <2> QED
    BY <1>1, <1>3, <2>1, <2>2
<1> QED
  BY <1>2, <1>3, PostedMove

\* A receiver that gets an execution after a newer one of the same key owes it to a
\* check-task request that has delivered for that key: workers, the sweep and the
\* operator's release alone never reorder results.
THEOREM OnlyRequestsReorder ==
    ASSUME ControlAssumption
    PROVE  Spec => [][\A k \in Keys : lastPosted'[k] >= lastPosted[k] \/ Retried(k)]_vars
<1>1. IInv /\ PostInv /\ [Next]_vars =>
        \A k \in Keys : lastPosted'[k] >= lastPosted[k] \/ Retried(k)
  BY PostedLater
<1> QED
  BY <1>1, PostInvariant, PTL DEF Spec

\* So while no check-task request is served at all, as in the run on files, the
\* receiver gets the executions of a key in their order.
COROLLARY NewestLastWithoutRequests ==
    ASSUME ControlAssumption, Recoverers = {}
    PROVE  Spec => NewestPostedLast
<1> DEFINE NoneRetried == \A k \in Keys : ~Retried(k)
<1>1. Init => NoneRetried
  BY DEF Init, Retried, Authorized
<1>2. IInv /\ NoneRetried /\ [Next]_vars => NoneRetried'
  <2> SUFFICES ASSUME IInv, NoneRetried, [Next]_vars, NEW k \in Keys, Retried(k)'
               PROVE  FALSE
    OBVIOUS
  <2>1. PICK a \in Authorized' : a.key = k /\ a.trigger = "explicit_check_task_recovery"
    BY DEF Retried
  <2>2. a \notin Authorized
    BY <2>1 DEF Retried
  <2>3. PICK s \in Senders : a = NewEvent(s)
    BY <2>2, AuthorizedMoves
  <2> QED
    BY <2>1, <2>3 DEF NewEvent, Trigger
<1>3. IInv /\ PostInv /\ NoneRetried /\ [Next]_vars =>
        \A k \in Keys : lastPosted'[k] >= lastPosted[k]
  BY PostedLater
<1> QED
  BY <1>1, <1>2, <1>3, PostInvariant, PTL DEF Spec, NewestPostedLast

=============================================================================
