------------------------- MODULE DispatcherProofs -------------------------
(***************************************************************************)
(* What holds of the dispatcher's lifecycle for every number of processes, *)
(* helpers, tasks, failures and crashes, when one thread of a process      *)
(* calls start, stop and close, and never calls start while an earlier     *)
(* start or stop is under way.                                             *)
(***************************************************************************)
EXTENDS Dispatcher, FiniteSetTheorems, TLAPS

\* The caller container.py has: one, which starts what is new or over.
OneCaller ==
    /\ \A c1, c2 \in Callers : c1 = c2
    /\ CalledInStates \cap {"starting", "running", "stopping"} = {}

\* A thread that is none of these may still touch tasks and needs the lock.
Quiet  == Gone \cup {"completing", "releasing"}
Places == Looping \cup Quiet \cup {"aborting", "finally"}
Calls  == [op : {"none", "start", "stop", "close"},
           at : {"idle", "failing", "marking", "joining", "completing", "releasing",
                 "returning"},
           threads : SUBSET Threads]

Shape ==
    /\ lock \in Dispatchers \cup {None}
    /\ life \in [Dispatchers -> Lifecycle \cup {"dead"}]
    /\ holds \in [Dispatchers -> BOOLEAN]
    /\ stop \in [Dispatchers -> BOOLEAN]
    /\ finished \in [Dispatchers -> SUBSET Threads]
    /\ pc \in [Dispatchers -> [Threads -> Places]]
    /\ caller \in [Dispatchers -> [Callers -> Calls]]

\* The flag is the lock, and threads that are not quiet have it.
Guarded(d) ==
    /\ holds[d] <=> lock = d
    /\ \A t \in Threads : pc[d][t] \notin Quiet => holds[d]

\* A finished event is set for quiet threads only.
Marked(d) == \A t \in finished[d] : pc[d][t] \in Quiet

\* Outside starting, running and stopping every thread is quiet.
Resting(d) ==
    life[d] \notin {"starting", "running", "stopping"} =>
        \A t \in Threads : pc[d][t] \in Quiet

\* A start that fails knows every thread it has started.
Starting(d) ==
    \A c \in Callers :
        AtCall(d, c, {"start"}, "failing") \/ AtCall(d, c, {"start"}, "marking") =>
            \A t \in Threads \ caller[d][c].threads : pc[d][t] \in Quiet

\* A stop waits for every thread there is, and goes on when none is left.
Stopping(d) ==
    \A c \in Callers : caller[d][c].op \in {"stop", "close"} =>
        /\ caller[d][c].at = "joining" =>
              \A t \in Threads \ caller[d][c].threads : pc[d][t] \in Gone
        /\ caller[d][c].at \in {"completing", "releasing", "returning"} =>
              \A t \in Threads : pc[d][t] \in Gone

\* The lock is about to be released only when every thread has finished.
Releasing(d) ==
    /\ \A c \in Callers : caller[d][c].at = "releasing" => finished[d] = Threads
    /\ \A t \in Threads : pc[d][t] = "releasing" => finished[d] = Threads

\* Whoever has decided to stop has set the stop event first.
Signalled(d) ==
    /\ \A c \in Callers : AtCall(d, c, {"start"}, "marking") => stop[d]
    /\ \A t \in Threads : pc[d][t] = "aborting" => stop[d]
    /\ ~stop[d] /\ life[d] \notin {"starting", "running"} =>
          \A t \in Threads : pc[d][t] \in Quiet

Safe(d) == /\ Guarded(d) /\ Marked(d) /\ Resting(d) /\ Starting(d)
           /\ Stopping(d) /\ Releasing(d) /\ Signalled(d)

IInv == Shape /\ \A d \in Dispatchers : Safe(d)

-----------------------------------------------------------------------------
(* Frames.                                                                 *)

\* A process is as safe as it was if nothing of it changes.
LEMMA Elsewhere ==
    ASSUME NEW e \in Dispatchers, Safe(e),
           (lock = e) <=> (lock' = e),
           life'[e] = life[e], holds'[e] = holds[e], stop'[e] = stop[e],
           finished'[e] = finished[e], pc'[e] = pc[e], caller'[e] = caller[e]
    PROVE  Safe(e)'
<1>1. Guarded(e)' /\ Marked(e)' /\ Resting(e)'
  BY DEF Safe, Guarded, Marked, Resting
<1>2. Starting(e)' /\ Stopping(e)'
  BY DEF Safe, Starting, Stopping, AtCall
<1>3. Releasing(e)' /\ Signalled(e)'
  BY DEF Safe, Releasing, Signalled, AtCall
<1> QED
  BY <1>1, <1>2, <1>3 DEF Safe

\* The variables the invariant speaks of.
LEMMA Untouched ==
    ASSUME IInv, UNCHANGED <<lock, life, holds, stop, finished, pc, caller>>
    PROVE  IInv'
<1>1. Shape'
  BY DEF IInv, Shape
<1>2. ASSUME NEW e \in Dispatchers PROVE Safe(e)'
  BY <1>2, Elsewhere DEF IInv
<1> QED
  BY <1>1, <1>2 DEF IInv

-----------------------------------------------------------------------------
(* Threads.                                                                *)

\* A thread goes on, in its loop or out of it, and may raise the stop event.
LEMMA Onward ==
    ASSUME IInv, NEW d \in Dispatchers, NEW t \in Threads, NEW p \in Places \ Quiet,
           pc[d][t] \notin Quiet, Go(d, t, p),
           UNCHANGED <<lock, life, holds, finished, caller>>,
           stop' = stop \/ stop' = Raise(stop, d),
           p = "aborting" => stop'[d]
    PROVE  IInv'
<1>1. pc' \in [Dispatchers -> [Threads -> Places]] /\ stop' \in [Dispatchers -> BOOLEAN]
  BY DEF IInv, Shape, Go, Raise
<1>2. Shape'
  BY <1>1 DEF IInv, Shape
<1>3. /\ pc'[d][t] = p
      /\ \A u \in Threads \ {t} : pc'[d][u] = pc[d][u]
      /\ stop[d] => stop'[d]
  BY DEF IInv, Shape, Go, Raise
<1>4. ASSUME NEW e \in Dispatchers \ {d} PROVE Safe(e)'
  <2>1. pc'[e] = pc[e] /\ stop'[e] = stop[e]
    BY DEF IInv, Shape, Go, Raise
  <2> QED
    BY <2>1, Elsewhere DEF IInv
<1>5. Safe(d)
  BY DEF IInv
<1>6. Safe(d)'
  <2>1. Guarded(d)' /\ Marked(d)' /\ Resting(d)'
    BY <1>3, <1>5 DEF Safe, Guarded, Marked, Resting, IInv, Shape
  <2>2. Starting(d)' /\ Stopping(d)'
    BY <1>3, <1>5 DEF Safe, Starting, Stopping, AtCall, Quiet
  <2>3. Releasing(d)'
    BY <1>3, <1>5 DEF Safe, Releasing, Quiet
  <2>4. Signalled(d)'
    BY <1>3, <1>5 DEF Safe, Signalled, AtCall
  <2> QED
    BY <2>1, <2>2, <2>3, <2>4 DEF Safe
<1> QED
  BY <1>2, <1>4, <1>6 DEF IInv

\* The worker's own steps.
LEMMA WorkSafe ==
    ASSUME IInv, NEW d \in Dispatchers, Work(d) \/ WorkFails(d)
    PROVE  IInv'
<1> USE DEF Places, Looping, Quiet, Gone
<1>0. Worker \in Threads
  BY DEF Threads
<1>1. CASE WorkerTop(d)
  <2>1. \E p \in Places \ Quiet : Go(d, Worker, p)
    BY <1>1 DEF WorkerTop
  <2> QED
    BY <1>0, <1>1, <2>1, Onward DEF WorkerTop, At, clients
<1>2. CASE Scan(d) \/ ScanFails(d)
  BY <1>0, <1>2, Onward DEF Scan, ScanFails, At, control, clients
<1>3. CASE NextItem(d)
  <2>1. \E p \in Places \ Quiet : Go(d, Worker, p)
    BY <1>3 DEF NextItem, Abandon
  <2> QED
    BY <1>0, <1>3, <2>1, Onward DEF NextItem, At, control, clients
<1>4. CASE Permit(d) \/ Begin(d)
  <2>1. \E p \in Places \ Quiet : Go(d, Worker, p)
    BY <1>4 DEF Permit, Begin, Abandon
  <2> QED
    BY <1>0, <1>4, <2>1, Onward DEF Permit, Begin, At, control, clients
<1>5. CASE Execute(d)
  <2>1. \E p \in Places \ Quiet : Go(d, Worker, p)
    BY <1>5 DEF Execute
  <2> QED
    BY <1>0, <1>5, <2>1, Onward DEF Execute, At, control, clients
<1>6. CASE ExecuteRaises(d) \/ ExecuteEnds(d) \/ RunRaises(d)
  BY <1>0, <1>6, Onward DEF ExecuteRaises, ExecuteEnds, RunRaises, At, control, clients
<1>7. CASE ReturnPermit(d) \/ ReturnFails(d)
  BY <1>0, <1>7, Onward DEF ReturnPermit, ReturnFails, At, control, clients
<1>8. CASE Defer(d) \/ DeferFails(d)
  BY <1>8, Untouched DEF Defer, DeferFails, control, clients
<1>9. CASE Decide(d)
  <2>1. \E p \in Places \ Quiet : Go(d, Worker, p)
    BY <1>9 DEF Decide
  <2> QED
    BY <1>0, <1>9, <2>1, Onward DEF Decide, At, control, clients
<1>10. CASE WakeUp(d)
  BY <1>0, <1>10, Onward DEF WakeUp, At, control, clients
<1> QED
  BY <1>1, <1>2, <1>3, <1>4, <1>5, <1>6, <1>7, <1>8, <1>9, <1>10 DEF Work, WorkFails

\* A thread that aborts, and a helper that sees the stop event.
LEMMA LeavingSafe ==
    ASSUME IInv, NEW d \in Dispatchers, NEW t \in Threads,
           Aborts(d, t) \/ HelperStops(d, t)
    PROVE  IInv'
<1> USE DEF Places, Looping, Quiet, Gone
<1>1. CASE Aborts(d, t)
  <2>1. stop'[d]
    BY <1>1 DEF Aborts, Raise, IInv, Shape
  <2> QED
    BY <1>1, <2>1, Onward DEF Aborts, clients
<1>2. CASE HelperStops(d, t)
  BY <1>2, Onward DEF HelperStops, At, control, clients
<1> QED
  BY <1>1, <1>2

\* The lifecycle follows the abort: the stop event is set already.
LEMMA AbortMarksSafe ==
    ASSUME IInv, NEW d \in Dispatchers, NEW t \in Threads, AbortMarks(d, t)
    PROVE  IInv'
<1> DEFINE marked == IF Over(d) THEN life[d] ELSE "stopping"
<1>1. /\ pc[d][t] = "aborting"
      /\ life' = [life EXCEPT ![d] = marked]
      /\ pc' = [pc EXCEPT ![d][t] = "finally"]
      /\ UNCHANGED <<lock, holds, stop, finished, caller>>
  BY DEF AbortMarks, At, Go, clients
<1>2. life[d] \in Lifecycle \cup {"dead"} /\ Safe(d)
  BY DEF IInv, Shape
<1>3. stop[d] /\ life[d] \in {"starting", "running", "stopping"}
  BY <1>1, <1>2 DEF Safe, Signalled, Resting, Quiet, Gone
<1>4. life'[d] = "stopping" /\ pc'[d][t] = "finally"
      /\ \A u \in Threads \ {t} : pc'[d][u] = pc[d][u]
  BY <1>1, <1>3 DEF IInv, Shape, Over
<1>5. Shape'
  BY <1>1, <1>3 DEF IInv, Shape, Over, Lifecycle, Places
<1>6. ASSUME NEW e \in Dispatchers \ {d} PROVE Safe(e)'
  BY <1>1, Elsewhere DEF IInv, Shape
<1>7. Safe(d)'
  <2> USE DEF Quiet, Gone
  <2>1. Guarded(d)' /\ Marked(d)' /\ Resting(d)'
    BY <1>1, <1>2, <1>4 DEF Safe, Guarded, Marked, Resting
  <2>2. Starting(d)' /\ Stopping(d)'
    BY <1>1, <1>2, <1>4 DEF Safe, Starting, Stopping, AtCall
  <2>3. Releasing(d)'
    BY <1>1, <1>2, <1>4 DEF Safe, Releasing
  <2>4. Signalled(d)'
    BY <1>1, <1>2, <1>3, <1>4 DEF Safe, Signalled, AtCall
  <2> QED
    BY <2>1, <2>2, <2>3, <2>4 DEF Safe
<1> QED
  BY <1>5, <1>6, <1>7 DEF IInv

\* A thread ends: it is quiet from the moment its finished event is set.
LEMMA ThreadFinishesSafe ==
    ASSUME IInv, NEW d \in Dispatchers, NEW t \in Threads, ThreadFinishes(d, t)
    PROVE  IInv'
<1>1. /\ pc[d][t] = "finally"
      /\ finished' = [finished EXCEPT ![d] = @ \cup {t}]
      /\ pc' = [pc EXCEPT ![d][t] = "completing"]
      /\ UNCHANGED <<lock, life, holds, stop, caller>>
  BY DEF ThreadFinishes, At, Go, clients
<1>2. Safe(d)
  BY DEF IInv
<1>3. /\ finished'[d] = finished[d] \cup {t} /\ pc'[d][t] = "completing"
      /\ \A u \in Threads \ {t} : pc'[d][u] = pc[d][u]
      /\ finished[d] \subseteq Threads
  BY <1>1 DEF IInv, Shape
<1>4. Shape'
  BY <1>1 DEF IInv, Shape, Places, Quiet
<1>5. ASSUME NEW e \in Dispatchers \ {d} PROVE Safe(e)'
  BY <1>1, Elsewhere DEF IInv, Shape
<1>6. Safe(d)'
  <2> USE DEF Quiet, Gone
  <2>1. Guarded(d)' /\ Marked(d)' /\ Resting(d)'
    BY <1>1, <1>2, <1>3 DEF Safe, Guarded, Marked, Resting
  <2>2. Starting(d)' /\ Stopping(d)'
    BY <1>1, <1>2, <1>3 DEF Safe, Starting, Stopping, AtCall
  <2>3. Releasing(d)'
    BY <1>1, <1>2, <1>3 DEF Safe, Releasing
  <2>4. Signalled(d)'
    BY <1>1, <1>2, <1>3 DEF Safe, Signalled, AtCall
  <2> QED
    BY <2>1, <2>2, <2>3, <2>4 DEF Safe
<1> QED
  BY <1>4, <1>5, <1>6 DEF IInv

\* The lifecycle becomes "stopped" only when nothing is left to finish.
LEMMA ThreadCompletesSafe ==
    ASSUME IInv, NEW d \in Dispatchers, NEW t \in Threads, ThreadCompletes(d, t)
    PROVE  IInv'
<1> DEFINE place  == IF AllFinished(d) THEN "releasing" ELSE "gone"
           marked == IF AllFinished(d) /\ life[d] # "closed" THEN "stopped" ELSE life[d]
<1>1. /\ pc[d][t] = "completing"
      /\ life' = [life EXCEPT ![d] = marked]
      /\ pc' = [pc EXCEPT ![d][t] = place]
      /\ UNCHANGED <<lock, holds, stop, finished, caller>>
  BY DEF ThreadCompletes, MarkStopped, At, Go, clients
<1>2. Safe(d)
  BY DEF IInv
<1>3. /\ life'[d] = marked /\ pc'[d][t] = place
      /\ \A u \in Threads \ {t} : pc'[d][u] = pc[d][u]
      /\ place = "releasing" => finished[d] = Threads
      /\ place \in Quiet
      /\ \A u \in finished[d] : pc'[d][u] \in Quiet
  BY <1>1, <1>2 DEF IInv, Shape, AllFinished, Quiet, Gone, Safe, Marked
<1>4. Shape'
  BY <1>1 DEF IInv, Shape, Places, Quiet, Gone, Lifecycle
<1>5. ASSUME NEW e \in Dispatchers \ {d} PROVE Safe(e)'
  BY <1>1, Elsewhere DEF IInv, Shape
<1>6. marked = life[d] \/ \A u \in Threads : pc'[d][u] \in Quiet
  BY <1>3 DEF AllFinished
<1>7. Safe(d)'
  <2> HIDE DEF place, marked
  <2>1. Guarded(d)' /\ Marked(d)' /\ Resting(d)'
    BY <1>1, <1>2, <1>3, <1>6 DEF Safe, Guarded, Marked, Resting
  <2>2. Starting(d)'
    BY <1>1, <1>2, <1>3 DEF Safe, Starting, AtCall
  <2>3. Stopping(d)'
    BY <1>1, <1>2, <1>3 DEF Safe, Stopping, AtCall, Gone
  <2>4. Releasing(d)'
    BY <1>1, <1>2, <1>3 DEF Safe, Releasing
  <2>5. Signalled(d)'
    BY <1>1, <1>2, <1>3, <1>6 DEF Safe, Signalled, AtCall, Quiet, Gone
  <2> QED
    BY <2>1, <2>2, <2>3, <2>4, <2>5 DEF Safe
<1> QED
  BY <1>4, <1>5, <1>7 DEF IInv

\* The file lock is given back: nobody who needs it is left.
LEMMA Unguarded ==
    ASSUME IInv, NEW d \in Dispatchers, finished[d] = Threads, ReleaseLock(d),
           UNCHANGED <<life, stop, finished>>,
           pc'[d] = pc[d] \/ \E t \in Threads : /\ pc[d][t] = "releasing"
                                                /\ pc'[d] = [pc[d] EXCEPT ![t] = "gone"],
           \A c \in Callers : \/ caller'[d][c] = caller[d][c]
                              \/ /\ caller[d][c].at = "releasing"
                                 /\ caller'[d][c].op = caller[d][c].op
                                 /\ caller'[d][c].at = "returning"
    PROVE  Safe(d)'
<1>1. Safe(d) /\ \A u \in Threads : pc[d][u] \in Quiet
  BY DEF IInv, Safe, Marked
<1>2. /\ \A u \in Threads : pc'[d][u] \in Quiet
      /\ \A u \in Threads : pc'[d][u] \in Gone \/ pc'[d][u] = pc[d][u]
  BY <1>1 DEF IInv, Shape, Quiet, Gone
<1>3. holds'[d] = FALSE /\ lock' # d
  BY <1>1, DispatcherAssumption DEF IInv, Shape, ReleaseLock, Safe, Guarded
<1>4. \A c \in Callers :
         /\ caller'[d][c].op = caller[d][c].op
         /\ \/ caller'[d][c] = caller[d][c]
            \/ caller[d][c].at = "releasing" /\ caller'[d][c].at = "returning"
  OBVIOUS
<1>5. Guarded(d)' /\ Marked(d)' /\ Resting(d)'
  BY <1>2, <1>3 DEF Guarded, Marked, Resting, IInv, Shape
<1>6. Starting(d)'
  BY <1>2 DEF Starting
<1>7. Stopping(d)'
  BY <1>1, <1>2, <1>4 DEF Safe, Stopping
<1>8. Releasing(d)'
  BY DEF Releasing
<1>9. Signalled(d)'
  BY <1>1, <1>2, <1>4 DEF Safe, Signalled, AtCall, Quiet, Gone
<1> QED
  BY <1>5, <1>6, <1>7, <1>8, <1>9 DEF Safe

\* Other processes do not notice.
LEMMA ReleaseElsewhere ==
    ASSUME IInv, NEW d \in Dispatchers, ReleaseLock(d), NEW e \in Dispatchers \ {d}
    PROVE  (lock = e <=> lock' = e) /\ holds'[e] = holds[e]
  BY DispatcherAssumption DEF IInv, Shape, ReleaseLock, Safe, Guarded

\* The last thread gives the lock back.
LEMMA ThreadReleasesSafe ==
    ASSUME IInv, NEW d \in Dispatchers, NEW t \in Threads, ThreadReleases(d, t)
    PROVE  IInv'
<1>1. /\ pc[d][t] = "releasing"
      /\ pc' = [pc EXCEPT ![d][t] = "gone"]
      /\ ReleaseLock(d)
      /\ UNCHANGED <<life, stop, finished, caller>>
  BY DEF ThreadReleases, At, Go, clients
<1>2. Shape'
  BY <1>1 DEF IInv, Shape, ReleaseLock, Places, Quiet, Gone
<1>3. ASSUME NEW e \in Dispatchers \ {d} PROVE Safe(e)'
  BY <1>1, Elsewhere, ReleaseElsewhere DEF IInv, Shape
<1>4. finished[d] = Threads
  BY <1>1 DEF IInv, Safe, Releasing
<1>5. pc'[d] = [pc[d] EXCEPT ![t] = "gone"]
  BY <1>1 DEF IInv, Shape
<1>6. Safe(d)'
  <2>1. \A c \in Callers : caller'[d][c] = caller[d][c]
    BY <1>1
  <2> QED
    BY <1>1, <1>4, <1>5, <2>1, Unguarded
<1> QED
  BY <1>2, <1>3, <1>6 DEF IInv

-----------------------------------------------------------------------------
(* Calls.                                                                  *)

\* What a call's step does to the calls of its process: there is no other call.
LEMMA OnlyCall ==
    ASSUME OneCaller, IInv, NEW d \in Dispatchers, NEW c \in Callers, NEW r \in Calls,
           caller' = [caller EXCEPT ![d][c] = r]
    PROVE  /\ caller' \in [Dispatchers -> [Callers -> Calls]]
           /\ \A b \in Callers : b = c /\ caller'[d][b] = r
           /\ \A e \in Dispatchers \ {d} : caller'[e] = caller[e]
  BY DEF OneCaller, IInv, Shape

\* The call moves to another place and keeps the rest.
LEMMA CallMoves ==
    ASSUME OneCaller, IInv, NEW d \in Dispatchers, NEW c \in Callers,
           NEW at \in {"marking", "joining", "releasing", "returning"}, Move(d, c, at)
    PROVE  \E r \in Calls : /\ caller' = [caller EXCEPT ![d][c] = r]
                            /\ r.op = caller[d][c].op /\ r.at = at
                            /\ r.threads = caller[d][c].threads
<1> DEFINE r == [caller[d][c] EXCEPT !.at = at]
<1>1. caller[d][c] \in Calls
  BY DEF IInv, Shape
<1>2. r \in Calls /\ r.op = caller[d][c].op /\ r.at = at /\ r.threads = caller[d][c].threads
  BY <1>1 DEF Calls
<1>3. caller' = [caller EXCEPT ![d][c] = r]
  BY DEF Move, IInv, Shape
<1> QED
  BY <1>2, <1>3

\* A start that fails raises the stop event, then accounts for its threads.
LEMMA StartSetsStopSafe ==
    ASSUME OneCaller, IInv, NEW d \in Dispatchers, NEW c \in Callers, StartSetsStop(d, c)
    PROVE  IInv'
<1>1. /\ caller[d][c].op = "start" /\ caller[d][c].at = "failing"
      /\ stop' = [stop EXCEPT ![d] = TRUE] /\ Move(d, c, "marking")
      /\ UNCHANGED <<lock, life, holds, finished, pc>>
  BY DEF StartSetsStop, AtCall, Raise
<1>2. PICK r \in Calls : /\ caller' = [caller EXCEPT ![d][c] = r]
                         /\ r.op = "start" /\ r.at = "marking"
                         /\ r.threads = caller[d][c].threads
  BY <1>1, CallMoves
<1>3. /\ \A b \in Callers : b = c /\ caller'[d][b] = r
      /\ stop'[d] = TRUE
  <2>1. \A b \in Callers : b = c /\ caller'[d][b] = r
    BY <1>2, OnlyCall
  <2>2. stop'[d] = TRUE
    BY <1>1 DEF IInv, Shape
  <2> QED
    BY <2>1, <2>2
<1>4. Shape'
  BY <1>1, <1>2, OnlyCall DEF IInv, Shape
<1>5. ASSUME NEW e \in Dispatchers \ {d} PROVE Safe(e)'
  BY <1>1, <1>2, OnlyCall, Elsewhere DEF IInv, Shape
<1>6. Safe(d)
  BY DEF IInv
<1>7. Safe(d)'
  <2>1. Guarded(d)' /\ Marked(d)' /\ Resting(d)'
    BY <1>1, <1>6 DEF Safe, Guarded, Marked, Resting
  <2>2. Starting(d)' /\ Stopping(d)'
    BY <1>1, <1>2, <1>3, <1>6 DEF Safe, Starting, Stopping, AtCall
  <2>3. Releasing(d)' /\ Signalled(d)'
    BY <1>1, <1>2, <1>3, <1>6 DEF Safe, Releasing, Signalled, AtCall
  <2> QED
    BY <2>1, <2>2, <2>3 DEF Safe
<1> QED
  BY <1>4, <1>5, <1>7 DEF IInv

\* Threads that were never started count as finished.
LEMMA StartMarksSafe ==
    ASSUME OneCaller, IInv, NEW d \in Dispatchers, NEW c \in Callers, StartMarks(d, c)
    PROVE  IInv'
<1>1. /\ caller[d][c].op = "start" /\ caller[d][c].at = "marking"
      /\ finished' = [finished EXCEPT ![d] = @ \cup (Threads \ caller[d][c].threads)]
      /\ life' = [life EXCEPT ![d] = "stopping"] /\ Move(d, c, "joining")
      /\ UNCHANGED <<lock, holds, stop, pc>>
  BY DEF StartMarks, AtCall
<1>2. PICK r \in Calls : /\ caller' = [caller EXCEPT ![d][c] = r]
                         /\ r.op = "start" /\ r.at = "joining"
  BY <1>1, CallMoves
<1>3. /\ \A b \in Callers : b = c /\ caller'[d][b] = r
      /\ finished'[d] = finished[d] \cup (Threads \ caller[d][c].threads)
      /\ finished[d] \subseteq Threads
      /\ life'[d] = "stopping"
  <2>1. \A b \in Callers : b = c /\ caller'[d][b] = r
    BY <1>2, OnlyCall
  <2>2. /\ finished'[d] = finished[d] \cup (Threads \ caller[d][c].threads)
        /\ finished[d] \subseteq Threads /\ life'[d] = "stopping"
    BY <1>1 DEF IInv, Shape
  <2> QED
    BY <2>1, <2>2
<1>4. Shape'
  BY <1>1, <1>2, OnlyCall DEF IInv, Shape, Lifecycle
<1>5. ASSUME NEW e \in Dispatchers \ {d} PROVE Safe(e)'
  BY <1>1, <1>2, OnlyCall, Elsewhere DEF IInv, Shape
<1>6. Safe(d)
  BY DEF IInv
<1>7. stop[d] /\ \A t \in Threads \ caller[d][c].threads : pc[d][t] \in Quiet
  BY <1>1, <1>6 DEF Safe, Starting, Signalled, AtCall
<1>8. Safe(d)'
  <2>1. Guarded(d)' /\ Marked(d)' /\ Resting(d)'
    BY <1>1, <1>3, <1>6, <1>7 DEF Safe, Guarded, Marked, Resting
  <2>2. Starting(d)' /\ Stopping(d)'
    BY <1>1, <1>2, <1>3, <1>6 DEF Safe, Starting, Stopping, AtCall
  <2>3. Releasing(d)' /\ Signalled(d)'
    BY <1>1, <1>2, <1>3, <1>6, <1>7 DEF Safe, Releasing, Signalled, AtCall
  <2> QED
    BY <2>1, <2>2, <2>3 DEF Safe
<1> QED
  BY <1>4, <1>5, <1>8 DEF IInv

\* A join ends or times out: only a start goes on although threads are left.
LEMMA JoiningSafe ==
    ASSUME OneCaller, IInv, NEW d \in Dispatchers, NEW c \in Callers,
           Joined(d, c) \/ JoinTimesOut(d, c)
    PROVE  IInv'
<1> DEFINE done == [op |-> caller[d][c].op, at |-> "completing", threads |-> {}]
<1>1. /\ UNCHANGED <<lock, life, holds, stop, finished, pc>>
      /\ caller[d][c].at = "joining"
      /\ caller[d][c].op \in {"start", "stop", "close"}
  BY DEF Joined, JoinTimesOut, control, AtCall
<1>2. caller[d][c] \in Calls /\ Safe(d)
  BY DEF IInv, Shape
<1>3. caller[d] \in [Callers -> Calls]
  BY DEF IInv, Shape
<1>4. Complete(d, c) => caller' = [caller EXCEPT ![d][c] = done]
  BY <1>3 DEF Complete, IInv, Shape
<1>5. PICK s \in Calls : /\ \/ s.op = "start" \/ s = NoCall
                            \/ Joined(d, c) /\ s.op = caller[d][c].op
                         /\ s.at \in {"idle", "completing"}
                         /\ caller' = [caller EXCEPT ![d][c] = s]
  <2>1. NoCall \in Calls /\ done \in Calls /\ NoCall.at = "idle"
    BY <1>1 DEF Calls, NoCall
  <2>2. CASE Joined(d, c)
    BY <1>4, <2>1, <2>2 DEF Joined
  <2>3. CASE JoinTimesOut(d, c) /\ caller[d][c].op = "start"
    BY <1>4, <2>1, <2>3 DEF JoinTimesOut
  <2>4. CASE JoinTimesOut(d, c) /\ caller[d][c].op # "start"
    BY <2>1, <2>4 DEF JoinTimesOut, Return
  <2> QED
    BY <2>2, <2>3, <2>4
<1>6. \A b \in Callers : b = c /\ caller'[d][b] = s
  BY <1>5, OnlyCall
<1>7. Shape'
  BY <1>1, <1>5, OnlyCall DEF IInv, Shape
<1>8. ASSUME NEW e \in Dispatchers \ {d} PROVE Safe(e)'
  BY <1>1, <1>5, OnlyCall, Elsewhere DEF IInv, Shape
<1>9. Safe(d)'
  <2>1. Guarded(d)' /\ Marked(d)' /\ Resting(d)'
    BY <1>1, <1>2 DEF Safe, Guarded, Marked, Resting
  <2>2. Starting(d)'
    BY <1>5, <1>6 DEF Starting, AtCall
  <2>3. s.op \in {"stop", "close"} => \A t \in Threads : pc[d][t] \in Gone
    <3>1. SUFFICES ASSUME s.op \in {"stop", "close"} PROVE \A t \in Threads : pc[d][t] \in Gone
      OBVIOUS
    <3>2. Joined(d, c) /\ caller[d][c].op \in {"stop", "close"}
      BY <1>5, <3>1 DEF NoCall
    <3> QED
      BY <1>1, <1>2, <3>2 DEF Safe, Stopping, Joined, Alive
  <2>4. Stopping(d)'
    BY <1>1, <1>5, <1>6, <2>3 DEF Stopping
  <2>5. Releasing(d)' /\ Signalled(d)'
    BY <1>1, <1>2, <1>5, <1>6 DEF Safe, Releasing, Signalled, AtCall
  <2> QED
    BY <2>1, <2>2, <2>4, <2>5 DEF Safe
<1> QED
  BY <1>7, <1>8, <1>9 DEF IInv

\* A caller that finds every thread finished may call the dispatcher stopped.
LEMMA CallCompletesSafe ==
    ASSUME OneCaller, IInv, NEW d \in Dispatchers, NEW c \in Callers, CallCompletes(d, c)
    PROVE  IInv'
<1> DEFINE place  == IF AllFinished(d) THEN "releasing" ELSE "returning"
           marked == IF AllFinished(d) /\ life[d] # "closed" THEN "stopped" ELSE life[d]
<1>1. /\ caller[d][c].at = "completing"
      /\ life' = [life EXCEPT ![d] = marked] /\ Move(d, c, place)
      /\ UNCHANGED <<lock, holds, stop, finished, pc>>
  BY DEF CallCompletes, MarkStopped, AtCall
<1>2. /\ place \in {"releasing", "returning"}
      /\ place = "releasing" => finished[d] = Threads
      /\ marked \in Lifecycle \cup {"dead"}
  BY DEF AllFinished, IInv, Shape, Lifecycle
<1>3. Safe(d)
  BY DEF IInv
<1>4. marked = life[d] \/ \A t \in Threads : pc[d][t] \in Quiet
  BY <1>3 DEF AllFinished, Safe, Marked
<1> HIDE DEF place, marked
<1>5. PICK r \in Calls : /\ caller' = [caller EXCEPT ![d][c] = r]
                         /\ r.op = caller[d][c].op /\ r.at = place
  BY <1>1, <1>2, CallMoves
<1>6. \A b \in Callers : b = c /\ caller'[d][b] = r
  BY <1>5, OnlyCall
<1>7. life'[d] = marked
  BY <1>1 DEF IInv, Shape
<1>8. Shape'
  BY <1>1, <1>2, <1>5, OnlyCall DEF IInv, Shape
<1>9. ASSUME NEW e \in Dispatchers \ {d} PROVE Safe(e)'
  BY <1>1, <1>5, OnlyCall, Elsewhere DEF IInv, Shape
<1>10. Safe(d)'
  <2>1. Guarded(d)' /\ Marked(d)' /\ Resting(d)'
    BY <1>1, <1>3, <1>4, <1>7 DEF Safe, Guarded, Marked, Resting
  <2>2. Starting(d)' /\ Stopping(d)'
    BY <1>1, <1>2, <1>3, <1>5, <1>6 DEF Safe, Starting, Stopping, AtCall
  <2>3. Releasing(d)' /\ Signalled(d)'
    BY <1>1, <1>2, <1>3, <1>4, <1>5, <1>6, <1>7 DEF Safe, Releasing, Signalled, AtCall, Quiet, Gone
  <2> QED
    BY <2>1, <2>2, <2>3 DEF Safe
<1> QED
  BY <1>8, <1>9, <1>10 DEF IInv

\* The caller gives the lock back.
LEMMA CallReleasesSafe ==
    ASSUME OneCaller, IInv, NEW d \in Dispatchers, NEW c \in Callers, CallReleases(d, c)
    PROVE  IInv'
<1>1. /\ caller[d][c].at = "releasing"
      /\ ReleaseLock(d) /\ Move(d, c, "returning")
      /\ UNCHANGED <<life, stop, finished, pc>>
  BY DEF CallReleases, AtCall
<1>2. PICK r \in Calls : /\ caller' = [caller EXCEPT ![d][c] = r]
                         /\ r.op = caller[d][c].op /\ r.at = "returning"
  BY <1>1, CallMoves
<1>3. \A b \in Callers : b = c /\ caller'[d][b] = r
  BY <1>2, OnlyCall
<1>4. Shape'
  BY <1>1, <1>2, OnlyCall DEF IInv, Shape, ReleaseLock
<1>5. ASSUME NEW e \in Dispatchers \ {d} PROVE Safe(e)'
  BY <1>1, <1>2, OnlyCall, Elsewhere, ReleaseElsewhere DEF IInv, Shape
<1>6. finished[d] = Threads
  BY <1>1 DEF IInv, Safe, Releasing
<1>7. Safe(d)'
  <2>1. \A b \in Callers : /\ caller[d][b].at = "releasing"
                           /\ caller'[d][b].op = caller[d][b].op
                           /\ caller'[d][b].at = "returning"
    BY <1>1, <1>2, <1>3
  <2> QED
    BY <1>1, <1>6, <2>1, Unguarded
<1> QED
  BY <1>4, <1>5, <1>7 DEF IInv

\* A close that returns leaves no thread behind.
LEMMA CallReturnsSafe ==
    ASSUME OneCaller, IInv, NEW d \in Dispatchers, NEW c \in Callers, CallReturns(d, c)
    PROVE  IInv'
<1> DEFINE marked == IF caller[d][c].op = "close" THEN "closed" ELSE life[d]
<1>1. /\ caller[d][c].at = "returning"
      /\ life' = [life EXCEPT ![d] = marked]
      /\ caller' = [caller EXCEPT ![d][c] = NoCall]
      /\ UNCHANGED <<lock, holds, stop, finished, pc>>
  BY DEF CallReturns, Return, AtCall
<1>2. NoCall \in Calls /\ NoCall.op = "none" /\ NoCall.at = "idle"
  BY DEF NoCall, Calls
<1>3. Safe(d) /\ marked \in Lifecycle \cup {"dead"}
  BY DEF IInv, Shape, Lifecycle
<1>4. marked = life[d] \/ \A t \in Threads : pc[d][t] \in Quiet
  BY <1>1, <1>3 DEF Safe, Stopping, Quiet
<1> HIDE DEF marked
<1>5. \A b \in Callers : b = c /\ caller'[d][b] = NoCall
  BY <1>1, <1>2, OnlyCall
<1>6. life'[d] = marked
  BY <1>1 DEF IInv, Shape
<1>7. Shape'
  BY <1>1, <1>2, <1>3, OnlyCall DEF IInv, Shape
<1>8. ASSUME NEW e \in Dispatchers \ {d} PROVE Safe(e)'
  BY <1>1, <1>2, OnlyCall, Elsewhere DEF IInv, Shape
<1>9. Safe(d)'
  <2>1. Guarded(d)' /\ Marked(d)' /\ Resting(d)'
    BY <1>1, <1>3, <1>4, <1>6 DEF Safe, Guarded, Marked, Resting
  <2>2. Starting(d)' /\ Stopping(d)'
    BY <1>2, <1>5 DEF Starting, Stopping, AtCall
  <2>3. Releasing(d)' /\ Signalled(d)'
    BY <1>1, <1>2, <1>3, <1>4, <1>5, <1>6 DEF Safe, Releasing, Signalled, AtCall, Quiet, Gone
  <2> QED
    BY <2>1, <2>2, <2>3 DEF Safe
<1> QED
  BY <1>7, <1>8, <1>9 DEF IInv

\* A start that is refused, or that fails before it has a thread, finds every
\* thread quiet.
LEMMA StartRefusedSafe ==
    ASSUME OneCaller, IInv, NEW d \in Dispatchers, NEW c \in Callers,
           StartRefused(d, c) \/ StartGateFails(d, c)
    PROVE  IInv'
<1> DEFINE r == [op |-> "start", at |-> "failing", threads |-> {}]
<1>1. /\ caller' = [caller EXCEPT ![d][c] = r]
      /\ UNCHANGED <<life, stop, finished, pc>>
  BY DEF StartRefused, StartGateFails, Failing, control
<1>2. \/ UNCHANGED <<lock, holds>>
      \/ lock' = d /\ holds' = [holds EXCEPT ![d] = TRUE] /\ lock \in {None, d}
  BY DEF StartRefused, StartGateFails, Raise, control
<1>3. r \in Calls
  BY DEF Calls
<1>4. Safe(d) /\ \A t \in Threads : pc[d][t] \in Quiet
  <2>1. life[d] \in CalledInStates
    BY DEF StartRefused, StartGateFails, CallStart
  <2> QED
    BY <2>1 DEF OneCaller, IInv, Safe, Resting
<1> HIDE DEF r
<1>5. \A b \in Callers : b = c /\ caller'[d][b] = r
  BY <1>1, <1>3, OnlyCall
<1>6. r.op = "start" /\ r.at = "failing"
  BY DEF r
<1>7. Shape'
  BY <1>1, <1>2, <1>3, OnlyCall DEF IInv, Shape
<1>8. ASSUME NEW e \in Dispatchers \ {d} PROVE Safe(e)'
  <2>1. (lock = e <=> lock' = e) /\ holds'[e] = holds[e]
    BY <1>2, DispatcherAssumption DEF IInv, Shape
  <2> QED
    BY <1>1, <1>3, <2>1, OnlyCall, Elsewhere DEF IInv
<1>9. Safe(d)'
  <2>1. holds'[d] <=> lock' = d
    BY <1>2, <1>4 DEF IInv, Shape, Safe, Guarded
  <2>2. Guarded(d)' /\ Marked(d)' /\ Resting(d)'
    BY <1>1, <1>4, <2>1 DEF Safe, Guarded, Marked, Resting
  <2>3. Starting(d)' /\ Stopping(d)'
    BY <1>1, <1>4, <1>5, <1>6 DEF Starting, Stopping, AtCall
  <2>4. Releasing(d)' /\ Signalled(d)'
    BY <1>1, <1>4, <1>5, <1>6 DEF Safe, Releasing, Signalled, AtCall
  <2> QED
    BY <2>2, <2>3, <2>4 DEF Safe
<1> QED
  BY <1>7, <1>8, <1>9 DEF IInv

\* The threads begin under the lock; a start that fails remembers which did.
LEMMA StartThreadsSafe ==
    ASSUME OneCaller, IInv, NEW d \in Dispatchers, NEW c \in Callers,
           NEW started \in Started, StartThreads(d, c, started)
    PROVE  IInv'
<1> DEFINE places == [t \in Threads |-> IF t \notin started THEN "none"
                                        ELSE IF t = Worker THEN "top" ELSE "loop"]
           begun  == IF started = Threads THEN "running" ELSE "starting"
           r      == IF started = Threads THEN NoCall
                     ELSE [op |-> "start", at |-> "failing", threads |-> started]
<1>1. /\ caller[d][c] = NoCall /\ life[d] = "new" /\ lock \in {None, d}
      /\ lock' = d
      /\ holds' = [holds EXCEPT ![d] = TRUE]
      /\ stop' = [stop EXCEPT ![d] = FALSE]
      /\ finished' = [finished EXCEPT ![d] = {}]
      /\ pc' = [pc EXCEPT ![d] = places]
      /\ life' = [life EXCEPT ![d] = begun]
  BY DEF StartThreads, CallStart, Raise
<1>2. started \subseteq Threads
  BY DEF Started
<1>3. caller' = [caller EXCEPT ![d][c] = r]
  <2>1. CASE started = Threads
    BY <1>1, <2>1 DEF StartThreads, IInv, Shape
  <2>2. CASE started # Threads
    BY <2>2 DEF StartThreads, Failing
  <2> QED
    BY <2>1, <2>2
<1>4. /\ r \in Calls
      /\ \/ r.op = "none" /\ r.at = "idle"
         \/ r.op = "start" /\ r.at = "failing" /\ r.threads = started
  <2>1. CASE started = Threads
    BY <2>1 DEF Calls, NoCall
  <2>2. CASE started # Threads
    BY <1>2, <2>2 DEF Calls
  <2> QED
    BY <2>1, <2>2
<1>5. places \in [Threads -> {"none", "top", "loop"}]
      /\ \A t \in Threads \ started : places[t] = "none"
  OBVIOUS
<1>6. begun \in {"starting", "running"}
  OBVIOUS
<1> HIDE DEF places, begun, r
<1>8. \A b \in Callers : b = c /\ caller'[d][b] = r
  BY <1>3, <1>4, OnlyCall
<1>9. /\ life'[d] = begun /\ holds'[d] = TRUE /\ stop'[d] = FALSE
       /\ finished'[d] = {} /\ pc'[d] = places
  BY <1>1 DEF IInv, Shape
<1>10. Shape'
  <2>1. places \in [Threads -> Places]
    BY <1>5 DEF Places, Looping, Quiet, Gone
  <2> QED
    BY <1>1, <1>3, <1>4, <1>6, <2>1, OnlyCall DEF IInv, Shape, Lifecycle
<1>11. ASSUME NEW e \in Dispatchers \ {d} PROVE Safe(e)'
  <2>1. lock = e <=> lock' = e
    BY <1>1, DispatcherAssumption DEF IInv, Shape
  <2> QED
    <3>1. caller'[e] = caller[e]
      BY <1>3, <1>4, OnlyCall
    <3>2. /\ life'[e] = life[e] /\ holds'[e] = holds[e] /\ stop'[e] = stop[e]
          /\ finished'[e] = finished[e] /\ pc'[e] = pc[e]
      BY <1>1 DEF IInv, Shape
    <3> QED
      BY <2>1, <3>1, <3>2, Elsewhere DEF IInv
<1>12. Safe(d)'
  <2>1. Guarded(d)' /\ Marked(d)' /\ Resting(d)'
    BY <1>1, <1>6, <1>9 DEF Guarded, Marked, Resting
  <2>2. Starting(d)'
    BY <1>4, <1>5, <1>8, <1>9 DEF Starting, AtCall, Quiet, Gone
  <2>3. Stopping(d)' /\ Releasing(d)'
    BY <1>4, <1>5, <1>8, <1>9 DEF Stopping, Releasing
  <2>4. Signalled(d)'
    BY <1>4, <1>5, <1>6, <1>8, <1>9 DEF Signalled, AtCall
  <2> QED
    BY <2>1, <2>2, <2>3, <2>4 DEF Safe
<1> QED
  BY <1>10, <1>11, <1>12 DEF IInv

\* A dispatcher without threads is stopped or closed at once.
LEMMA StopIdleSafe ==
    ASSUME OneCaller, IInv, NEW d \in Dispatchers, NEW c \in Callers,
           NEW op \in {"stop", "close"}, StopIdle(d, c, op)
    PROVE  IInv'
<1> DEFINE over == IF op = "close" THEN "closed" ELSE "stopped"
<1>1. /\ caller[d][c] = NoCall
      /\ life' = [life EXCEPT ![d] = over]
      /\ UNCHANGED <<lock, holds, finished, pc, caller>>
      /\ UNCHANGED stop \/ stop' = [stop EXCEPT ![d] = TRUE]
  BY DEF StopIdle, clients, Raise
<1>2. Safe(d) /\ \A t \in Threads : pc[d][t] \in Quiet
  BY DEF IInv, Safe, Resting, StopIdle, Alive, Quiet
<1>3. over \in Lifecycle
  BY DEF Lifecycle
<1> HIDE DEF over
<1>4. \A b \in Callers : caller'[d][b] = NoCall
  BY <1>1 DEF OneCaller
<1>5. Shape'
  BY <1>1, <1>3 DEF IInv, Shape
<1>6. ASSUME NEW e \in Dispatchers \ {d} PROVE Safe(e)'
  BY <1>1, Elsewhere DEF IInv, Shape
<1>7. Safe(d)'
  <2>1. Guarded(d)' /\ Marked(d)' /\ Resting(d)'
    BY <1>1, <1>2 DEF Safe, Guarded, Marked, Resting
  <2>2. Starting(d)' /\ Stopping(d)'
    BY <1>4 DEF Starting, Stopping, AtCall, NoCall
  <2>3. Releasing(d)' /\ Signalled(d)'
    BY <1>1, <1>2, <1>4 DEF Safe, Releasing, Signalled, AtCall, NoCall, Quiet, Gone
  <2> QED
    BY <2>1, <2>2, <2>3 DEF Safe
<1> QED
  BY <1>5, <1>6, <1>7 DEF IInv

\* The stop event first, then a wait for every thread there is.
LEMMA StopSignalsSafe ==
    ASSUME OneCaller, IInv, NEW d \in Dispatchers, NEW c \in Callers,
           NEW op \in {"stop", "close"}, StopSignals(d, c, op)
    PROVE  IInv'
<1> DEFINE r == [op |-> op, at |-> "joining", threads |-> Alive(d)]
<1>1. /\ life' = [life EXCEPT ![d] = "stopping"]
      /\ stop' = [stop EXCEPT ![d] = TRUE]
      /\ caller' = [caller EXCEPT ![d][c] = r]
      /\ UNCHANGED <<lock, holds, finished, pc>>
  BY DEF StopSignals, Raise
<1>2. /\ r \in Calls /\ r.op # "start" /\ r.at = "joining"
      /\ \A t \in Threads \ r.threads : pc[d][t] \in Gone
  BY DEF Calls, Alive
<1> HIDE DEF r
<1>3. \A b \in Callers : b = c /\ caller'[d][b] = r
  BY <1>1, <1>2, OnlyCall
<1>4. Safe(d) /\ stop'[d] = TRUE /\ life'[d] = "stopping"
  BY <1>1 DEF IInv, Shape
<1>5. Shape'
  BY <1>1, <1>2, OnlyCall DEF IInv, Shape, Lifecycle
<1>6. ASSUME NEW e \in Dispatchers \ {d} PROVE Safe(e)'
  BY <1>1, <1>2, OnlyCall, Elsewhere DEF IInv, Shape
<1>7. Safe(d)'
  <2>1. Guarded(d)' /\ Marked(d)' /\ Resting(d)'
    BY <1>1, <1>4 DEF Safe, Guarded, Marked, Resting
  <2>2. Starting(d)' /\ Stopping(d)'
    BY <1>1, <1>2, <1>3 DEF Starting, Stopping, AtCall
  <2>3. Releasing(d)' /\ Signalled(d)'
    BY <1>1, <1>2, <1>3, <1>4 DEF Safe, Releasing, Signalled, AtCall
  <2> QED
    BY <2>1, <2>2, <2>3 DEF Safe
<1> QED
  BY <1>5, <1>6, <1>7 DEF IInv

-----------------------------------------------------------------------------
\* The operating system takes the lock of a process that dies, and only that.
LEMMA CrashSafe ==
    ASSUME IInv, NEW d \in Dispatchers, Crash(d)
    PROVE  IInv'
<1> DEFINE gone == [t \in Threads |-> "gone"]
           idle == [c \in Callers |-> NoCall]
<1>1. /\ life' = [life EXCEPT ![d] = "dead"]
      /\ lock' = IF lock = d THEN None ELSE lock
      /\ holds' = [holds EXCEPT ![d] = FALSE]
      /\ stop' = [stop EXCEPT ![d] = FALSE]
      /\ finished' = [finished EXCEPT ![d] = Threads]
      /\ pc' = [pc EXCEPT ![d] = gone]
      /\ caller' = [caller EXCEPT ![d] = idle]
  BY DEF Crash
<1>2. /\ gone \in [Threads -> {"gone"}] /\ \A t \in Threads : gone[t] = "gone"
      /\ idle \in [Callers -> Calls] /\ \A c \in Callers : idle[c] = NoCall
  BY DEF NoCall, Calls
<1> HIDE DEF gone, idle
<1>3. /\ life'[d] = "dead" /\ lock' # d /\ ~holds'[d] /\ finished'[d] = Threads
      /\ pc'[d] = gone /\ caller'[d] = idle
  BY <1>1, DispatcherAssumption DEF IInv, Shape
<1>4. Shape'
  <2>1. gone \in [Threads -> Places]
    BY <1>2 DEF Places, Quiet, Gone
  <2> QED
    BY <1>1, <1>2, <2>1 DEF IInv, Shape
<1>5. ASSUME NEW e \in Dispatchers \ {d} PROVE Safe(e)'
  <2>1. lock = e <=> lock' = e
    BY <1>1, DispatcherAssumption DEF IInv, Shape
  <2> QED
    BY <1>1, <2>1, Elsewhere DEF IInv, Shape
<1>6. Safe(d)'
  <2>1. Guarded(d)' /\ Marked(d)' /\ Resting(d)'
    BY <1>2, <1>3 DEF Guarded, Marked, Resting, Quiet, Gone, IInv, Shape
  <2>2. Starting(d)' /\ Stopping(d)'
    BY <1>2, <1>3 DEF Starting, Stopping, AtCall, NoCall
  <2>3. Releasing(d)' /\ Signalled(d)'
    BY <1>2, <1>3 DEF Releasing, Signalled, AtCall, NoCall, Quiet, Gone
  <2> QED
    BY <2>1, <2>2, <2>3 DEF Safe
<1> QED
  BY <1>4, <1>5, <1>6 DEF IInv

-----------------------------------------------------------------------------
(* The theorems.                                                           *)

\* A process that has not started holds nothing and has no threads.
LEMMA Initially == Init => IInv
<1>1. SUFFICES ASSUME Init PROVE IInv
  OBVIOUS
<1>2. NoCall \in Calls
  BY DEF NoCall, Calls
<1>3. Shape
  BY <1>1, <1>2 DEF Init, Shape, Lifecycle, Places, Quiet, Gone
<1>4. ASSUME NEW d \in Dispatchers PROVE Safe(d)
  <2>1. Guarded(d) /\ Marked(d) /\ Resting(d)
    BY <1>1, DispatcherAssumption DEF Init, Guarded, Marked, Resting, Quiet, Gone
  <2>2. Starting(d) /\ Stopping(d)
    BY <1>1 DEF Init, Starting, Stopping, AtCall, NoCall
  <2>3. Releasing(d) /\ Signalled(d)
    BY <1>1 DEF Init, Releasing, Signalled, AtCall, NoCall, Quiet, Gone
  <2> QED
    BY <2>1, <2>2, <2>3 DEF Safe
<1> QED
  BY <1>3, <1>4 DEF IInv

\* The steps of a call in progress, and those of a thread on its way out.
LEMMA CallSafe ==
    ASSUME OneCaller, IInv, NEW d \in Dispatchers, NEW c \in Callers, Call(d, c)
    PROVE  IInv'
  BY StartSetsStopSafe, StartMarksSafe, JoiningSafe, CallCompletesSafe, CallReleasesSafe,
     CallReturnsSafe DEF Call

LEMMA EndThreadSafe ==
    ASSUME IInv, NEW d \in Dispatchers, NEW t \in Threads, EndThread(d, t)
    PROVE  IInv'
  BY AbortMarksSafe, ThreadFinishesSafe, ThreadCompletesSafe, ThreadReleasesSafe DEF EndThread

\* Every step keeps the invariant.
LEMMA Stepwise == ASSUME OneCaller, IInv, [Next]_vars PROVE IInv'
<1>1. CASE UNCHANGED vars
  BY <1>1, Untouched DEF vars, control, clients
<1>2. ASSUME NEW d \in Dispatchers, NEW t \in Tasks, Submit(d, t) \/ Announce(d, t)
      PROVE  IInv'
  BY <1>2, Untouched DEF Submit, Announce, control
<1>3. ASSUME NEW t \in Tasks, CoolDown(t) PROVE IInv'
  BY <1>3, Untouched DEF CoolDown, control, clients
<1>4. ASSUME NEW d \in Dispatchers, NEW c \in Callers,
             \/ StartRefused(d, c) \/ StartGateFails(d, c)
             \/ \E started \in Started : StartThreads(d, c, started)
             \/ \E op \in {"stop", "close"} : StopIdle(d, c, op) \/ StopSignals(d, c, op)
             \/ Call(d, c)
      PROVE  IInv'
  BY <1>4, StartRefusedSafe, StartThreadsSafe, StopIdleSafe, StopSignalsSafe, CallSafe
<1>5. ASSUME NEW d \in Dispatchers, NEW t \in Threads, Aborts(d, t) \/ EndThread(d, t)
      PROVE  IInv'
  BY <1>5, LeavingSafe, EndThreadSafe
<1>6. ASSUME NEW d \in Dispatchers, NEW h \in Helpers, HelperStops(d, h) PROVE IInv'
  BY <1>6, LeavingSafe DEF Threads
<1>7. ASSUME NEW d \in Dispatchers, Work(d) \/ WorkFails(d) \/ Crash(d) PROVE IInv'
  BY <1>7, WorkSafe, CrashSafe
<1>8. CASE Next
  BY <1>2, <1>3, <1>4, <1>5, <1>6, <1>7, <1>8 DEF Next
<1> QED
  BY <1>1, <1>8

\* The invariant that is inductive: whoever is not quiet has the lock, whoever
\* declares the dispatcher stopped has seen every thread end, and the stop event
\* is set before the lifecycle says so.
THEOREM Kept == ASSUME OneCaller PROVE Spec => []IInv
<1>1. Init => IInv
  BY Initially
<1>2. IInv /\ [Next]_vars => IInv'
  BY Stepwise
<1> QED
  BY <1>1, <1>2, PTL DEF Spec

\* The flag and the file lock agree, and threads in their loops keep the lock.
THEOREM LocksAgree == ASSUME OneCaller PROVE Spec => []LockAgrees
<1>1. IInv => LockAgrees
  BY DEF IInv, LockAgrees, Safe, Guarded, Quiet, Gone, Looping
<1> QED
  BY <1>1, Kept, PTL

\* "stopped" and "closed" are true: no thread is in its loop.
THEOREM StoppedMeansQuiet == ASSUME OneCaller PROVE Spec => []StoppedIsQuiet
<1>1. IInv => StoppedIsQuiet
  BY DEF IInv, StoppedIsQuiet, Safe, Resting, Quiet, Gone, Looping, Over
<1> QED
  BY <1>1, Kept, PTL

\* A process whose worker executes a task has the lock.
LEMMA ExecutingHasLock == ASSUME IInv PROVE Executing \subseteq {lock}
  BY DEF IInv, Safe, Guarded, Executing, Quiet, Gone, Threads

\* Of any number of processes one at most executes a task.
THEOREM ExecutesAlone == ASSUME OneCaller PROVE Spec => []OneExecutor
<1>1. IInv => OneExecutor
  <2>1. SUFFICES ASSUME IInv PROVE Cardinality(Executing) <= 1
    BY DEF OneExecutor
  <2>2. IsFiniteSet({lock}) /\ Cardinality({lock}) = 1
    BY FS_Singleton
  <2>3. Cardinality(Executing) <= Cardinality({lock})
    BY <2>1, <2>2, ExecutingHasLock, FS_Subset
  <2> QED
    BY <2>2, <2>3
<1> QED
  BY <1>1, Kept, PTL

\* Only Begin lets a task begin, and it asks the stop event under the lock.
LEMMA BeginsUnstopped ==
    ASSUME IInv, [Next]_vars, NEW d \in Dispatchers, Begins(d)
    PROVE  ~stop[d]
<1>1. pc[d][Worker] = "granted" /\ pc'[d][Worker] = "executing" /\ Worker \in Threads
  BY DEF Begins, Threads
<1>2. CASE UNCHANGED vars
  BY <1>1, <1>2 DEF vars
<1>3. CASE \E t \in Tasks : CoolDown(t)
  BY <1>1, <1>3 DEF CoolDown
<1>4. ASSUME NEW e \in Dispatchers, NEW t \in Tasks, Submit(e, t) \/ Announce(e, t)
      PROVE  FALSE
  BY <1>1, <1>4 DEF Submit, Announce
<1>5. ASSUME NEW e \in Dispatchers, NEW c \in Callers,
             \/ StartRefused(e, c) \/ StartGateFails(e, c)
             \/ \E op \in {"stop", "close"} : StopIdle(e, c, op) \/ StopSignals(e, c, op)
             \/ Call(e, c)
      PROVE  FALSE
  BY <1>1, <1>5 DEF StartRefused, StartGateFails, StopIdle, StopSignals, Call,
     StartSetsStop, StartMarks, Joined, JoinTimesOut, CallCompletes, CallReleases, CallReturns
<1>6. ASSUME NEW e \in Dispatchers, NEW c \in Callers, NEW started \in Started,
             StartThreads(e, c, started)
      PROVE  FALSE
  <2>1. pc'[d] = pc[d] \/ pc'[d][Worker] \in {"none", "top"}
    BY <1>1, <1>6 DEF StartThreads, IInv, Shape
  <2> QED
    BY <1>1, <2>1
<1>7. ASSUME NEW e \in Dispatchers, NEW t \in Threads, Aborts(e, t) \/ EndThread(e, t)
      PROVE  FALSE
  <2>1. \E p \in {"aborting", "finally", "completing", "releasing", "gone"} : Go(e, t, p)
    BY <1>7 DEF Aborts, EndThread, AbortMarks, ThreadFinishes, ThreadCompletes, ThreadReleases
  <2> QED
    BY <1>1, <2>1 DEF Go, IInv, Shape
<1>8. ASSUME NEW e \in Dispatchers, NEW h \in Helpers, HelperStops(e, h) PROVE FALSE
  BY <1>1, <1>8 DEF HelperStops, Go, IInv, Shape, Threads
<1>9. ASSUME NEW e \in Dispatchers, Crash(e) PROVE FALSE
  BY <1>1, <1>9 DEF Crash, IInv, Shape
<1>10. ASSUME NEW e \in Dispatchers, Work(e) \/ WorkFails(e) PROVE e = d /\ Begin(d)
  <2>1. ASSUME NEW p \in Places, Go(e, Worker, p) PROVE e = d /\ p = "executing"
    BY <1>1, <2>1 DEF Go, IInv, Shape
  <2>2. ~(pc' = pc)
    BY <1>1
  <2> USE DEF At, Places, Looping, Quiet, Gone
  <2>3. CASE WorkerTop(e) \/ NextItem(e) \/ Permit(e)
    BY <2>1, <2>3 DEF WorkerTop, NextItem, Permit, Abandon
  <2>8. CASE Scan(e) \/ ScanFails(e)
    <3>1. Go(e, Worker, "item") \/ Go(e, Worker, "defer")
      BY <2>8 DEF Scan, ScanFails
    <3> QED
      BY <2>1, <3>1
  <2>4. CASE Execute(e) \/ ExecuteRaises(e) \/ ExecuteEnds(e) \/ RunRaises(e)
    BY <2>1, <2>4 DEF Execute, ExecuteRaises, ExecuteEnds, RunRaises
  <2>5. CASE ReturnPermit(e) \/ ReturnFails(e) \/ Decide(e) \/ WakeUp(e)
    BY <2>1, <2>5 DEF ReturnPermit, ReturnFails, Decide, WakeUp
  <2>6. CASE Defer(e) \/ DeferFails(e)
    BY <2>2, <2>6 DEF Defer, DeferFails
  <2>7. CASE Begin(e)
    BY <2>1, <2>7 DEF Begin, Abandon
  <2> QED
    BY <1>10, <2>3, <2>4, <2>5, <2>6, <2>7, <2>8 DEF Work, WorkFails
<1>11. Begin(d) => ~stop[d]
  BY <1>1 DEF Begin, Abandon, Go, IInv, Shape
<1> QED
  BY <1>2, <1>3, <1>4, <1>5, <1>6, <1>7, <1>8, <1>9, <1>10, <1>11 DEF Next

\* Once stop or close has been called, or a thread has aborted, no task begins.
THEOREM NothingBegins == ASSUME OneCaller PROVE Spec => NothingBeginsOnceStopping
<1> DEFINE A == \A d \in Dispatchers : Begins(d) => life[d] \in {"starting", "running"}
<1>1. ASSUME IInv, [Next]_vars PROVE [A]_vars
  <2>1. ASSUME NEW d \in Dispatchers, Begins(d) PROVE life[d] \in {"starting", "running"}
    <3>1. ~stop[d]
      BY <1>1, <2>1, BeginsUnstopped
    <3>2. pc[d][Worker] \notin Quiet /\ Worker \in Threads
      BY <2>1 DEF Begins, Quiet, Gone, Threads
    <3> QED
      BY <1>1, <3>1, <3>2 DEF IInv, Safe, Signalled
  <2> QED
    BY <2>1
<1> QED
  BY <1>1, Kept, PTL DEF Spec, NothingBeginsOnceStopping

======
