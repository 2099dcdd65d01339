----------------------- MODULE DispatcherRoundProofs -----------------------
(***************************************************************************)
(* What holds of the worker's rounds for every number of processes,        *)
(* callers, helpers, tasks, failures and crashes, and every page size: the *)
(* order of the tasks, and the wake-up that is never lost.  Nothing is     *)
(* assumed of who calls start, stop and close, or when.                    *)
(***************************************************************************)
EXTENDS Dispatcher, TLAPS

\* Tasks that have a row, and accepted ones that nobody has put off.
Submitted == {t \in Tasks : state[t] # "none"}
Fresh     == {t \in Accepted : cooldown[t] = "never"}

\* The worker holds the first row of its page, or is between two rows.
Holding == {"waiting", "granted", "executing", "running"}
InRound == Holding \cup {"item", "returning"}
InLoop  == InRound \cup {"defer", "asleep"}

\* What the round still has to run or to put off.
Left(d) == ToSet(round[d].page) \cup ToSet(round[d].failed)

-----------------------------------------------------------------------------
(* The invariant.                                                          *)

Places == Looping \cup Gone \cup {"aborting", "finally", "completing", "releasing"}
Calls  == [op : {"none", "start", "stop", "close"},
           at : {"idle", "failing", "marking", "joining", "completing", "releasing",
                 "returning"},
           threads : SUBSET Threads]

QueueOK ==
    /\ state \in [Tasks -> {"none", "accepted", "running", "ended"}]
    /\ cooldown \in [Tasks -> {"never", "cooling", "over"}]

ControlOK ==
    /\ lock \in Dispatchers \cup {None}
    /\ life \in [Dispatchers -> Lifecycle \cup {"dead"}]
    /\ holds \in [Dispatchers -> BOOLEAN]
    /\ stop \in [Dispatchers -> BOOLEAN]
    /\ wake \in [Dispatchers -> BOOLEAN]
    /\ finished \in [Dispatchers -> SUBSET Threads]

PlacesOK == pc \in [Dispatchers -> [Threads -> Places]]

\* A page is ascending, and what is run or put off is never more than was read.
Small(r) == Len(r.page) + Len(r.failed) <= r.size
RoundsOK == /\ round \in [Dispatchers -> Rounds]
            /\ \A d \in Dispatchers : Small(round[d]) /\ Ascending(round[d].page)

CallsOK  == caller \in [Dispatchers -> [Callers -> Calls]]
ToldOK   == told \in [Dispatchers -> SUBSET Tasks] /\ owed \in [Dispatchers -> SUBSET Tasks]
FaultsOK == faults \in 0 .. MaxFaults

Typed == QueueOK /\ ControlOK /\ PlacesOK /\ RoundsOK /\ CallsOK /\ ToldOK /\ FaultsOK

\* Rows are committed in the order of their dispatch_sequence.
Prefix == \A t \in Submitted : \A u \in Tasks : u < t => u \in Submitted

\* A worker that holds a row has one; the rows it has left were committed.
Loaded(d) ==
    /\ pc[d][Worker] \in Holding => round[d].page # <<>>
    /\ pc[d][Worker] \in {"defer", "asleep"} => round[d].page = <<>>
    /\ ToSet(round[d].page) \subseteq Submitted

\* No fresh task is older than one of the page and forgotten by the round.
Behind(d) ==
    pc[d][Worker] \in InRound =>
        \A u \in Fresh, t \in ToSet(round[d].page) : u < t => u \in Left(d)

\* A round that has gone well and has read all there was has every fresh task
\* it was told of before it, unless the wake-up has been set since.
Partial(d) == round[d].completed /\ round[d].clean /\ round[d].size < PageSize
Rested(d) ==
    /\ pc[d][Worker] = "asleep" =>
          /\ round[d].failed = <<>>
          /\ round[d].completed /\ round[d].clean => round[d].size < PageSize
    /\ pc[d][Worker] \in InLoop /\ Partial(d) /\ ~wake[d] =>
          told[d] \cap Fresh \subseteq Left(d)

\* Only what was committed is announced.
Known(d) == told[d] \cup owed[d] \subseteq Submitted

Steady(d) == Loaded(d) /\ Behind(d) /\ Rested(d) /\ Known(d)

RInv == Typed /\ Prefix /\ \A d \in Dispatchers : Steady(d)

-----------------------------------------------------------------------------
(* Sequences.                                                              *)

\* The first row and the others.
LEMMA FirstAndRest ==
    ASSUME NEW s \in Seq(Tasks), s # <<>>
    PROVE  /\ Head(s) \in Tasks /\ Tail(s) \in Seq(Tasks) /\ Len(Tail(s)) = Len(s) - 1
           /\ Len(s) \in Nat /\ Len(s) > 0
           /\ ToSet(s) = {Head(s)} \cup ToSet(Tail(s))
<1>1. /\ Head(s) \in Tasks /\ Tail(s) \in Seq(Tasks) /\ Len(Tail(s)) = Len(s) - 1
      /\ Len(s) \in Nat /\ Len(s) > 0 /\ Head(s) = s[1]
      /\ \A i \in 1 .. Len(Tail(s)) : Tail(s)[i] = s[i + 1]
  OBVIOUS
<1>2. \A i \in 1 .. Len(s) : i # 1 => i - 1 \in 1 .. Len(Tail(s)) /\ s[i] = Tail(s)[i - 1]
  BY <1>1
<1>3. ASSUME NEW x \in ToSet(s) PROVE x \in {Head(s)} \cup ToSet(Tail(s))
  <2>1. PICK i \in 1 .. Len(s) : x = s[i]
    BY <1>1, <1>3 DEF ToSet
  <2>2. CASE i = 1
    BY <1>1, <2>1, <2>2
  <2>3. CASE i # 1
    BY <1>2, <2>1, <2>3 DEF ToSet
  <2> QED
    BY <2>2, <2>3
<1>4. ASSUME NEW x \in {Head(s)} \cup ToSet(Tail(s)) PROVE x \in ToSet(s)
  <2>1. 1 \in 1 .. Len(s) /\ \A i \in 1 .. Len(Tail(s)) : i + 1 \in 1 .. Len(s)
    BY <1>1
  <2> QED
    BY <1>1, <2>1 DEF ToSet
<1> QED
  BY <1>1, <1>3, <1>4

\* The first row of an ascending page is its oldest, and the rest ascends.
LEMMA FirstIsOldest ==
    ASSUME NEW s \in Seq(Tasks), s # <<>>, Ascending(s)
    PROVE  /\ Ascending(Tail(s))
           /\ \A t \in ToSet(s) : t = Head(s) \/ Head(s) < t
<1>1. /\ Len(Tail(s)) = Len(s) - 1 /\ Len(s) \in Nat /\ Len(s) > 0 /\ Head(s) = s[1]
      /\ \A i \in 1 .. Len(Tail(s)) : Tail(s)[i] = s[i + 1] /\ i + 1 \in 1 .. Len(s)
  OBVIOUS
<1>2. \A i, j \in 1 .. Len(s) : i < j => s[i] < s[j]
  BY DEF Ascending, Before
<1>3. Ascending(Tail(s))
  <2>1. ASSUME NEW i \in 1 .. Len(Tail(s)), NEW j \in 1 .. Len(Tail(s)), i < j
        PROVE  Tail(s)[i] < Tail(s)[j]
    BY <1>1, <1>2, <2>1
  <2> QED
    BY <2>1 DEF Ascending, Before
<1>4. ASSUME NEW i \in 1 .. Len(s) PROVE s[i] = Head(s) \/ Head(s) < s[i]
  BY <1>1, <1>2
<1> QED
  BY <1>3, <1>4 DEF ToSet

LEMMA OneMore ==
    ASSUME NEW s \in Seq(Tasks), NEW t \in Tasks
    PROVE  /\ Append(s, t) \in Seq(Tasks) /\ Len(Append(s, t)) = Len(s) + 1
           /\ ToSet(Append(s, t)) = ToSet(s) \cup {t}
<1>1. /\ Append(s, t) \in Seq(Tasks) /\ Len(Append(s, t)) = Len(s) + 1 /\ Len(s) \in Nat
      /\ \A i \in 1 .. Len(s) : Append(s, t)[i] = s[i]
      /\ Append(s, t)[Len(s) + 1] = t
  OBVIOUS
<1>2. ASSUME NEW x \in ToSet(s) \cup {t} PROVE x \in ToSet(Append(s, t))
  <2>1. Len(s) + 1 \in 1 .. Len(Append(s, t))
        /\ \A i \in 1 .. Len(s) : i \in 1 .. Len(Append(s, t))
    BY <1>1
  <2> QED
    BY <1>1, <2>1 DEF ToSet
<1>3. ASSUME NEW x \in ToSet(Append(s, t)) PROVE x \in ToSet(s) \cup {t}
  <2>1. \A i \in 1 .. Len(Append(s, t)) : i \in 1 .. Len(s) \/ i = Len(s) + 1
    BY <1>1
  <2> QED
    BY <1>1, <2>1 DEF ToSet
<1> QED
  BY <1>1, <1>2, <1>3

LEMMA NothingLeft == ToSet(<<>>) = {} /\ Ascending(<<>>) /\ Len(<<>>) = 0 /\ <<>> \in Seq(Tasks)
  BY DEF ToSet, Ascending

\* A page has no more rows than its limit, in order; what it leaves out while it
\* is not full is not ready.
LEMMA PageIsGood ==
    ASSUME QueueOK, NEW page \in Pages
    PROVE  /\ page \in Seq(Tasks) /\ Len(page) \in 0 .. PageSize /\ Ascending(page)
           /\ ToSet(page) \subseteq Ready
           /\ \A t \in Ready : \/ t \in ToSet(page)
                               \/ Len(page) = PageSize /\ \A u \in ToSet(page) : u < t
<1>1. /\ page \in BoundedSeq(Ready, MaxTasks) /\ Len(page) <= PageSize /\ Ascending(page)
      /\ \A t \in Ready : t \in ToSet(page) \/ LeftOut(page, t)
  BY DEF Pages
<1>2. page \in Seq(Ready)
  BY <1>1, DispatcherAssumption DEF BoundedSeq, SeqOf
<1>3. Ready \subseteq Tasks
  BY DEF Ready, Accepted
<1>4. page \in Seq(Tasks) /\ ToSet(page) \subseteq Ready /\ Len(page) \in Nat
  BY <1>2, <1>3 DEF ToSet
<1>5. \A t : LeftOut(page, t) => Len(page) = PageSize /\ \A u \in ToSet(page) : u < t
  BY <1>4 DEF LeftOut, Before, ToSet
<1> QED
  BY <1>1, <1>4, <1>5, DispatcherAssumption

-----------------------------------------------------------------------------
(* Frames.                                                                 *)

LEMMA TypedIsTypeOK == Typed => TypeOK
<1>1. SUFFICES ASSUME Typed PROVE TypeOK
  OBVIOUS
<1>2. ASSUME NEW d \in Dispatchers
      PROVE  /\ round[d] \in Rounds
             /\ Len(round[d].page) <= round[d].size
             /\ Len(round[d].failed) <= round[d].size
  <2>1. round[d] \in Rounds /\ Len(round[d].page) + Len(round[d].failed) <= round[d].size
    BY <1>1 DEF Typed, RoundsOK, Small
  <2>2. Len(round[d].page) \in Nat /\ Len(round[d].failed) \in Nat /\ round[d].size \in Nat
    BY <2>1, DispatcherAssumption DEF Rounds
  <2>3. \A a, b, c \in Nat : a + b <= c => a <= c /\ b <= c
    OBVIOUS
  <2> QED
    BY <2>1, <2>2, <2>3
<1> QED
  BY <1>1, <1>2 DEF Typed, TypeOK, QueueOK, ControlOK, PlacesOK, Places, CallsOK, Calls,
     ToldOK, FaultsOK

LEMMA QueueSame ==
    ASSUME QueueOK, UNCHANGED queue
    PROVE  QueueOK' /\ Submitted' = Submitted /\ Fresh' = Fresh
  BY DEF queue, QueueOK, Submitted, Fresh, Accepted

\* A process whose worker stays in its place.
LEMMA Stays ==
    ASSUME NEW e \in Dispatchers, Steady(e),
           round'[e] = round[e], pc'[e][Worker] = pc[e][Worker],
           told'[e] = told[e], owed'[e] \subseteq owed[e] \cup Submitted', wake[e] => wake'[e],
           Submitted \subseteq Submitted', Fresh' \subseteq Fresh
    PROVE  Steady(e)'
<1>1. Left(e)' = Left(e) /\ Partial(e)' = Partial(e)
  BY DEF Left, Partial
<1>2. Loaded(e)' /\ Behind(e)'
  BY <1>1 DEF Steady, Loaded, Behind
<1>3. Rested(e)'
  BY <1>1 DEF Steady, Rested
<1> QED
  BY <1>2, <1>3 DEF Steady, Known

\* A process whose worker is out of its loop, or at the top of it.
LEMMA Leaves ==
    ASSUME NEW e \in Dispatchers, Steady(e),
           round'[e] = round[e] \/ round'[e] = NoRound, pc'[e][Worker] \notin InLoop,
           told'[e] = told[e], owed'[e] \subseteq owed[e] \cup Submitted',
           Submitted \subseteq Submitted'
    PROVE  Steady(e)'
<1>1. NoRound.page = <<>> /\ ToSet(<<>>) = {}
  BY NothingLeft DEF NoRound
<1>2. ToSet(round'[e].page) \subseteq Submitted'
  BY <1>1 DEF Steady, Loaded
<1>3. Loaded(e)' /\ Behind(e)' /\ Rested(e)'
  BY <1>2 DEF Loaded, Behind, Rested, InLoop, InRound
<1> QED
  BY <1>3 DEF Steady, Known

LEMMA EmptyRound ==
    /\ NoRound \in Rounds /\ NoRound.page = <<>> /\ NoRound.failed = <<>> /\ NoRound.size = 0
    /\ Small(NoRound) /\ Ascending(NoRound.page)
<1>1. NoRound.page = <<>> /\ NoRound.failed = <<>> /\ NoRound.size = 0
  BY DEF NoRound
<1>2. NoRound \in Rounds
  <2>1. 0 \in 0 .. PageSize /\ <<>> \in Seq(Tasks)
    BY DispatcherAssumption, NothingLeft
  <2> QED
    BY <2>1 DEF NoRound, Rounds
<1> QED
  BY <1>1, <1>2, NothingLeft DEF Small

-----------------------------------------------------------------------------
(* The worker.                                                             *)

LEMMA WorkerMoves ==
    ASSUME PlacesOK, NEW d \in Dispatchers, NEW p \in Places, Go(d, Worker, p)
    PROVE  /\ PlacesOK' /\ pc'[d][Worker] = p
           /\ \A e \in Dispatchers \ {d} : pc'[e] = pc[e]
<1>1. Worker \in Threads
  BY DEF Threads
<1> QED
  BY <1>1 DEF PlacesOK, Go

LEMMA RoundMoves ==
    ASSUME RoundsOK, NEW d \in Dispatchers, NEW r \in Rounds, Small(r), Ascending(r.page),
           round' = [round EXCEPT ![d] = r]
    PROVE  /\ RoundsOK' /\ round'[d] = r
           /\ \A e \in Dispatchers \ {d} : round'[e] = round[e]
<1>1. /\ round' \in [Dispatchers -> Rounds] /\ round'[d] = r
      /\ \A e \in Dispatchers \ {d} : round'[e] = round[e]
  BY DEF RoundsOK
<1>2. ASSUME NEW e \in Dispatchers PROVE Small(round'[e]) /\ Ascending(round'[e].page)
  <2>1. CASE e = d
    BY <1>1, <2>1
  <2>2. CASE e # d
    BY <1>1, <2>2 DEF RoundsOK
  <2> QED
    BY <2>1, <2>2
<1> QED
  BY <1>1, <1>2 DEF RoundsOK, Small, Ascending

\* A step of the worker keeps the invariant if it keeps what is said of its
\* own round.
LEMMA RoundStep ==
    ASSUME RInv, NEW d \in Dispatchers, NEW p \in Places, NEW r \in Rounds,
           Go(d, Worker, p), round' = [round EXCEPT ![d] = r], Small(r), Ascending(r.page),
           QueueOK', Submitted' = Submitted, Fresh' \subseteq Fresh,
           ControlOK', \A e \in Dispatchers \ {d} : wake[e] => wake'[e],
           UNCHANGED clients, FaultsOK',
           Loaded(d)', Behind(d)', Rested(d)'
    PROVE  RInv'
<1>1. PlacesOK' /\ \A e \in Dispatchers \ {d} : pc'[e] = pc[e]
  BY WorkerMoves DEF RInv, Typed
<1>2. RoundsOK' /\ \A e \in Dispatchers \ {d} : round'[e] = round[e]
  BY RoundMoves DEF RInv, Typed
<1>3. Typed'
  BY <1>1, <1>2 DEF RInv, Typed, clients, CallsOK, ToldOK
<1>4. Prefix'
  BY DEF RInv, Prefix
<1>5. ASSUME NEW e \in Dispatchers PROVE Steady(e)'
  <2>1. Known(e)'
    BY DEF RInv, Steady, Known, clients
  <2>2. CASE e = d
    BY <2>1, <2>2 DEF Steady
  <2>3. CASE e # d
    <3>1. /\ Steady(e) /\ round'[e] = round[e] /\ pc'[e][Worker] = pc[e][Worker]
          /\ told'[e] = told[e] /\ owed'[e] = owed[e] /\ (wake[e] => wake'[e])
      BY <1>1, <1>2, <2>3 DEF RInv, clients
    <3> QED
      BY <3>1, Stays
  <2> QED
    BY <2>2, <2>3
<1> QED
  BY <1>3, <1>4, <1>5 DEF RInv

\* A step that leaves the rounds, the rows and the wake-ups alone.
LEMMA QuietStep ==
    ASSUME RInv, NEW d \in Dispatchers, NEW p \in Places, Go(d, Worker, p),
           UNCHANGED <<queue, control, round, clients, faults>>
    PROVE  /\ pc'[d][Worker] = p /\ round'[d] = round[d]
           /\ Submitted' = Submitted /\ Fresh' = Fresh
           /\ Left(d)' = Left(d) /\ Partial(d)' = Partial(d)
           /\ Loaded(d)' /\ Behind(d)' /\ Rested(d)' => RInv'
<1>1. QueueOK' /\ Submitted' = Submitted /\ Fresh' = Fresh
  BY QueueSame DEF RInv, Typed
<1>2. pc'[d][Worker] = p
  BY WorkerMoves DEF RInv, Typed
<1>3. Left(d)' = Left(d) /\ Partial(d)' = Partial(d)
  BY DEF Left, Partial
<1>4. /\ round[d] \in Rounds /\ Small(round[d]) /\ Ascending(round[d].page)
      /\ round' = [round EXCEPT ![d] = round[d]]
  BY DEF RInv, Typed, RoundsOK
<1>5. ControlOK' /\ FaultsOK'
  BY DEF RInv, Typed, ControlOK, FaultsOK, control
<1>6. \A e \in Dispatchers \ {d} : wake[e] => wake'[e]
  BY DEF control
<1>7. ASSUME Loaded(d)', Behind(d)', Rested(d)' PROVE RInv'
  BY <1>1, <1>4, <1>5, <1>6, <1>7, RoundStep
<1> QED
  BY <1>1, <1>2, <1>3, <1>7

\* Steps of the worker that only move it on.
LEMMA MovesOn ==
    ASSUME RInv, NEW d \in Dispatchers, NEW p \in Places, Go(d, Worker, p),
           UNCHANGED <<queue, control, round, clients, faults>>,
           p \in InLoop =>
              /\ pc[d][Worker] \in InLoop
              /\ p \in InRound => pc[d][Worker] \in InRound
              /\ p \in Holding => pc[d][Worker] \in Holding \/ round[d].page # <<>>
              /\ p = "defer" => round[d].page = <<>>
              /\ p # "asleep"
    PROVE  RInv'
<1>1. /\ pc'[d][Worker] = p /\ round'[d] = round[d]
      /\ Submitted' = Submitted /\ Fresh' = Fresh
      /\ Left(d)' = Left(d) /\ Partial(d)' = Partial(d)
      /\ Loaded(d)' /\ Behind(d)' /\ Rested(d)' => RInv'
  BY QuietStep
<1>2. /\ Loaded(d) /\ Behind(d) /\ Rested(d)
      /\ told' = told /\ wake' = wake
  BY DEF RInv, Steady, clients, control
<1>3. Loaded(d)'
  BY <1>1, <1>2 DEF Loaded, InLoop, InRound, Holding
<1>4. Behind(d)'
  BY <1>1, <1>2 DEF Behind, InLoop
<1>5. Rested(d)'
  BY <1>1, <1>2 DEF Rested, InLoop, InRound, Holding
<1> QED
  BY <1>1, <1>3, <1>4, <1>5

\* The stop event empties the page and marks the round as not completed.
LEMMA AbandonRound ==
    ASSUME RInv, NEW d \in Dispatchers, Abandon(d),
           UNCHANGED <<queue, control, clients, faults>>
    PROVE  RInv'
<1> DEFINE r == [round[d] EXCEPT !.page = <<>>, !.completed = FALSE]
<1>1. round[d] \in Rounds /\ Small(round[d])
  BY DEF RInv, Typed, RoundsOK
<1>2. /\ r \in Rounds /\ r.page = <<>> /\ r.completed = FALSE
      /\ r.failed = round[d].failed /\ r.size = round[d].size
  BY <1>1, NothingLeft DEF Rounds
<1>3. round' = [round EXCEPT ![d] = r]
  BY DEF RInv, Typed, RoundsOK, Abandon
<1> HIDE DEF r
<1>4. Small(r) /\ Ascending(r.page)
  <2>1. \A a, b, c \in Nat : a + b <= c => 0 + b <= c
    OBVIOUS
  <2>2. Len(round[d].page) \in Nat /\ Len(round[d].failed) \in Nat /\ round[d].size \in Nat
    BY <1>1, DispatcherAssumption DEF Rounds
  <2> QED
    BY <1>1, <1>2, <2>1, <2>2, NothingLeft DEF Small
<1>5. QueueOK' /\ Submitted' = Submitted /\ Fresh' = Fresh
  BY QueueSame DEF RInv, Typed
<1>6. "defer" \in Places /\ Go(d, Worker, "defer")
  BY DEF Places, Looping, Abandon
<1>7. pc'[d][Worker] = "defer" /\ round'[d] = r
  BY <1>2, <1>3, <1>4, <1>6, WorkerMoves, RoundMoves DEF RInv, Typed
<1>8. Loaded(d)' /\ Behind(d)' /\ Rested(d)'
  BY <1>2, <1>7, NothingLeft DEF Loaded, Behind, Rested, Partial, Holding, InRound
<1>9. ControlOK' /\ FaultsOK' /\ \A e \in Dispatchers : wake[e] => wake'[e]
  BY DEF RInv, Typed, ControlOK, FaultsOK, control
<1> QED
  BY <1>2, <1>3, <1>4, <1>5, <1>6, <1>8, <1>9, RoundStep

\* The head of the page is done with: it is no longer fresh, or has failed.
LEMMA FinishingRound ==
    ASSUME RInv, NEW d \in Dispatchers, NEW failed \in Seq(Tasks),
           pc[d][Worker] \in Holding,
           Len(failed) <= Len(round[d].failed) + 1,
           ToSet(round[d].failed) \subseteq ToSet(failed),
           Current(d) \notin Fresh' \/ Current(d) \in ToSet(failed),
           Finishing(d, failed), Go(d, Worker, "returning"),
           QueueOK', Submitted' = Submitted, Fresh' \subseteq Fresh,
           UNCHANGED <<control, clients>>, FaultsOK'
    PROVE  RInv'
<1> DEFINE r == [round[d] EXCEPT !.page = Tail(@), !.failed = failed]
<1>1. /\ round[d] \in Rounds /\ Small(round[d]) /\ Ascending(round[d].page)
      /\ Loaded(d) /\ Behind(d) /\ Rested(d)
  BY DEF RInv, Typed, RoundsOK, Steady
<1>2. round[d].page \in Seq(Tasks) /\ round[d].page # <<>>
  BY <1>1 DEF Rounds, Loaded
<1>3. /\ Tail(round[d].page) \in Seq(Tasks) /\ Ascending(Tail(round[d].page))
      /\ Len(Tail(round[d].page)) = Len(round[d].page) - 1 /\ Len(round[d].page) \in Nat
      /\ ToSet(round[d].page) = {Current(d)} \cup ToSet(Tail(round[d].page))
  BY <1>1, <1>2, FirstAndRest, FirstIsOldest DEF Current
<1>4. /\ r \in Rounds /\ r.page = Tail(round[d].page) /\ r.failed = failed
      /\ r.size = round[d].size /\ r.completed = round[d].completed
      /\ r.clean = round[d].clean
  BY <1>1, <1>3 DEF Rounds
<1>5. round' = [round EXCEPT ![d] = r]
  BY DEF RInv, Typed, RoundsOK, Finishing
<1> HIDE DEF r
<1>6. Small(r) /\ Ascending(r.page)
  <2>1. \A a, b, c, e \in Nat : a + b <= c /\ e <= b + 1 => (a - 1) + e <= c
    OBVIOUS
  <2>2. /\ Len(round[d].page) \in Nat /\ Len(round[d].failed) \in Nat
        /\ round[d].size \in Nat /\ Len(failed) \in Nat
    BY <1>1, DispatcherAssumption DEF Rounds
  <2> QED
    BY <1>1, <1>3, <1>4, <2>1, <2>2 DEF Small
<1>7. "returning" \in Places
  BY DEF Places, Looping
<1>8. pc'[d][Worker] = "returning" /\ round'[d] = r
  BY <1>4, <1>5, <1>6, <1>7, WorkerMoves, RoundMoves DEF RInv, Typed
<1>9. ToSet(r.page) \subseteq ToSet(round[d].page)
  BY <1>3, <1>4
<1>10. \A u \in Fresh' : u \in Left(d) => u \in Left(d)'
  BY <1>3, <1>4, <1>8 DEF Left
<1>11. told' = told /\ wake' = wake
  BY DEF control, clients
<1>12. Loaded(d)'
  BY <1>1, <1>8, <1>9 DEF Loaded, Holding
<1>13. Behind(d)'
  BY <1>1, <1>8, <1>9, <1>10 DEF Behind, InRound
<1>14. Rested(d)'
  <2>1. Partial(d)' = Partial(d)
    BY <1>4, <1>8 DEF Partial
  <2> QED
    BY <1>1, <1>8, <1>10, <1>11, <2>1 DEF Rested, InLoop, InRound
<1>15. ControlOK' /\ \A e \in Dispatchers : wake[e] => wake'[e]
  BY <1>11 DEF RInv, Typed, ControlOK, control
<1> QED
  BY <1>4, <1>5, <1>6, <1>7, <1>12, <1>13, <1>14, <1>15, RoundStep

\* A row that is claimed or ends is no longer fresh.
LEMMA RowMoves ==
    ASSUME QueueOK, NEW t \in Submitted, NEW s \in {"running", "ended"},
           state' = [state EXCEPT ![t] = s], UNCHANGED cooldown
    PROVE  QueueOK' /\ Submitted' = Submitted /\ Fresh' \subseteq Fresh /\ t \notin Fresh'
<1>1. t \in Tasks
  BY DEF Submitted
<1>2. QueueOK' /\ state'[t] = s /\ \A u \in Tasks \ {t} : state'[u] = state[u]
  BY <1>1 DEF QueueOK
<1>3. Submitted' = Submitted
  BY <1>1, <1>2 DEF Submitted
<1> QED
  BY <1>1, <1>2, <1>3 DEF Fresh, Accepted

\* The row at the head of the page.
LEMMA HeadOfPage ==
    ASSUME RInv, NEW d \in Dispatchers, pc[d][Worker] \in Holding
    PROVE  /\ round[d].page \in Seq(Tasks) /\ round[d].page # <<>>
           /\ round[d].failed \in Seq(Tasks)
           /\ Current(d) \in ToSet(round[d].page)
           /\ Current(d) \in Tasks /\ Current(d) \in Submitted
<1>1. round[d] \in Rounds /\ Loaded(d)
  BY DEF RInv, Typed, RoundsOK, Steady
<1>2. round[d].page \in Seq(Tasks) /\ round[d].page # <<>> /\ round[d].failed \in Seq(Tasks)
  BY <1>1 DEF Rounds, Loaded
<1> QED
  BY <1>1, <1>2, FirstAndRest DEF Current, Loaded

\* At the top of the loop the wake-up is cleared, before the page is read.
LEMMA WorkerTopSafe ==
    ASSUME RInv, NEW d \in Dispatchers, WorkerTop(d)
    PROVE  RInv'
<1>1. PICK p \in {"finally", "scan"} : Go(d, Worker, p)
  BY DEF WorkerTop
<1>2. p \in Places /\ p \notin InLoop
  BY <1>1 DEF Places, Looping, InLoop, InRound, Holding
<1>3. /\ UNCHANGED <<queue, clients, faults, lock, life, holds, stop, finished, round>>
      /\ wake' = wake \/ wake' = [wake EXCEPT ![d] = FALSE]
  BY DEF WorkerTop
<1>4. QueueOK' /\ Submitted' = Submitted /\ Fresh' = Fresh
  BY <1>3, QueueSame DEF RInv, Typed
<1>5. /\ round[d] \in Rounds /\ Small(round[d]) /\ Ascending(round[d].page)
      /\ round' = [round EXCEPT ![d] = round[d]]
  BY <1>3 DEF RInv, Typed, RoundsOK
<1>6. ControlOK' /\ FaultsOK' /\ \A e \in Dispatchers \ {d} : wake[e] => wake'[e]
  BY <1>3 DEF RInv, Typed, ControlOK, FaultsOK
<1>7. pc'[d][Worker] = p
  BY <1>1, <1>2, WorkerMoves DEF RInv, Typed
<1>8. Loaded(d)' /\ Behind(d)' /\ Rested(d)'
  <2>1. ToSet(round'[d].page) \subseteq Submitted'
    BY <1>3, <1>4 DEF RInv, Steady, Loaded
  <2> QED
    BY <1>2, <1>7, <2>1 DEF Loaded, Behind, Rested, InLoop, InRound
<1> QED
  BY <1>1, <1>2, <1>3, <1>4, <1>5, <1>6, <1>8, RoundStep

\* A page that is not full has every task that is ready, so every fresh one.
LEMMA ScanSafe ==
    ASSUME RInv, NEW d \in Dispatchers, Scan(d)
    PROVE  RInv'
<1>1. PICK page \in Pages :
         round' = [round EXCEPT ![d] = [NoRound EXCEPT !.page = page, !.size = Len(page)]]
  BY DEF Scan
<1> DEFINE r == [NoRound EXCEPT !.page = page, !.size = Len(page)]
<1>2. /\ page \in Seq(Tasks) /\ Len(page) \in 0 .. PageSize /\ Ascending(page)
      /\ ToSet(page) \subseteq Ready
      /\ \A t \in Ready : \/ t \in ToSet(page)
                          \/ Len(page) = PageSize /\ \A u \in ToSet(page) : u < t
  BY PageIsGood DEF RInv, Typed
<1>3. /\ r \in Rounds /\ r.page = page /\ r.size = Len(page) /\ r.failed = <<>>
  BY <1>2, NothingLeft DEF NoRound, Rounds
<1>4. round' = [round EXCEPT ![d] = r]
  BY <1>1
<1> HIDE DEF r
<1>5. Small(r) /\ Ascending(r.page)
  <2>1. Len(r.page) + Len(r.failed) = Len(page)
    BY <1>2, <1>3, NothingLeft
  <2> QED
    BY <1>2, <1>3, <2>1 DEF Small
<1>6. "item" \in Places /\ Go(d, Worker, "item")
  BY DEF Places, Looping, Scan
<1>7. /\ UNCHANGED <<queue, control, clients, faults>>
      /\ QueueOK' /\ Submitted' = Submitted /\ Fresh' = Fresh
  BY QueueSame DEF RInv, Typed, Scan
<1>8. pc'[d][Worker] = "item" /\ round'[d] = r
  BY <1>3, <1>4, <1>5, <1>6, WorkerMoves, RoundMoves DEF RInv, Typed
<1>9. Fresh \subseteq Ready /\ Ready \subseteq Submitted /\ Ready \subseteq Nat
  BY DEF Fresh, Ready, Accepted, Submitted, Tasks
<1>10. Loaded(d)'
  BY <1>2, <1>3, <1>7, <1>8, <1>9 DEF Loaded, Holding
<1>11. Left(d)' = ToSet(page)
  BY <1>3, <1>8, NothingLeft DEF Left
<1>12. Behind(d)'
  <2>1. ASSUME NEW u \in Fresh, NEW t \in ToSet(page), u < t PROVE u \in ToSet(page)
    <3>1. t \in Nat /\ u \in Nat /\ u \in Ready
      BY <1>2, <1>9, <2>1
    <3>2. ~(t < u)
      BY <2>1, <3>1
    <3> QED
      BY <1>2, <3>1, <3>2
  <2> QED
    BY <1>3, <1>7, <1>8, <1>11, <2>1 DEF Behind
<1>13. Rested(d)'
  <2>1. Partial(d)' => Len(page) < PageSize
    BY <1>3, <1>8 DEF Partial
  <2>2. Len(page) < PageSize => Fresh \subseteq ToSet(page)
    BY <1>2, <1>9, DispatcherAssumption
  <2> QED
    BY <1>7, <1>8, <1>11, <2>1, <2>2 DEF Rested
<1>14. ControlOK' /\ FaultsOK' /\ \A e \in Dispatchers : wake[e] => wake'[e]
  BY <1>7 DEF RInv, Typed, ControlOK, FaultsOK, control
<1> QED
  BY <1>3, <1>4, <1>5, <1>6, <1>7, <1>10, <1>12, <1>13, <1>14, RoundStep

\* A round that could not read its page is not clean.
LEMMA ScanFailsSafe ==
    ASSUME RInv, NEW d \in Dispatchers, ScanFails(d)
    PROVE  RInv'
<1> DEFINE r == [NoRound EXCEPT !.completed = FALSE, !.clean = FALSE]
<1>1. /\ r \in Rounds /\ r.page = <<>> /\ r.failed = <<>> /\ r.clean = FALSE /\ r.size = 0
  <2>1. NoRound \in Rounds /\ NoRound.page = <<>> /\ NoRound.failed = <<>> /\ NoRound.size = 0
    BY EmptyRound
  <2> QED
    BY <2>1 DEF Rounds
<1>2. round' = [round EXCEPT ![d] = r]
  BY DEF ScanFails
<1> HIDE DEF r
<1>3. Small(r) /\ Ascending(r.page)
  BY <1>1, NothingLeft DEF Small
<1>4. "defer" \in Places /\ Go(d, Worker, "defer")
  BY DEF Places, Looping, ScanFails
<1>5. /\ UNCHANGED <<queue, control, clients>>
      /\ QueueOK' /\ Submitted' = Submitted /\ Fresh' = Fresh
  BY QueueSame DEF RInv, Typed, ScanFails
<1>6. pc'[d][Worker] = "defer" /\ round'[d] = r
  BY <1>1, <1>2, <1>3, <1>4, WorkerMoves, RoundMoves DEF RInv, Typed
<1>7. Loaded(d)' /\ Behind(d)' /\ Rested(d)'
  BY <1>1, <1>6, NothingLeft DEF Loaded, Behind, Rested, Partial, Holding, InRound
<1>8. FaultsOK'
  BY DispatcherAssumption DEF RInv, Typed, FaultsOK, ScanFails, Faulty
<1>9. ControlOK' /\ \A e \in Dispatchers : wake[e] => wake'[e]
  BY <1>5 DEF RInv, Typed, ControlOK, control
<1> QED
  BY <1>1, <1>2, <1>3, <1>4, <1>5, <1>7, <1>8, <1>9, RoundStep

\* The first steps of a row: a stop empties the page, anything else moves on.
LEMMA WaitingSafe ==
    ASSUME RInv, NEW d \in Dispatchers,
           NextItem(d) \/ Permit(d) \/ Begin(d) \/ ReturnPermit(d) \/ WakeUp(d)
    PROVE  RInv'
<1> USE DEF Places, Looping, InLoop, InRound, Holding
<1>1. UNCHANGED <<queue, control, clients, faults>>
  BY DEF NextItem, Permit, Begin, ReturnPermit, WakeUp
<1>2. CASE Abandon(d)
  BY <1>1, <1>2, AbandonRound
<1>3. CASE NextItem(d) /\ ~Abandon(d)
  <2>1. PICK p \in {"defer", "waiting"} :
           /\ Go(d, Worker, p) /\ UNCHANGED round /\ pc[d][Worker] = "item"
           /\ p = "defer" <=> round[d].page = <<>>
    BY <1>3 DEF NextItem, At
  <2> QED
    BY <1>1, <2>1, MovesOn
<1>4. CASE Permit(d) /\ ~Abandon(d)
  BY <1>1, <1>4, MovesOn DEF Permit, At
<1>5. CASE Begin(d) /\ ~Abandon(d)
  BY <1>1, <1>5, MovesOn DEF Begin, At
<1>6. CASE ReturnPermit(d)
  BY <1>6, MovesOn DEF ReturnPermit, At
<1>7. CASE WakeUp(d)
  BY <1>7, MovesOn DEF WakeUp, At
<1> QED
  BY <1>2, <1>3, <1>4, <1>5, <1>6, <1>7

\* The row is claimed if it is still accepted, and passed over if it is not.
LEMMA ExecuteSafe ==
    ASSUME RInv, NEW d \in Dispatchers, Execute(d)
    PROVE  RInv'
<1>1. pc[d][Worker] = "executing" /\ pc[d][Worker] \in Holding
      /\ UNCHANGED <<cooldown, control, clients, faults>>
  BY DEF Execute, At, Holding
<1>2. ControlOK' /\ FaultsOK' /\ \A e \in Dispatchers : wake[e] => wake'[e]
  BY <1>1 DEF RInv, Typed, ControlOK, FaultsOK, control
<1>3. /\ Current(d) \in Submitted /\ Current(d) \in Tasks
      /\ round[d].failed \in Seq(Tasks) /\ round[d].page # <<>>
  BY <1>1, HeadOfPage
<1>4. CASE Current(d) \in Accepted
  <2>1. /\ state' = [state EXCEPT ![Current(d)] = "running"]
        /\ Go(d, Worker, "running") /\ UNCHANGED round
    BY <1>4 DEF Execute
  <2>2. QueueOK' /\ Submitted' = Submitted /\ Fresh' \subseteq Fresh
    BY <1>1, <1>3, <2>1, RowMoves DEF RInv, Typed
  <2>3. /\ round[d] \in Rounds /\ Small(round[d]) /\ Ascending(round[d].page)
        /\ round' = [round EXCEPT ![d] = round[d]]
    BY <2>1 DEF RInv, Typed, RoundsOK
  <2>4. "running" \in Places
    BY DEF Places, Looping
  <2>5. pc'[d][Worker] = "running"
    BY <2>1, <2>4, WorkerMoves DEF RInv, Typed
  <2>6. Loaded(d) /\ Behind(d) /\ Rested(d) /\ told' = told /\ wake' = wake
    BY <1>1 DEF RInv, Steady, clients, control
  <2>7. Left(d)' = Left(d) /\ Partial(d)' = Partial(d)
    BY <2>1 DEF Left, Partial
  <2>8. Loaded(d)'
    BY <1>3, <2>1, <2>2, <2>5, <2>6 DEF Loaded
  <2>9. Behind(d)'
    BY <1>1, <2>1, <2>2, <2>5, <2>6, <2>7 DEF Behind, InRound
  <2>10. Rested(d)'
    BY <1>1, <2>1, <2>2, <2>5, <2>6, <2>7 DEF Rested, InLoop, InRound
  <2> QED
    BY <1>1, <1>2, <2>1, <2>2, <2>3, <2>4, <2>8, <2>9, <2>10, RoundStep
<1>5. CASE Current(d) \notin Accepted
  <2>1. UNCHANGED queue /\ Finishing(d, round[d].failed) /\ Go(d, Worker, "returning")
    BY <1>1, <1>5 DEF Execute, queue
  <2>2. QueueOK' /\ Submitted' = Submitted /\ Fresh' = Fresh
    BY <2>1, QueueSame DEF RInv, Typed
  <2>3. Current(d) \notin Fresh'
    BY <1>5, <2>2 DEF Fresh
  <2>4. Len(round[d].failed) <= Len(round[d].failed) + 1
    BY <1>3
  <2> QED
    BY <1>1, <1>2, <1>3, <2>1, <2>2, <2>3, <2>4, FinishingRound
<1> QED
  BY <1>4, <1>5

\* What fails is kept for the end of the round, claimed or not.
LEMMA RaisesSafe ==
    ASSUME RInv, NEW d \in Dispatchers, ExecuteRaises(d) \/ RunRaises(d)
    PROVE  RInv'
<1>1. /\ pc[d][Worker] \in Holding
      /\ Finishing(d, Append(round[d].failed, Current(d))) /\ Go(d, Worker, "returning")
      /\ UNCHANGED <<queue, control, clients>> /\ (UNCHANGED faults \/ Faulty)
  BY DEF ExecuteRaises, RunRaises, At, Holding
<1>2. ControlOK' /\ FaultsOK'
  BY <1>1, DispatcherAssumption DEF RInv, Typed, ControlOK, FaultsOK, control, Faulty
<1>3. Current(d) \in Tasks /\ round[d].failed \in Seq(Tasks)
  BY <1>1, HeadOfPage
<1> DEFINE failed == Append(round[d].failed, Current(d))
<1>4. /\ failed \in Seq(Tasks) /\ Len(failed) = Len(round[d].failed) + 1
      /\ ToSet(failed) = ToSet(round[d].failed) \cup {Current(d)}
  BY <1>3, OneMore
<1>5. Len(failed) <= Len(round[d].failed) + 1
  BY <1>3, <1>4
<1>6. QueueOK' /\ Submitted' = Submitted /\ Fresh' = Fresh
  BY <1>1, QueueSame DEF RInv, Typed
<1>7. Finishing(d, failed)
  BY <1>1
<1> HIDE DEF failed
<1> QED
  BY <1>1, <1>2, <1>4, <1>5, <1>6, <1>7, FinishingRound

LEMMA ExecuteEndsSafe ==
    ASSUME RInv, NEW d \in Dispatchers, ExecuteEnds(d)
    PROVE  RInv'
<1>1. /\ pc[d][Worker] \in Holding /\ state' = [state EXCEPT ![Current(d)] = "ended"]
      /\ Finishing(d, round[d].failed) /\ Go(d, Worker, "returning")
      /\ UNCHANGED <<cooldown, control, clients, faults>>
  BY DEF ExecuteEnds, At, Holding
<1>2. ControlOK' /\ FaultsOK'
  BY <1>1 DEF RInv, Typed, ControlOK, FaultsOK, control
<1>3. Current(d) \in Submitted /\ round[d].failed \in Seq(Tasks)
  BY <1>1, HeadOfPage
<1>4. QueueOK' /\ Submitted' = Submitted /\ Fresh' \subseteq Fresh /\ Current(d) \notin Fresh'
  BY <1>1, <1>3, RowMoves DEF RInv, Typed
<1>5. Len(round[d].failed) <= Len(round[d].failed) + 1
  BY <1>3
<1> QED
  BY <1>1, <1>2, <1>3, <1>4, <1>5, FinishingRound

\* A permit that cannot be given back stops the dispatcher and spoils the round.
LEMMA ReturnFailsSafe ==
    ASSUME RInv, NEW d \in Dispatchers, ReturnFails(d)
    PROVE  RInv'
<1> DEFINE r == [round[d] EXCEPT !.completed = FALSE]
<1>1. /\ round[d] \in Rounds /\ Small(round[d]) /\ Ascending(round[d].page)
      /\ Loaded(d) /\ Behind(d)
  BY DEF RInv, Typed, RoundsOK, Steady
<1>2. /\ r \in Rounds /\ r.page = round[d].page /\ r.failed = round[d].failed
      /\ r.size = round[d].size /\ r.completed = FALSE
  BY <1>1 DEF Rounds
<1>3. /\ round' = [round EXCEPT ![d] = r]
      /\ pc[d][Worker] = "returning" /\ Go(d, Worker, "item")
      /\ UNCHANGED <<queue, lock, life, holds, finished, clients>>
      /\ stop' = [stop EXCEPT ![d] = TRUE] /\ wake' = [wake EXCEPT ![d] = TRUE]
  BY DEF ReturnFails, RInv, Typed, RoundsOK, At, Raise
<1> HIDE DEF r
<1>4. Small(r) /\ Ascending(r.page)
  BY <1>1, <1>2 DEF Small
<1>5. "item" \in Places
  BY DEF Places, Looping
<1>6. pc'[d][Worker] = "item" /\ round'[d] = r
  BY <1>2, <1>3, <1>4, <1>5, WorkerMoves, RoundMoves DEF RInv, Typed
<1>7. QueueOK' /\ Submitted' = Submitted /\ Fresh' = Fresh
  BY <1>3, QueueSame DEF RInv, Typed
<1>8. Left(d)' = Left(d)
  BY <1>2, <1>6 DEF Left
<1>9. Loaded(d)' /\ Behind(d)' /\ Rested(d)'
  BY <1>1, <1>2, <1>3, <1>6, <1>7, <1>8 DEF Loaded, Behind, Rested, Partial, Holding, InRound
<1>10. FaultsOK'
  BY DispatcherAssumption DEF RInv, Typed, FaultsOK, ReturnFails, Faulty
<1>11. ControlOK' /\ \A e \in Dispatchers : wake[e] => wake'[e]
  BY <1>3 DEF RInv, Typed, ControlOK
<1> QED
  BY <1>2, <1>3, <1>4, <1>5, <1>7, <1>9, <1>10, <1>11, RoundStep

\* The first of what failed is put off, or the round is not clean.
LEMMA DeferSafe ==
    ASSUME RInv, NEW d \in Dispatchers, Defer(d) \/ DeferFails(d)
    PROVE  RInv'
<1> DEFINE t == Head(round[d].failed)
           clean == IF Defer(d) THEN round[d].clean ELSE FALSE
           r == [round[d] EXCEPT !.failed = Tail(@), !.clean = clean]
<1>1. /\ pc[d][Worker] = "defer" /\ round[d].failed # <<>>
      /\ UNCHANGED <<state, control, pc, clients>>
  BY DEF Defer, DeferFails, At, queue
<1>2. /\ round[d] \in Rounds /\ Small(round[d]) /\ Ascending(round[d].page)
      /\ Loaded(d) /\ Rested(d)
  BY DEF RInv, Typed, RoundsOK, Steady
<1>3. /\ t \in Tasks /\ Tail(round[d].failed) \in Seq(Tasks)
      /\ Len(Tail(round[d].failed)) = Len(round[d].failed) - 1
      /\ Len(round[d].failed) \in Nat
      /\ ToSet(round[d].failed) = {t} \cup ToSet(Tail(round[d].failed))
  <2>1. round[d].failed \in Seq(Tasks)
    BY <1>2 DEF Rounds
  <2> QED
    BY <1>1, <2>1, FirstAndRest
<1>4. clean \in BOOLEAN /\ (clean => Defer(d) /\ round[d].clean)
  BY <1>2 DEF Rounds
<1>5. round' = [round EXCEPT ![d] = r]
  <2>1. CASE Defer(d)
    <3>1. clean = round[d].clean
      BY <2>1
    <3>2. r = [round[d] EXCEPT !.failed = Tail(@)]
      BY <1>2, <3>1 DEF Rounds
    <3>3. round' = [round EXCEPT ![d].failed = Tail(@)]
      BY <2>1 DEF Defer
    <3> QED
      BY <3>2, <3>3 DEF RInv, Typed, RoundsOK
  <2>2. CASE ~Defer(d)
    <3>1. clean = FALSE
      BY <2>2
    <3>2. round' = [round EXCEPT ![d].failed = Tail(@), ![d].clean = FALSE]
      BY <2>2 DEF DeferFails
    <3> QED
      BY <3>1, <3>2 DEF RInv, Typed, RoundsOK
  <2> QED
    BY <2>1, <2>2
<1> HIDE DEF clean
<1>6. /\ r \in Rounds /\ r.page = round[d].page /\ r.failed = Tail(round[d].failed)
      /\ r.size = round[d].size /\ r.completed = round[d].completed /\ r.clean = clean
  BY <1>2, <1>3, <1>4 DEF Rounds
<1> HIDE DEF r
<1>7. Small(r) /\ Ascending(r.page)
  <2>1. \A a, b, c \in Nat : a + b <= c => a + (b - 1) <= c
    OBVIOUS
  <2>2. Len(round[d].page) \in Nat /\ round[d].size \in Nat
    BY <1>2, DispatcherAssumption DEF Rounds
  <2> QED
    BY <1>2, <1>3, <1>6, <2>1, <2>2 DEF Small
<1>8. "defer" \in Places /\ Go(d, Worker, "defer")
  BY <1>1 DEF Places, Looping, Go, RInv, Typed, PlacesOK
<1>9. pc'[d][Worker] = "defer" /\ round'[d] = r
  BY <1>1, <1>5, <1>6, <1>7, RoundMoves DEF RInv, Typed
<1>10. /\ QueueOK' /\ Submitted' = Submitted /\ Fresh' \subseteq Fresh
       /\ Defer(d) => t \notin Fresh'
  <2>1. QueueOK
    BY DEF RInv, Typed
  <2>2. CASE Defer(d)
    <3>1. cooldown' = [cooldown EXCEPT ![t] = IF t \in Accepted THEN "cooling" ELSE cooldown[t]]
      BY <2>2 DEF Defer
    <3>2. /\ cooldown' \in [Tasks -> {"never", "cooling", "over"}]
          /\ \A u \in Tasks \ {t} : cooldown'[u] = cooldown[u]
          /\ t \in Accepted => cooldown'[t] = "cooling"
          /\ t \notin Accepted => cooldown'[t] = cooldown[t]
      BY <1>3, <2>1, <3>1 DEF QueueOK
    <3>3. Accepted' = Accepted /\ Accepted \subseteq Tasks /\ Submitted' = Submitted
      BY <1>1 DEF Accepted, Submitted
    <3>4. t \notin Fresh' /\ Fresh' \subseteq Fresh
      BY <1>3, <3>2, <3>3 DEF Fresh
    <3> QED
      BY <1>1, <2>1, <3>2, <3>3, <3>4 DEF QueueOK
  <2>3. CASE ~Defer(d)
    <3>1. UNCHANGED queue
      BY <2>3 DEF DeferFails
    <3> QED
      BY <2>1, <2>3, <3>1, QueueSame
  <2> QED
    BY <2>2, <2>3
<1> HIDE DEF t
<1>11. told' = told /\ wake' = wake
  BY <1>1 DEF clients, control
<1>12. Loaded(d)' /\ Behind(d)'
  BY <1>1, <1>2, <1>6, <1>9, <1>10 DEF Loaded, Behind, Holding, InRound
<1>13. Rested(d)'
  <2>1. SUFFICES ASSUME Partial(d)', ~wake'[d] PROVE told'[d] \cap Fresh' \subseteq Left(d)'
    BY <1>9 DEF Rested
  <2>2. Partial(d) /\ Defer(d) /\ ~wake[d]
    BY <1>4, <1>6, <1>9, <1>11, <2>1 DEF Partial
  <2>3. told[d] \cap Fresh \subseteq Left(d)
    BY <1>1, <1>2, <2>2 DEF Rested, InLoop
  <2>4. Left(d) \subseteq {t} \cup Left(d)'
    BY <1>3, <1>6, <1>9 DEF Left
  <2> QED
    BY <1>10, <1>11, <2>2, <2>3, <2>4
<1>14. FaultsOK' /\ ControlOK' /\ \A e \in Dispatchers : wake[e] => wake'[e]
  <2>1. FaultsOK'
    BY DispatcherAssumption DEF RInv, Typed, FaultsOK, Defer, DeferFails, Faulty
  <2> QED
    BY <1>1, <2>1 DEF RInv, Typed, ControlOK, control
<1> QED
  BY <1>1, <1>5, <1>6, <1>7, <1>8, <1>10, <1>12, <1>13, <1>14, RoundStep

\* A worker sleeps when nothing is left, no page was full and nobody woke it.
LEMMA DecideSafe ==
    ASSUME RInv, NEW d \in Dispatchers, Decide(d)
    PROVE  RInv'
<1>1. /\ pc[d][Worker] = "defer" /\ round[d].failed = <<>>
      /\ UNCHANGED <<queue, control, round, clients, faults>>
  BY DEF Decide, At
<1>2. PICK p \in {"finally", "top", "asleep"} :
         /\ Go(d, Worker, p)
         /\ p = "asleep" => ~FullBatch(d) /\ ~wake[d] /\ ~stop[d]
  BY DEF Decide
<1>3. p \in Places
  BY <1>2 DEF Places, Looping
<1>4. CASE p # "asleep"
  BY <1>1, <1>2, <1>3, <1>4, MovesOn DEF InLoop, InRound, Holding
<1>5. CASE p = "asleep"
  <2>1. /\ pc'[d][Worker] = p /\ round'[d] = round[d]
        /\ Submitted' = Submitted /\ Fresh' = Fresh
        /\ Left(d)' = Left(d) /\ Partial(d)' = Partial(d)
        /\ Loaded(d)' /\ Behind(d)' /\ Rested(d)' => RInv'
    BY <1>1, <1>2, <1>3, QuietStep
  <2>2. Loaded(d) /\ Rested(d) /\ told' = told /\ wake' = wake /\ round[d] \in Rounds
    BY <1>1 DEF RInv, Steady, Typed, RoundsOK, clients, control
  <2>3. Loaded(d)' /\ Behind(d)'
    BY <1>1, <1>5, <2>1, <2>2 DEF Loaded, Behind, Holding, InRound
  <2>4. round[d].completed /\ round[d].clean => round[d].size < PageSize
    <3>1. round[d].size \in 0 .. PageSize
      BY <2>2 DEF Rounds
    <3>2. round[d].completed /\ round[d].clean => round[d].size # PageSize
      BY <1>2, <1>5 DEF FullBatch
    <3> QED
      BY <3>1, <3>2, DispatcherAssumption
  <2>5. Rested(d)'
    BY <1>1, <1>5, <2>1, <2>2, <2>4 DEF Rested, InLoop
  <2> QED
    BY <2>1, <2>3, <2>5
<1> QED
  BY <1>4, <1>5

LEMMA WorkSafe ==
    ASSUME RInv, NEW d \in Dispatchers, Work(d) \/ WorkFails(d)
    PROVE  RInv'
  BY WorkerTopSafe, ScanSafe, ScanFailsSafe, WaitingSafe, ExecuteSafe, RaisesSafe,
     ExecuteEndsSafe, ReturnFailsSafe, DeferSafe, DecideSafe DEF Work, WorkFails

-----------------------------------------------------------------------------
(* Submissions and cooldowns.                                              *)

\* A task that is committed is younger than every page, and nobody has been told
\* of it.
LEMMA SubmitSafe ==
    ASSUME RInv, NEW d \in Dispatchers, NEW t \in Tasks, Submit(d, t)
    PROVE  RInv'
<1>1. /\ state[t] = "none" /\ \A u \in Tasks : u < t => u \in Submitted
      /\ state' = [state EXCEPT ![t] = "accepted"]
      /\ owed' = [owed EXCEPT ![d] = @ \cup {t}]
      /\ UNCHANGED <<cooldown, control, pc, round, caller, told, faults>>
  BY DEF Submit, Submitted
<1>2. /\ QueueOK' /\ Submitted' = Submitted \cup {t} /\ Fresh' \subseteq Fresh \cup {t}
      /\ t \notin Submitted
  <2>1. QueueOK
    BY DEF RInv, Typed
  <2>2. state'[t] = "accepted" /\ \A u \in Tasks \ {t} : state'[u] = state[u]
    BY <1>1, <2>1 DEF QueueOK
  <2> QED
    BY <1>1, <2>1, <2>2 DEF QueueOK, Submitted, Fresh, Accepted
<1>3. ToldOK' /\ \A e \in Dispatchers : owed'[e] \subseteq owed[e] \cup {t}
  BY <1>1 DEF RInv, Typed, ToldOK
<1>4. Typed'
  BY <1>1, <1>2, <1>3 DEF RInv, Typed, ControlOK, control, PlacesOK, RoundsOK, CallsOK,
     FaultsOK, Small, Ascending
<1>5. Prefix'
  BY <1>1, <1>2 DEF RInv, Prefix
<1>6. ASSUME NEW e \in Dispatchers PROVE Steady(e)'
  <2>1. /\ Loaded(e) /\ Behind(e) /\ Rested(e) /\ Known(e)
        /\ wake' = wake
    BY <1>1 DEF RInv, Steady, control
  <2>2. Left(e)' = Left(e) /\ Partial(e)' = Partial(e)
    BY <1>1 DEF Left, Partial
  <2>3. Loaded(e)'
    BY <1>1, <1>2, <2>1 DEF Loaded
  <2>4. ASSUME NEW u \in ToSet(round[e].page) PROVE ~(t < u)
    <3>1. u \in Submitted /\ u \in Tasks
      BY <2>1 DEF Loaded, Submitted
    <3> QED
      BY <1>2, <3>1 DEF RInv, Prefix
  <2>5. Behind(e)'
    BY <1>1, <1>2, <2>1, <2>2, <2>4 DEF Behind
  <2>6. Rested(e)'
    BY <1>1, <1>2, <2>1, <2>2 DEF Rested, Known
  <2>7. Known(e)'
    BY <1>1, <1>2, <1>3, <2>1 DEF Known
  <2> QED
    BY <2>3, <2>5, <2>6, <2>7 DEF Steady
<1> QED
  BY <1>4, <1>5, <1>6 DEF RInv

\* Whoever is told is woken, or is told nothing any more.
LEMMA AnnounceSafe ==
    ASSUME RInv, NEW d \in Dispatchers, NEW t \in Tasks, Announce(d, t)
    PROVE  RInv'
<1>1. /\ t \in owed[d] /\ owed' = [owed EXCEPT ![d] = @ \ {t}]
      /\ UNCHANGED <<queue, lock, life, holds, stop, finished, pc, round, caller, faults>>
      /\ \/ UNCHANGED <<wake, told>>
         \/ /\ wake' = [wake EXCEPT ![d] = TRUE]
            /\ told' = [told EXCEPT ![d] = @ \cup {t}]
  BY DEF Announce, Raise
<1>2. QueueOK' /\ Submitted' = Submitted /\ Fresh' = Fresh
  BY <1>1, QueueSame DEF RInv, Typed
<1>3. /\ ToldOK' /\ owed'[d] \subseteq owed[d]
      /\ \A e \in Dispatchers \ {d} : owed'[e] = owed[e] /\ told'[e] = told[e]
      /\ \/ told'[d] = told[d] /\ wake'[d] = wake[d]
         \/ told'[d] = told[d] \cup {t} /\ wake'[d] = TRUE
  <2>1. ToldOK /\ ControlOK
    BY DEF RInv, Typed
  <2>2. owed' \in [Dispatchers -> SUBSET Tasks] /\ owed'[d] \subseteq owed[d]
        /\ \A e \in Dispatchers \ {d} : owed'[e] = owed[e]
    BY <1>1, <2>1 DEF ToldOK
  <2>3. CASE UNCHANGED <<wake, told>>
    BY <2>1, <2>2, <2>3 DEF ToldOK
  <2>4. CASE /\ wake' = [wake EXCEPT ![d] = TRUE]
             /\ told' = [told EXCEPT ![d] = @ \cup {t}]
    <3>1. /\ told' \in [Dispatchers -> SUBSET Tasks] /\ told'[d] = told[d] \cup {t}
          /\ \A e \in Dispatchers \ {d} : told'[e] = told[e]
      BY <2>1, <2>4 DEF ToldOK
    <3>2. wake'[d] = TRUE
      BY <2>1, <2>4 DEF ControlOK
    <3> QED
      BY <2>2, <3>1, <3>2 DEF ToldOK
  <2> QED
    BY <1>1, <2>3, <2>4
<1>4. Typed'
  BY <1>1, <1>2, <1>3 DEF RInv, Typed, ControlOK, PlacesOK, RoundsOK, CallsOK, FaultsOK,
     Small, Ascending
<1>5. Prefix'
  BY <1>2 DEF RInv, Prefix
<1>6. ASSUME NEW e \in Dispatchers PROVE Steady(e)'
  <2>1. Steady(e)
    BY DEF RInv
  <2>2. CASE e # d
    <3>1. /\ round'[e] = round[e] /\ pc'[e][Worker] = pc[e][Worker]
          /\ told'[e] = told[e] /\ owed'[e] = owed[e] /\ (wake[e] => wake'[e])
      BY <1>1, <1>3, <2>2 DEF RInv, Typed, ControlOK
    <3> QED
      BY <1>2, <2>1, <3>1, Stays
  <2>3. CASE e = d
    <3>1. Left(d)' = Left(d) /\ Partial(d)' = Partial(d)
      BY <1>1 DEF Left, Partial
    <3>2. Loaded(d)' /\ Behind(d)'
      BY <1>1, <1>2, <2>1, <2>3, <3>1 DEF Steady, Loaded, Behind
    <3>3. Rested(d)'
      BY <1>1, <1>2, <1>3, <2>1, <2>3, <3>1 DEF Steady, Rested
    <3>4. Known(d)'
      BY <1>1, <1>2, <1>3, <2>1, <2>3 DEF Steady, Known
    <3> QED
      BY <2>3, <3>2, <3>3, <3>4 DEF Steady
  <2> QED
    BY <2>2, <2>3
<1> QED
  BY <1>4, <1>5, <1>6 DEF RInv

\* A cooldown that is over was set by someone: the task is not fresh again.
LEMMA CoolDownSafe ==
    ASSUME RInv, NEW t \in Tasks, CoolDown(t)
    PROVE  RInv'
<1>1. /\ cooldown[t] = "cooling" /\ cooldown' = [cooldown EXCEPT ![t] = "over"]
      /\ UNCHANGED <<state, control, pc, round, clients, faults>>
  BY DEF CoolDown
<1>2. QueueOK' /\ Submitted' = Submitted /\ Fresh' \subseteq Fresh
  <2>1. QueueOK
    BY DEF RInv, Typed
  <2>2. cooldown'[t] = "over" /\ \A u \in Tasks \ {t} : cooldown'[u] = cooldown[u]
    BY <2>1, <1>1 DEF QueueOK
  <2> QED
    BY <1>1, <2>1, <2>2 DEF QueueOK, Submitted, Fresh, Accepted
<1>3. Typed'
  BY <1>1, <1>2 DEF RInv, Typed, ControlOK, control, PlacesOK, RoundsOK, CallsOK, ToldOK,
     clients, FaultsOK, Small, Ascending
<1>4. Prefix'
  BY <1>2 DEF RInv, Prefix
<1>5. ASSUME NEW e \in Dispatchers PROVE Steady(e)'
  <2>1. /\ Steady(e) /\ round'[e] = round[e] /\ pc'[e][Worker] = pc[e][Worker]
        /\ told'[e] = told[e] /\ owed'[e] = owed[e] /\ (wake[e] => wake'[e])
    BY <1>1 DEF RInv, clients, control
  <2> QED
    BY <1>2, <2>1, Stays
<1> QED
  BY <1>3, <1>4, <1>5 DEF RInv

-----------------------------------------------------------------------------
(* Calls and threads.                                                      *)

\* A step of a call that starts no thread.
Calling(d, c) ==
    \/ StartRefused(d, c) \/ StartGateFails(d, c) \/ Call(d, c)
    \/ \E op \in {"stop", "close"} : StopIdle(d, c, op) \/ StopSignals(d, c, op)

\* Such a step leaves rows, rounds and threads alone, and clears no wake-up.
LEMMA CallingFrame ==
    ASSUME RInv, NEW d \in Dispatchers, NEW c \in Callers, Calling(d, c)
    PROVE  /\ UNCHANGED <<queue, pc, round, told, owed>>
           /\ wake' = wake \/ wake' = [wake EXCEPT ![d] = TRUE]
           /\ stop' = stop \/ stop' = [stop EXCEPT ![d] = TRUE]
           /\ UNCHANGED faults \/ Faulty
<1>1. CASE StartRefused(d, c) \/ StartGateFails(d, c)
  BY <1>1 DEF StartRefused, StartGateFails, control
<1>2. CASE Call(d, c)
  BY <1>2 DEF Call, StartSetsStop, StartMarks, Joined, JoinTimesOut, CallCompletes,
     CallReleases, CallReturns, control, Raise
<1>3. ASSUME NEW op \in {"stop", "close"}, StopIdle(d, c, op) \/ StopSignals(d, c, op)
      PROVE  /\ UNCHANGED <<queue, pc, round, told, owed>>
             /\ wake' = wake \/ wake' = [wake EXCEPT ![d] = TRUE]
             /\ stop' = stop \/ stop' = [stop EXCEPT ![d] = TRUE]
             /\ UNCHANGED faults \/ Faulty
  BY <1>3 DEF StopIdle, StopSignals, clients, Raise
<1> QED
  BY <1>1, <1>2, <1>3 DEF Calling

\* The file lock and its flag, the lifecycle and the finished events.
LEMMA CallingControl ==
    ASSUME RInv, NEW d \in Dispatchers, NEW c \in Callers, Calling(d, c)
    PROVE  /\ lock' \in Dispatchers \cup {None}
           /\ life' \in [Dispatchers -> Lifecycle \cup {"dead"}]
           /\ holds' \in [Dispatchers -> BOOLEAN]
           /\ finished' \in [Dispatchers -> SUBSET Threads]
<1> USE DEF Lifecycle
<1>1. ControlOK /\ CallsOK
  BY DEF RInv, Typed
<1>2. CASE StartRefused(d, c) \/ StartGateFails(d, c)
  BY <1>1, <1>2 DEF StartRefused, StartGateFails, control, Raise, ControlOK
<1>3. CASE StartSetsStop(d, c) \/ Joined(d, c) \/ JoinTimesOut(d, c)
  BY <1>1, <1>3 DEF StartSetsStop, Joined, JoinTimesOut, control, ControlOK
<1>4. CASE StartMarks(d, c)
  <2>1. finished' = [finished EXCEPT ![d] = finished[d] \cup (Threads \ caller[d][c].threads)]
    BY <1>4 DEF StartMarks
  <2>2. finished' \in [Dispatchers -> SUBSET Threads]
    BY <1>1, <2>1 DEF ControlOK
  <2> QED
    BY <1>1, <1>4, <2>2 DEF StartMarks, ControlOK
<1>5. CASE CallCompletes(d, c) \/ CallReleases(d, c)
  BY <1>1, <1>5 DEF CallCompletes, CallReleases, MarkStopped, ReleaseLock, ControlOK
<1>6. CASE CallReturns(d, c)
  BY <1>1, <1>6 DEF CallReturns, ControlOK
<1>7. ASSUME NEW op \in {"stop", "close"}, StopIdle(d, c, op) \/ StopSignals(d, c, op)
      PROVE  /\ lock' \in Dispatchers \cup {None}
             /\ life' \in [Dispatchers -> Lifecycle \cup {"dead"}]
             /\ holds' \in [Dispatchers -> BOOLEAN]
             /\ finished' \in [Dispatchers -> SUBSET Threads]
  BY <1>1, <1>7 DEF StopIdle, StopSignals, ControlOK
<1> QED
  BY <1>2, <1>3, <1>4, <1>5, <1>6, <1>7 DEF Calling, Call

\* What a call of a process may become.
LEMMA CallBecomes ==
    ASSUME CallsOK, NEW d \in Dispatchers, NEW c \in Callers, NEW r \in Calls,
           caller' = [caller EXCEPT ![d][c] = r]
    PROVE  CallsOK'
  BY DEF CallsOK

LEMMA CallMoves ==
    ASSUME CallsOK, NEW d \in Dispatchers, NEW c \in Callers,
           NEW at \in {"marking", "joining", "completing", "releasing", "returning"},
           Move(d, c, at)
    PROVE  CallsOK'
<1> DEFINE r == [caller[d][c] EXCEPT !.at = at]
<1>1. caller[d][c] \in Calls
  BY DEF CallsOK
<1>2. r \in Calls
  BY <1>1 DEF Calls
<1>3. caller' = [caller EXCEPT ![d][c] = r]
  BY DEF Move, CallsOK
<1> HIDE DEF r
<1> QED
  BY <1>2, <1>3, CallBecomes

LEMMA CallingCalls ==
    ASSUME RInv, NEW d \in Dispatchers, NEW c \in Callers, Calling(d, c)
    PROVE  CallsOK'
<1>1. CallsOK
  BY DEF RInv, Typed
<1>2. NoCall \in Calls /\ [op |-> "start", at |-> "failing", threads |-> {}] \in Calls
  BY DEF NoCall, Calls
<1>3. CASE StartRefused(d, c) \/ StartGateFails(d, c)
  BY <1>1, <1>2, <1>3, CallBecomes DEF StartRefused, StartGateFails, Failing
<1>4. CASE StartSetsStop(d, c) \/ StartMarks(d, c) \/ CallReleases(d, c)
  BY <1>1, <1>4, CallMoves DEF StartSetsStop, StartMarks, CallReleases
<1>5. CASE CallCompletes(d, c)
  <2>1. \E at \in {"releasing", "returning"} : Move(d, c, at)
    BY <1>5 DEF CallCompletes
  <2> QED
    BY <1>1, <2>1, CallMoves
<1>6. CASE CallReturns(d, c)
  BY <1>1, <1>2, <1>6, CallBecomes DEF CallReturns, Return
<1>7. Complete(d, c) => CallsOK'
  <2> DEFINE r == [op |-> caller[d][c].op, at |-> "completing", threads |-> {}]
  <2>1. r \in Calls
    BY <1>1 DEF CallsOK, Calls
  <2>2. Complete(d, c) => caller' = [caller EXCEPT ![d][c] = r]
    BY <1>1 DEF Complete, CallsOK
  <2> HIDE DEF r
  <2> QED
    BY <1>1, <2>1, <2>2, CallBecomes
<1>8. CASE Joined(d, c) \/ JoinTimesOut(d, c)
  BY <1>1, <1>2, <1>7, <1>8, CallBecomes DEF Joined, JoinTimesOut, Return
<1>9. ASSUME NEW op \in {"stop", "close"}, StopSignals(d, c, op) PROVE CallsOK'
  <2>1. [op |-> op, at |-> "joining", threads |-> Alive(d)] \in Calls
    BY DEF Calls, Alive
  <2> QED
    BY <1>1, <1>9, <2>1, CallBecomes DEF StopSignals
<1>10. ASSUME NEW op \in {"stop", "close"}, StopIdle(d, c, op) PROVE CallsOK'
  BY <1>1, <1>10 DEF StopIdle, clients, CallsOK
<1> QED
  BY <1>3, <1>4, <1>5, <1>6, <1>8, <1>9, <1>10 DEF Calling, Call

LEMMA CallingSafe ==
    ASSUME RInv, NEW d \in Dispatchers, NEW c \in Callers, Calling(d, c)
    PROVE  RInv'
<1>1. /\ UNCHANGED <<queue, pc, round, told, owed>>
      /\ wake' = wake \/ wake' = [wake EXCEPT ![d] = TRUE]
      /\ stop' = stop \/ stop' = [stop EXCEPT ![d] = TRUE]
      /\ UNCHANGED faults \/ Faulty
  BY CallingFrame
<1>2. ControlOK'
  <2>1. wake' \in [Dispatchers -> BOOLEAN] /\ stop' \in [Dispatchers -> BOOLEAN]
    BY <1>1 DEF RInv, Typed, ControlOK
  <2> QED
    BY <2>1, CallingControl DEF ControlOK
<1>3. QueueOK' /\ Submitted' = Submitted /\ Fresh' = Fresh
  BY <1>1, QueueSame DEF RInv, Typed
<1>4. FaultsOK'
  BY <1>1, DispatcherAssumption DEF RInv, Typed, FaultsOK, Faulty
<1>5. Typed'
  BY <1>1, <1>2, <1>3, <1>4, CallingCalls DEF RInv, Typed, PlacesOK, RoundsOK, ToldOK,
     Small, Ascending
<1>6. Prefix'
  BY <1>3 DEF RInv, Prefix
<1>7. ASSUME NEW e \in Dispatchers PROVE Steady(e)'
  <2>1. /\ Steady(e) /\ round'[e] = round[e] /\ pc'[e][Worker] = pc[e][Worker]
        /\ told'[e] = told[e] /\ owed'[e] = owed[e] /\ (wake[e] => wake'[e])
    BY <1>1 DEF RInv, Typed, ControlOK
  <2> QED
    BY <1>3, <2>1, Stays
<1> QED
  BY <1>5, <1>6, <1>7 DEF RInv

\* The threads begin: the worker at the top of its loop.
LEMMA StartThreadsSafe ==
    ASSUME RInv, NEW d \in Dispatchers, NEW c \in Callers, NEW started \in Started,
           StartThreads(d, c, started)
    PROVE  RInv'
<1> DEFINE places == [t \in Threads |-> IF t \notin started THEN "none"
                                        ELSE IF t = Worker THEN "top" ELSE "loop"]
           r == [op |-> "start", at |-> "failing", threads |-> started]
<1>1. /\ lock' = d
      /\ holds' = [holds EXCEPT ![d] = TRUE]
      /\ stop' = [stop EXCEPT ![d] = FALSE]
      /\ wake' = [wake EXCEPT ![d] = FALSE]
      /\ finished' = [finished EXCEPT ![d] = {}]
      /\ pc' = [pc EXCEPT ![d] = places]
      /\ UNCHANGED <<queue, round, told, owed>>
      /\ life' = [life EXCEPT ![d] = "running"] \/ life' = [life EXCEPT ![d] = "starting"]
      /\ UNCHANGED faults \/ Faulty
      /\ UNCHANGED caller \/ caller' = [caller EXCEPT ![d][c] = r]
  BY DEF StartThreads, Raise, Failing
<1>2. Typed
  BY DEF RInv
<1>3. places \in [Threads -> Places] /\ places[Worker] \notin InLoop
  BY DEF Places, Looping, Gone, Threads, InLoop, InRound, Holding
<1>4. r \in Calls
  BY DEF Started, Calls
<1> HIDE DEF places, r
<1>5. ControlOK'
  <2>1. /\ holds' \in [Dispatchers -> BOOLEAN] /\ stop' \in [Dispatchers -> BOOLEAN]
        /\ wake' \in [Dispatchers -> BOOLEAN]
        /\ finished' \in [Dispatchers -> SUBSET Threads]
    BY <1>1, <1>2 DEF Typed, ControlOK
  <2>2. lock' \in Dispatchers \cup {None} /\ life' \in [Dispatchers -> Lifecycle \cup {"dead"}]
    BY <1>1, <1>2 DEF Typed, ControlOK, Lifecycle
  <2> QED
    BY <2>1, <2>2 DEF ControlOK
<1>6. PlacesOK' /\ pc'[d] = places /\ \A e \in Dispatchers \ {d} : pc'[e] = pc[e]
  BY <1>1, <1>2, <1>3 DEF Typed, PlacesOK
<1>7. CallsOK' /\ FaultsOK'
  <2>1. UNCHANGED caller => CallsOK'
    BY <1>2 DEF Typed, CallsOK
  <2>2. caller' = [caller EXCEPT ![d][c] = r] => CallsOK'
    BY <1>2, <1>4, CallBecomes DEF Typed
  <2>3. FaultsOK'
    BY <1>1, <1>2, DispatcherAssumption DEF Typed, FaultsOK, Faulty
  <2> QED
    BY <1>1, <2>1, <2>2, <2>3
<1>8. QueueOK' /\ Submitted' = Submitted /\ Fresh' = Fresh
  BY <1>1, <1>2, QueueSame DEF Typed
<1>9. Typed'
  BY <1>1, <1>2, <1>5, <1>6, <1>7, <1>8 DEF Typed, RoundsOK, ToldOK, Small, Ascending
<1>10. Prefix'
  BY <1>8 DEF RInv, Prefix
<1>11. ASSUME NEW e \in Dispatchers PROVE Steady(e)'
  <2>1. Steady(e) /\ round'[e] = round[e] /\ told'[e] = told[e] /\ owed'[e] = owed[e]
    BY <1>1 DEF RInv
  <2>2. CASE e = d
    <3>1. pc'[e][Worker] \notin InLoop
      BY <1>3, <1>6, <2>2
    <3> QED
      BY <1>8, <2>1, <3>1, Leaves
  <2>3. CASE e # d
    <3>1. pc'[e][Worker] = pc[e][Worker] /\ (wake[e] => wake'[e])
      BY <1>1, <1>2, <1>6, <2>3 DEF Typed, ControlOK
    <3> QED
      BY <1>8, <2>1, <3>1, Stays
  <2> QED
    BY <2>2, <2>3
<1> QED
  BY <1>9, <1>10, <1>11 DEF RInv

\* A thread that ends, and a helper that sees the stop event.
LEMMA EndingFrame ==
    ASSUME RInv, NEW d \in Dispatchers, NEW t \in Threads,
           Aborts(d, t) \/ EndThread(d, t) \/ HelperStops(d, t)
    PROVE  /\ UNCHANGED <<queue, clients>>
           /\ \E p \in Places \ InLoop : Go(d, t, p)
           /\ \/ UNCHANGED round
              \/ t = Worker /\ round' = [round EXCEPT ![d] = NoRound]
           /\ ControlOK' /\ FaultsOK'
           /\ \A e \in Dispatchers : wake[e] => wake'[e]
<1> USE DEF Places, Looping, Gone, InLoop, InRound, Holding, Lifecycle
<1>1. ControlOK /\ FaultsOK /\ round \in [Dispatchers -> Rounds]
  BY DEF RInv, Typed, RoundsOK
<1>2. CASE Aborts(d, t)
  <2>1. ControlOK' /\ \A e \in Dispatchers : wake[e] => wake'[e]
    BY <1>1, <1>2 DEF Aborts, Raise, ControlOK
  <2>2. FaultsOK'
    BY <1>1, <1>2, DispatcherAssumption DEF Aborts, Faulty, FaultsOK
  <2> QED
    BY <1>2, <2>1, <2>2 DEF Aborts
<1>3. CASE AbortMarks(d, t)
  BY <1>1, <1>3 DEF AbortMarks, ControlOK, FaultsOK
<1>4. CASE ThreadFinishes(d, t)
  <2>1. UNCHANGED round \/ (t = Worker /\ round' = [round EXCEPT ![d] = NoRound])
    <3>1. round' = [round EXCEPT ![d] = IF t = Worker THEN NoRound ELSE round[d]]
      BY <1>4 DEF ThreadFinishes
    <3>2. CASE t = Worker
      BY <3>1, <3>2
    <3>3. CASE t # Worker
      <4>1. round' = [round EXCEPT ![d] = round[d]]
        BY <3>1, <3>3
      <4> QED
        BY <1>1, <4>1
    <3> QED
      BY <3>2, <3>3
  <2>2. finished' \in [Dispatchers -> SUBSET Threads]
    BY <1>1, <1>4 DEF ThreadFinishes, ControlOK
  <2> QED
    BY <1>1, <1>4, <2>1, <2>2 DEF ThreadFinishes, ControlOK, FaultsOK
<1>5. CASE ThreadCompletes(d, t)
  <2>1. \E p \in {"releasing", "gone"} : Go(d, t, p)
    BY <1>5 DEF ThreadCompletes
  <2>2. life' \in [Dispatchers -> Lifecycle \cup {"dead"}]
    BY <1>1, <1>5 DEF ThreadCompletes, MarkStopped, ControlOK
  <2> QED
    BY <1>1, <1>5, <2>1, <2>2 DEF ThreadCompletes, ControlOK, FaultsOK
<1>6. CASE ThreadReleases(d, t)
  BY <1>1, <1>6 DEF ThreadReleases, ReleaseLock, ControlOK, FaultsOK
<1>7. CASE HelperStops(d, t)
  BY <1>1, <1>7 DEF HelperStops, control, ControlOK, FaultsOK
<1> QED
  BY <1>2, <1>3, <1>4, <1>5, <1>6, <1>7 DEF EndThread

LEMMA EndingSafe ==
    ASSUME RInv, NEW d \in Dispatchers, NEW t \in Threads,
           Aborts(d, t) \/ EndThread(d, t) \/ HelperStops(d, t)
    PROVE  RInv'
<1>1. /\ UNCHANGED <<queue, clients>>
      /\ \/ UNCHANGED round
         \/ t = Worker /\ round' = [round EXCEPT ![d] = NoRound]
      /\ ControlOK' /\ FaultsOK'
      /\ \A e \in Dispatchers : wake[e] => wake'[e]
  BY EndingFrame
<1>2. PICK p \in Places \ InLoop : Go(d, t, p)
  BY EndingFrame
<1>3. Typed
  BY DEF RInv
<1>4. /\ PlacesOK' /\ pc'[d][t] = p /\ \A u \in Threads \ {t} : pc'[d][u] = pc[d][u]
      /\ \A e \in Dispatchers \ {d} : pc'[e] = pc[e]
  BY <1>2, <1>3 DEF Typed, PlacesOK, Go
<1>5. RoundsOK' /\ \A e \in Dispatchers \ {d} : round'[e] = round[e]
  <2>1. CASE UNCHANGED round
    BY <1>3, <2>1 DEF Typed, RoundsOK, Small, Ascending
  <2>2. CASE round' = [round EXCEPT ![d] = NoRound]
    BY <1>3, <2>2, RoundMoves, EmptyRound DEF Typed
  <2> QED
    BY <1>1, <2>1, <2>2
<1>6. QueueOK' /\ Submitted' = Submitted /\ Fresh' = Fresh
  BY <1>1, <1>3, QueueSame DEF Typed
<1>7. Typed'
  BY <1>1, <1>3, <1>4, <1>5, <1>6 DEF Typed, CallsOK, ToldOK, clients
<1>8. Prefix'
  BY <1>6 DEF RInv, Prefix
<1>9. ASSUME NEW e \in Dispatchers PROVE Steady(e)'
  <2>1. /\ Steady(e) /\ told'[e] = told[e] /\ owed'[e] = owed[e] /\ (wake[e] => wake'[e])
    BY <1>1 DEF RInv, clients
  <2>2. Worker \in Threads
    BY DEF Threads
  <2>3. CASE e = d /\ t = Worker
    <3>1. pc'[e][Worker] \notin InLoop
      BY <1>2, <1>4, <2>3
    <3>2. round'[e] = round[e] \/ round'[e] = NoRound
      BY <1>1, <1>3, <2>3 DEF Typed, RoundsOK
    <3> QED
      BY <1>6, <2>1, <3>1, <3>2, Leaves
  <2>4. CASE ~(e = d /\ t = Worker)
    <3>1. pc'[e][Worker] = pc[e][Worker] /\ round'[e] = round[e]
      BY <1>1, <1>4, <1>5, <2>2, <2>4
    <3> QED
      BY <1>6, <2>1, <3>1, Stays
  <2> QED
    BY <2>3, <2>4
<1> QED
  BY <1>7, <1>8, <1>9 DEF RInv

\* The process forgets what it was told and what it still owed.
LEMMA CrashSafe ==
    ASSUME RInv, NEW d \in Dispatchers, Crash(d)
    PROVE  RInv'
<1> DEFINE gone == [t \in Threads |-> "gone"]
           idle == [c \in Callers |-> NoCall]
<1>1. /\ life' = [life EXCEPT ![d] = "dead"]
      /\ lock' = IF lock = d THEN None ELSE lock
      /\ holds' = [holds EXCEPT ![d] = FALSE]
      /\ stop' = [stop EXCEPT ![d] = FALSE] /\ wake' = [wake EXCEPT ![d] = FALSE]
      /\ finished' = [finished EXCEPT ![d] = Threads]
      /\ pc' = [pc EXCEPT ![d] = gone]
      /\ round' = [round EXCEPT ![d] = NoRound]
      /\ caller' = [caller EXCEPT ![d] = idle]
      /\ told' = [told EXCEPT ![d] = {}] /\ owed' = [owed EXCEPT ![d] = {}]
      /\ UNCHANGED queue
  BY DEF Crash
<1>2. Typed
  BY DEF RInv
<1>3. /\ gone \in [Threads -> Places] /\ gone[Worker] \notin InLoop
      /\ idle \in [Callers -> Calls]
  BY DEF Places, Gone, Threads, InLoop, InRound, Holding, NoCall, Calls
<1> HIDE DEF gone, idle
<1>4. ControlOK'
  <2>1. /\ holds' \in [Dispatchers -> BOOLEAN] /\ stop' \in [Dispatchers -> BOOLEAN]
        /\ wake' \in [Dispatchers -> BOOLEAN]
        /\ finished' \in [Dispatchers -> SUBSET Threads]
    BY <1>1, <1>2 DEF Typed, ControlOK
  <2>2. lock' \in Dispatchers \cup {None} /\ life' \in [Dispatchers -> Lifecycle \cup {"dead"}]
    BY <1>1, <1>2 DEF Typed, ControlOK
  <2> QED
    BY <2>1, <2>2 DEF ControlOK
<1>5. PlacesOK' /\ pc'[d] = gone /\ \A e \in Dispatchers \ {d} : pc'[e] = pc[e]
  BY <1>1, <1>2, <1>3 DEF Typed, PlacesOK
<1>6. /\ RoundsOK' /\ round'[d] = NoRound
      /\ \A e \in Dispatchers \ {d} : round'[e] = round[e]
  BY <1>1, <1>2, RoundMoves, EmptyRound DEF Typed
<1>7. /\ ToldOK' /\ told'[d] = {} /\ owed'[d] = {}
      /\ \A e \in Dispatchers \ {d} : told'[e] = told[e] /\ owed'[e] = owed[e]
  BY <1>1, <1>2 DEF Typed, ToldOK
<1>8. CallsOK'
  BY <1>1, <1>2, <1>3 DEF Typed, CallsOK
<1>9. FaultsOK'
  BY <1>2, DispatcherAssumption DEF Crash, Faulty, Typed, FaultsOK
<1>10. QueueOK' /\ Submitted' = Submitted /\ Fresh' = Fresh
  BY <1>1, <1>2, QueueSame DEF Typed
<1>11. Typed'
  BY <1>4, <1>5, <1>6, <1>7, <1>8, <1>9, <1>10 DEF Typed
<1>12. Prefix'
  BY <1>10 DEF RInv, Prefix
<1>13. ASSUME NEW e \in Dispatchers PROVE Steady(e)'
  <2>1. Steady(e)
    BY DEF RInv
  <2>2. CASE e = d
    <3>1. ToSet(round'[e].page) \subseteq Submitted'
      BY <1>6, <2>2, EmptyRound, NothingLeft
    <3>2. pc'[e][Worker] \notin InLoop
      BY <1>3, <1>5, <2>2
    <3>3. Loaded(e)' /\ Behind(e)' /\ Rested(e)'
      BY <3>1, <3>2 DEF Loaded, Behind, Rested, InLoop, InRound
    <3>4. Known(e)'
      BY <1>7, <2>2 DEF Known
    <3> QED
      BY <3>3, <3>4 DEF Steady
  <2>3. CASE e # d
    <3>1. /\ pc'[e][Worker] = pc[e][Worker] /\ round'[e] = round[e]
          /\ told'[e] = told[e] /\ owed'[e] = owed[e] /\ (wake[e] => wake'[e])
      BY <1>1, <1>2, <1>5, <1>6, <1>7, <2>3 DEF Typed, ControlOK
    <3> QED
      BY <1>10, <2>1, <3>1, Stays
  <2> QED
    BY <2>2, <2>3
<1> QED
  BY <1>11, <1>12, <1>13 DEF RInv

-----------------------------------------------------------------------------
(* The theorems.                                                           *)

\* Nothing is committed, and no worker has begun.
LEMMA Initially == Init => RInv
<1>1. SUFFICES ASSUME Init PROVE RInv
  OBVIOUS
<1>2. QueueOK /\ ControlOK
  BY <1>1 DEF Init, QueueOK, ControlOK, Lifecycle
<1>3. PlacesOK /\ ToldOK
  BY <1>1 DEF Init, PlacesOK, ToldOK, Places, Gone
<1>4. CallsOK
  <2>1. NoCall \in Calls
    BY DEF NoCall, Calls
  <2> QED
    BY <1>1, <2>1 DEF Init, CallsOK
<1>5. RoundsOK
  BY <1>1, EmptyRound DEF Init, RoundsOK
<1>6. FaultsOK
  BY <1>1, DispatcherAssumption DEF Init, FaultsOK
<1>7. Submitted = {}
  BY <1>1 DEF Init, Submitted
<1>8. ASSUME NEW d \in Dispatchers PROVE Steady(d)
  <2>1. /\ round[d] = NoRound /\ pc[d][Worker] = "none" /\ told[d] = {} /\ owed[d] = {}
    BY <1>1 DEF Init, Threads
  <2>2. ToSet(round[d].page) = {}
    BY <2>1, EmptyRound, NothingLeft
  <2> QED
    BY <2>1, <2>2 DEF Steady, Loaded, Behind, Rested, Known, InLoop, InRound, Holding
<1> QED
  BY <1>2, <1>3, <1>4, <1>5, <1>6, <1>7, <1>8 DEF RInv, Typed, Prefix

\* Every step keeps the invariant.
LEMMA Stepwise == ASSUME RInv, [Next]_vars PROVE RInv'
<1>1. CASE UNCHANGED vars
  <2>1. /\ UNCHANGED <<state, cooldown, lock, life, holds, stop, wake, finished>>
        /\ UNCHANGED <<pc, round, caller, told, owed, faults>>
    BY <1>1 DEF vars, queue, control, clients
  <2>2. QueueOK' /\ Submitted' = Submitted /\ Fresh' = Fresh
    BY <2>1, QueueSame DEF RInv, Typed, queue
  <2>3. Typed'
    BY <2>1, <2>2 DEF RInv, Typed, ControlOK, PlacesOK, RoundsOK, CallsOK, ToldOK, FaultsOK,
       Small, Ascending
  <2>4. Prefix'
    BY <2>2 DEF RInv, Prefix
  <2>5. ASSUME NEW e \in Dispatchers PROVE Steady(e)'
    <3>1. /\ Steady(e) /\ round'[e] = round[e] /\ pc'[e][Worker] = pc[e][Worker]
          /\ told'[e] = told[e] /\ owed'[e] = owed[e] /\ (wake[e] => wake'[e])
      BY <2>1 DEF RInv
    <3> QED
      BY <2>2, <3>1, Stays
  <2> QED
    BY <2>3, <2>4, <2>5 DEF RInv
<1>2. ASSUME NEW d \in Dispatchers, NEW t \in Tasks, Submit(d, t) \/ Announce(d, t)
      PROVE  RInv'
  BY <1>2, SubmitSafe, AnnounceSafe
<1>3. ASSUME NEW t \in Tasks, CoolDown(t) PROVE RInv'
  BY <1>3, CoolDownSafe
<1>4. ASSUME NEW d \in Dispatchers, NEW c \in Callers,
             \/ StartRefused(d, c) \/ StartGateFails(d, c)
             \/ \E started \in Started : StartThreads(d, c, started)
             \/ \E op \in {"stop", "close"} : StopIdle(d, c, op) \/ StopSignals(d, c, op)
             \/ Call(d, c)
      PROVE  RInv'
  BY <1>4, StartThreadsSafe, CallingSafe DEF Calling
<1>5. ASSUME NEW d \in Dispatchers, NEW t \in Threads, Aborts(d, t) \/ EndThread(d, t)
      PROVE  RInv'
  BY <1>5, EndingSafe
<1>6. ASSUME NEW d \in Dispatchers, NEW h \in Helpers, HelperStops(d, h) PROVE RInv'
  BY <1>6, EndingSafe DEF Threads
<1>7. ASSUME NEW d \in Dispatchers, Work(d) \/ WorkFails(d) \/ Crash(d) PROVE RInv'
  BY <1>7, WorkSafe, CrashSafe
<1>8. CASE Next
  BY <1>2, <1>3, <1>4, <1>5, <1>6, <1>7, <1>8 DEF Next
<1> QED
  BY <1>1, <1>8

\* What is inductive: a round that has read all that was ready forgets no fresh
\* task it was told of, and leaves no older one behind.
THEOREM RoundsKept == Spec => []RInv
<1>1. Init => RInv
  BY Initially
<1>2. RInv /\ [Next]_vars => RInv'
  BY Stepwise
<1> QED
  BY <1>1, <1>2, PTL DEF Spec

\* Every variable keeps its type and no page exceeds the batch size.
THEOREM DispatcherTypes == Spec => []TypeOK
<1>1. RInv => TypeOK
  BY TypedIsTypeOK DEF RInv
<1> QED
  BY <1>1, RoundsKept, PTL

\* A worker whose last round went well never sleeps on a task it was told of
\* and has not put off.
THEOREM WakeupsKept == Spec => []NoLostWakeup
<1>1. RInv => NoLostWakeup
  <2>1. SUFFICES ASSUME RInv, NEW d \in Dispatchers, pc[d][Worker] = "asleep", ~wake[d],
                        round[d].completed, round[d].clean,
                        NEW t \in told[d] \cap Accepted, cooldown[t] = "never"
                 PROVE  FALSE
    BY DEF NoLostWakeup
  <2>2. Loaded(d) /\ Rested(d)
    BY <2>1 DEF RInv, Steady
  <2>3. round[d].page = <<>> /\ round[d].failed = <<>> /\ round[d].size < PageSize
    BY <2>1, <2>2 DEF Loaded, Rested
  <2>4. t \in Left(d)
    BY <2>1, <2>2, <2>3 DEF Rested, Partial, InLoop, Fresh
  <2> QED
    BY <2>3, <2>4, NothingLeft DEF Left
<1> QED
  BY <1>1, RoundsKept, PTL

\* Tasks begin in the order of their dispatch_sequence; an older one that is
\* still accepted has been put off, or has just failed in the same round.
THEOREM BeginsInOrder == Spec => InOrder
<1> DEFINE A == \A d \in Dispatchers : Begins(d) =>
                   \A u \in Accepted : u < Current(d) =>
                      \/ cooldown[u] # "never"
                      \/ \E i \in 1 .. Len(round[d].failed) : round[d].failed[i] = u
<1>1. ASSUME RInv PROVE A
  <2>1. SUFFICES ASSUME NEW d \in Dispatchers, Begins(d), NEW u \in Fresh, u < Current(d)
                 PROVE  \E i \in 1 .. Len(round[d].failed) : round[d].failed[i] = u
    BY DEF Fresh
  <2>2. pc[d][Worker] \in Holding
    BY <2>1 DEF Begins, Holding
  <2>3. /\ round[d].page \in Seq(Tasks) /\ round[d].page # <<>>
        /\ round[d].failed \in Seq(Tasks)
        /\ Current(d) \in ToSet(round[d].page) /\ Current(d) \in Tasks
    BY <1>1, <2>2, HeadOfPage
  <2>4. u \in Left(d)
    BY <1>1, <2>1, <2>2, <2>3 DEF RInv, Steady, Behind, InRound
  <2>5. u \notin ToSet(round[d].page)
    <3>1. Ascending(round[d].page)
      BY <1>1 DEF RInv, Typed, RoundsOK
    <3>2. \A t \in ToSet(round[d].page) : t = Current(d) \/ Current(d) < t
      BY <2>3, <3>1, FirstIsOldest DEF Current
    <3>3. u \in Nat /\ Current(d) \in Nat
      BY <2>1, <2>3 DEF Fresh, Accepted, Tasks
    <3> QED
      BY <2>1, <3>2, <3>3
  <2>6. u \in ToSet(round[d].failed)
    BY <2>4, <2>5 DEF Left
  <2> QED
    BY <2>3, <2>6 DEF ToSet
<1>2. RInv => A
  BY <1>1
<1> QED
  BY <1>2, RoundsKept, PTL DEF Spec, InOrder

===============================================================================
