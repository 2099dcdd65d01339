--------------------------- MODULE ProgressDelivery ---------------------------
(***************************************************************************)
(* How the progress of executions reaches one WebSocket client.            *)
(*                                                                         *)
(* An execution is admitted in the task store and becomes the owner of its *)
(* business key.  Two threads publish its progress: the submitter once     *)
(* ("accepted"), the worker as it goes.  A publication holds the lock of   *)
(* its key while it asks the store whether its execution is still the      *)
(* owner, replaces the latest event of the hub and copies the subscribers; *)
(* it calls them afterwards, outside every lock, so calls come in any      *)
(* order.  A call puts the event into the bounded buffer of a connection.  *)
(*                                                                         *)
(* The connection's thread subscribes to what the client asks for, reads   *)
(* the current state, sends it, and only then lets the buffered events     *)
(* through: a barrier (batch) keeps those that arrive in the meantime      *)
(* aside, in pending.                                                      *)
(*                                                                         *)
(* One process: the hub lives in memory.  One connection: the hub calls    *)
(* each subscriber on its own and a failing one does not stop the others.  *)
(***************************************************************************)
EXTENDS Integers, Sequences, FiniteSets, SequencesExt

CONSTANTS
    Keys,        \* business keys (businessType and fileName, reportId, architectureId)
    Announcing,  \* those whose submitter publishes "accepted": reports and weaponry
    Requests,    \* what a client may ask for: sequences of keys, with repetitions
    Capacities,  \* the bound of a connection's buffer, one of these
    MaxExecs,    \* executions admitted in all
    MaxUpdates,  \* publications of a worker
    MaxRequests, \* messages of the client
    MaxAttempts, \* attempts of a closing connection to release its subscriptions
    None

ASSUME ProgressAssumption ==
    /\ Announcing \subseteq Keys
    /\ \A r \in Requests : r \in Seq(Keys)
    /\ \A c \in Capacities : c \in Nat \ {0}
    /\ MaxExecs \in Nat /\ MaxUpdates \in Nat /\ MaxRequests \in Nat
    /\ MaxAttempts \in Nat \ {0}
    /\ None \notin Keys \cup ((1..MaxExecs) \X {"submitter", "worker"})
    /\ None \notin [key : Keys, exec : 1..MaxExecs, seq : Nat]

Execs == 1..MaxExecs

\* The threads that publish: two of each execution.
Publishers == Execs \X {"submitter", "worker"}

VARIABLES
    execs,      \* task store: the key of each execution, in the order of admission
    owner,      \* task store: the execution a key belongs to; 0 for none
    latest,     \* hub: the latest event of a key
    lock,       \* hub: the publisher that holds the publication lock of a key
    subscribed, \* hub: the keys whose subscriber is this connection
    pub,        \* the publishing threads
    buf,        \* the connection's ProgressDeliveryBuffer
    conn,       \* the connection's thread and its registry
    shown,      \* what the client was sent last of each key
    seen,       \* history: newest execution of a key handed to the connection
    overtaken,  \* history: keys of which an older execution was handed in after it
    failed      \* history: executions one of whose guard queries raised

store     == <<execs, owner>>
history   == <<seen, overtaken>>
client    == <<conn, shown>>
vars      == <<execs, owner, latest, lock, subscribed, pub, buf, conn, shown,
               seen, overtaken, failed>>

-------------------------------------------------------------------------------
(* Snapshots and the buffer of a connection.                               *)

\* The fallback to the task store makes a snapshot of number 0.
Snapshot(k, e, n) == [key |-> k, exec |-> e, seq |-> n]
Snapshots == [key : Keys, exec : Execs, seq : 0 .. 2 * MaxUpdates + 1]

ExecOf(s) == IF s = None THEN 0 ELSE s.exec

\* Numbers compare within one execution only.
StaleOrEqual(candidate, current) ==
    candidate.exec = current.exec /\ candidate.seq <= current.seq

KeysIn(q) == {s.key : s \in ToSet(q)}

\* The entries of q that are in S, in their order: a function of how far the loop has
\* come, and not SelectSeq, so that what it computes can be proved.
Keep(q, S) ==
    LET upTo[n \in 0 .. Len(q)] ==
            IF n = 0 THEN <<>>
            ELSE IF q[n] \in S THEN Append(upTo[n - 1], q[n]) ELSE upTo[n - 1]
    IN  upTo[Len(q)]

Without(q, k) == Keep(q, {s \in ToSet(q) : s.key # k})

Overflows(q, s, capacity) == s.key \notin KeysIn(q) /\ Len(q) >= capacity

\* Mutant: a full queue grows.
PutUnbounded(q, s, capacity) ==
    IF s.key \in KeysIn(q)
    THEN Append(Without(q, s.key), s)
    ELSE Append(q, s)

\* One entry a key, the newest last; a full queue drops its oldest entry.
Put(q, s, capacity) ==
    CASE s.key \in KeysIn(q) ->
            IF \E t \in ToSet(q) : t.key = s.key /\ StaleOrEqual(s, t)
            THEN q
            ELSE Append(Without(q, s.key), s)
      [] Overflows(q, s, capacity)  -> Append(Tail(q), s)
      [] OTHER                      -> Append(q, s)

Newer(s, t) == s.exec > t.exec \/ (s.exec = t.exec /\ s.seq > t.seq)

\* The code counts the entries it drops; this keeps the newest one of each key.
Drop(dropped, s) ==
    IF dropped[s.key] = None \/ Newer(s, dropped[s.key])
    THEN [dropped EXCEPT ![s.key] = s]
    ELSE dropped

DroppedBy(b, q, s) ==
    IF Overflows(q, s, b.capacity) THEN Drop(b.dropped, Head(q)) ELSE b.dropped

OfferPending(b, s) ==
    [b EXCEPT !.pending = Put(@, s, b.capacity),
              !.dropped = DroppedBy(b, b.pending, s)]

\* Mutant: only what is still queued is compared.
OfferUnmarked(b, s) ==
    [b EXCEPT !.mark[s.key] = s,
              !.queue = Put(@, s, b.capacity),
              !.dropped = DroppedBy(b, b.queue, s)]

\* The watermark of a key is the snapshot accepted last; it outlives the entry.
OfferQueue(b, s) ==
    IF b.mark[s.key] # None /\ StaleOrEqual(s, b.mark[s.key])
    THEN b
    ELSE [b EXCEPT !.mark[s.key] = s,
                   !.queue = Put(@, s, b.capacity),
                   !.dropped = DroppedBy(b, b.queue, s)]

\* The subscriber the hub calls.
Publish(b, s) ==
    CASE b.closed -> b
      [] ~b.closed /\ b.batch  -> OfferPending(b, s)
      [] ~b.closed /\ ~b.batch -> OfferQueue(b, s)

BeginBatch(b) == [b EXCEPT !.batch = TRUE]
AbortBatch(b) == [b EXCEPT !.batch = FALSE, !.pending = <<>>]

\* What arrived behind the barrier may be of an execution newer than what was read.
\* Mutant: another execution's is thrown away, as it is before the barrier.
FreshOfSame(pending, read) ==
    Keep(pending, {s \in ToSet(pending) :
        read[s.key] = None \/ (s.exec = read[s.key].exec /\ s.seq > read[s.key].seq)})

Fresh(pending, read) ==
    Keep(pending, {s \in ToSet(pending) : read[s.key] = None \/ ~StaleOrEqual(s, read[s.key])})

\* The entries of q are offered to the queue one after the other.
OfferAll(b, q) ==
    LET after[n \in 0 .. Len(q)] == IF n = 0 THEN b ELSE OfferQueue(after[n - 1], q[n])
    IN  after[Len(q)]

\* What was read and sent becomes the watermark.  What was queued before the barrier
\* is older than what was read, also when it is of another execution.
Queued(b, read) ==
    Keep(b.queue, {s \in ToSet(b.queue) :
        read[s.key] = None \/ (s.exec = read[s.key].exec /\ s.seq > read[s.key].seq)})

Opened(b, read) ==
    LET queued == Queued(b, read)
    IN  [b EXCEPT !.batch = FALSE, !.pending = <<>>, !.queue = queued,
                  !.mark = [k \in Keys |->
                      CASE k \in KeysIn(queued) -> CHOOSE s \in ToSet(queued) : s.key = k
                        [] k \notin KeysIn(queued) /\ read[k] # None -> read[k]
                        [] OTHER -> b.mark[k]]]

FinishBatch(b, read) == OfferAll(Opened(b, read), Fresh(b.pending, read))

Clear == [k \in Keys |-> None]

CloseBuffer(b) ==
    [capacity |-> b.capacity, closed |-> TRUE, batch |-> FALSE,
     queue |-> <<>>, pending |-> <<>>, mark |-> Clear, dropped |-> Clear]

-------------------------------------------------------------------------------
(* State.                                                                  *)

Buffers ==
    [capacity : Capacities, closed : BOOLEAN, batch : BOOLEAN,
     queue : Seq(Snapshots), pending : Seq(Snapshots),
     mark : [Keys -> Snapshots \cup {None}], dropped : [Keys -> Snapshots \cup {None}]]

IdleThread == [at |-> "idle", left |-> 0, call |-> None]

Init ==
    /\ execs = <<>>
    /\ owner = [k \in Keys |-> 0]
    /\ latest = Clear
    /\ lock = Clear
    /\ subscribed = {}
    /\ pub = [p \in Publishers |-> IdleThread]
    /\ \E c \in Capacities :
          buf = [capacity |-> c, closed |-> FALSE, batch |-> FALSE,
                 queue |-> <<>>, pending |-> <<>>, mark |-> Clear, dropped |-> Clear]
    /\ conn = [at |-> "flush", request |-> <<>>, read |-> <<>>, items |-> <<>>,
               tokens |-> {}, added |-> {}, asked |-> 0,
               trying |-> {}, attempt |-> 0, refused |-> [k \in Keys |-> 0]]
    /\ shown = Clear
    /\ seen = [k \in Keys |-> 0]
    /\ overtaken = {}
    /\ failed = {}

-------------------------------------------------------------------------------
(* Executions and the threads that publish for them.                       *)

Done(p) == pub[p].at = "idle" /\ pub[p].left = 0

\* The store admits the next execution of a file when the callback of the previous one
\* is settled, which its worker does last; of any other key as soon as the previous one
\* has finished, when its worker may still have its last publication to make.  The
\* submitter of the previous one may be anywhere.
Replaceable(k) ==
    owner[k] # 0 => pub[<<owner[k], "worker">>].left <= IF k \in Announcing THEN 1 ELSE 0

Admit(k) ==
    LET e == Len(execs) + 1
    IN  /\ e <= MaxExecs
        /\ Replaceable(k)
        /\ execs' = Append(execs, k)
        /\ owner' = [owner EXCEPT ![k] = e]
        /\ pub' = [pub EXCEPT ![<<e, "submitter">>].left = IF k \in Announcing THEN 1 ELSE 0,
                              ![<<e, "worker">>].left = MaxUpdates]
        /\ UNCHANGED <<latest, lock, subscribed, buf, client, history, failed>>

Key(p) == execs[p[1]]

\* Mutant: nothing may take the key over.
HandoffNever(p) == latest[Key(p)] # None /\ latest[Key(p)].exec # p[1]

\* Only "accepted" may take the key over from another execution.
HandoffForbidden(p) ==
    /\ latest[Key(p)] # None
    /\ latest[Key(p)].exec # p[1]
    /\ p[2] # "submitter"

\* A publication is over: by its calls, by a refusal, by an exception its caller logs.
End(p) == pub' = [pub EXCEPT ![p] = [at |-> "idle", left |-> @.left - 1, call |-> None]]

Refused(p) ==
    /\ HandoffForbidden(p) \/ owner[Key(p)] # p[1]
    /\ End(p)
    /\ UNCHANGED <<lock, failed>>

\* The guard query fails: nothing is published, and the execution goes on.
Raises(p) ==
    /\ ~HandoffForbidden(p)
    /\ failed' = failed \cup {p[1]}
    /\ End(p)
    /\ UNCHANGED lock

\* Mutant: the guard is asked before the lock is taken.
AllowedUnlocked(p) ==
    /\ ~HandoffForbidden(p) /\ owner[Key(p)] = p[1]
    /\ pub' = [pub EXCEPT ![p].at = "commit"]
    /\ UNCHANGED <<lock, failed>>

\* The lock of the key is kept from the guard to the commit.  The guard asks the store,
\* which knows nothing of that lock: the owner may change in between.
Allowed(p) ==
    /\ ~HandoffForbidden(p) /\ owner[Key(p)] = p[1]
    /\ pub' = [pub EXCEPT ![p].at = "commit"]
    /\ lock' = [lock EXCEPT ![Key(p)] = p]
    /\ UNCHANGED failed

Guard(p) ==
    /\ pub[p].at = "idle" /\ pub[p].left > 0
    /\ lock[Key(p)] = None
    /\ Refused(p) \/ Raises(p) \/ Allowed(p)
    /\ UNCHANGED <<store, latest, subscribed, buf, client, history>>

Event(p) ==
    LET k == Key(p)
    IN  Snapshot(k, p[1], IF latest[k] # None /\ latest[k].exec = p[1]
                          THEN latest[k].seq + 1 ELSE 1)

\* The latest event and the copy of the subscribers are one step of the hub's lock.
Commit(p) ==
    /\ pub[p].at = "commit"
    /\ latest' = [latest EXCEPT ![Key(p)] = Event(p)]
    /\ IF Key(p) \in subscribed
       THEN pub' = [pub EXCEPT ![p].at = "call", ![p].call = Event(p)]
       ELSE End(p)
    /\ lock' = [lock EXCEPT ![Key(p)] = None]
    /\ UNCHANGED <<store, subscribed, buf, client, history, failed>>

\* History: what the connection is given, by a call or by its own reading.
Handed(s) ==
    /\ seen' = [seen EXCEPT ![s.key] = IF s.exec > @ THEN s.exec ELSE @]
    /\ overtaken' = overtaken \cup (IF s.exec < seen[s.key] THEN {s.key} ELSE {})

Call(p) ==
    /\ pub[p].at = "call"
    /\ buf' = Publish(buf, pub[p].call)
    /\ IF buf.closed THEN UNCHANGED history ELSE Handed(pub[p].call)
    /\ End(p)
    /\ UNCHANGED <<store, latest, lock, subscribed, client, failed>>

Publishing(p) == Guard(p) \/ Commit(p) \/ Call(p)

-------------------------------------------------------------------------------
(* The connection: one thread that receives requests and sends.            *)

\* conn.items is what the thread still has to send; while it answers a request,
\* conn.read is what it has read for it, by its place in the request.  The registry has
\* the tokens; conn.trying are those not yet tried in the present attempt to release
\* them, and conn.refused counts (history) how often that of a key has raised.
Goto(place) == conn' = [conn EXCEPT !.at = place]

\* Everything queued is taken at once, before the thread waits for a message.
Flush ==
    /\ conn.at = "flush"
    /\ conn' = [conn EXCEPT !.at = "receive", !.items = buf.queue]
    /\ buf' = [buf EXCEPT !.queue = <<>>]
    /\ UNCHANGED <<store, latest, lock, subscribed, pub, shown, history, failed>>

Send ==
    /\ conn.items # <<>>
    /\ conn.at \in {"receive", "sending"}
    /\ LET s == Head(conn.items)
       IN  shown' = [shown EXCEPT ![s.key] = s]
    /\ conn' = [conn EXCEPT !.items = Tail(@)]
    /\ UNCHANGED <<store, latest, lock, subscribed, pub, buf, history, failed>>

Waiting == conn.at = "receive" /\ conn.items = <<>>

\* No message within the poll interval.
Poll ==
    /\ Waiting
    /\ Goto("flush")
    /\ UNCHANGED <<store, latest, lock, subscribed, pub, buf, shown, history, failed>>

\* A message; the barrier goes up before anything is subscribed.
Ask(request) ==
    /\ Waiting /\ conn.asked < MaxRequests
    /\ conn' = [conn EXCEPT !.at = "subscribe", !.asked = @ + 1, !.request = request]
    /\ buf' = BeginBatch(buf)
    /\ UNCHANGED <<store, latest, lock, subscribed, pub, shown, history, failed>>

\* The next key of the request that has no subscription yet.
Subscribe ==
    /\ conn.at = "subscribe"
    /\ \E i \in DOMAIN conn.request :
          LET k == conn.request[i]
          IN  /\ k \notin conn.tokens \cup conn.added
              /\ \A j \in 1 .. i - 1 : conn.request[j] \in conn.tokens \cup conn.added
              /\ subscribed' = subscribed \cup {k}
              /\ conn' = [conn EXCEPT !.added = @ \cup {k}]
    /\ UNCHANGED <<store, latest, lock, pub, buf, shown, history, failed>>

Subscribed ==
    /\ conn.at = "subscribe"
    /\ \A i \in DOMAIN conn.request : conn.request[i] \in conn.tokens \cup conn.added
    /\ Goto("read")
    /\ UNCHANGED <<store, latest, lock, subscribed, pub, buf, shown, history, failed>>

Asked == conn.request[Len(conn.read) + 1]

Unread == Len(conn.read) < Len(conn.request)

Got(s) == conn' = [conn EXCEPT !.at = "read", !.read = Append(@, s)]

\* The hub first; the task store only if the hub has nothing of the key.
ReadHub ==
    /\ conn.at = "read" /\ Unread
    /\ IF latest[Asked] # None
       THEN Got(latest[Asked]) /\ Handed(latest[Asked])
       ELSE Goto("fallback") /\ UNCHANGED history
    /\ UNCHANGED <<store, latest, lock, subscribed, pub, buf, shown, failed>>

ReadTask ==
    /\ conn.at = "fallback"
    /\ IF owner[Asked] # 0
       THEN LET s == Snapshot(Asked, owner[Asked], 0)
            IN  Got(s) /\ Handed(s)
       ELSE Got(None) /\ UNCHANGED history
    /\ UNCHANGED <<store, latest, lock, subscribed, pub, buf, shown, failed>>

\* The registry keeps the tokens before the first item is sent.  A key nobody knows is
\* sent as missing, which shows the client nothing.
Register ==
    /\ conn.at = "read" /\ ~Unread
    /\ conn' = [conn EXCEPT !.at = "sending", !.tokens = @ \cup conn.added,
                            !.items = Keep(conn.read, ToSet(conn.read) \ {None})]
    /\ UNCHANGED <<store, latest, lock, subscribed, pub, buf, shown, history, failed>>

\* Of a key that was read twice the last reading counts.
LastRead(k) ==
    LET places == {i \in DOMAIN conn.read : conn.read[i] # None /\ conn.read[i].key = k}
    IN  IF places = {} THEN None
        ELSE conn.read[CHOOSE i \in places : \A j \in places : j <= i]

Complete ==
    /\ conn.at = "sending" /\ conn.items = <<>>
    /\ buf' = FinishBatch(buf, [k \in Keys |-> LastRead(k)])
    /\ overtaken' = overtaken \cup
           {s.key : s \in {t \in ToSet(buf.pending) : ExecOf(LastRead(t.key)) > t.exec}}
    /\ conn' = [conn EXCEPT !.at = "flush", !.request = <<>>, !.read = <<>>, !.added = {}]
    /\ UNCHANGED <<store, latest, lock, subscribed, pub, shown, seen, failed>>

\* Subscribing or reading raises: the barrier comes down, the new subscriptions go.
SubscribeFails ==
    /\ conn.at \in {"subscribe", "read", "fallback"}
    /\ buf' = AbortBatch(buf)
    /\ Goto("rollback")
    /\ UNCHANGED <<store, latest, lock, subscribed, pub, shown, history, failed>>

\* Mutant: a subscription that stays is not handed to the registry.
RollbackForgets ==
    /\ conn.at = "rollback"
    /\ \E k \in conn.added :
          /\ conn' = [conn EXCEPT !.added = @ \ {k}]
          /\ subscribed' \in {subscribed, subscribed \ {k}}
    /\ UNCHANGED <<store, latest, lock, pub, buf, shown, history, failed>>

\* The new subscriptions are released one by one.  Of one whose release raises, the
\* registry of the connection retains the token.
Rollback ==
    /\ conn.at = "rollback"
    /\ \E k \in conn.added :
          \/ /\ subscribed' = subscribed \ {k}
             /\ conn' = [conn EXCEPT !.added = @ \ {k}]
          \/ /\ conn' = [conn EXCEPT !.added = @ \ {k}, !.tokens = @ \cup {k}]
             /\ UNCHANGED subscribed
    /\ UNCHANGED <<store, latest, lock, pub, buf, shown, history, failed>>

RolledBack ==
    /\ conn.at = "rollback" /\ conn.added = {}
    /\ Goto("close")
    /\ UNCHANGED <<store, latest, lock, subscribed, pub, buf, shown, history, failed>>

SendFails ==
    /\ conn.items # <<>>
    /\ \/ conn.at = "sending" /\ buf' = AbortBatch(buf)
       \/ conn.at = "receive" /\ UNCHANGED buf
    /\ conn' = [conn EXCEPT !.at = "close", !.added = {}]
    /\ UNCHANGED <<store, latest, lock, subscribed, pub, shown, history, failed>>

Disconnect ==
    /\ Waiting
    /\ Goto("close")
    /\ UNCHANGED <<store, latest, lock, subscribed, pub, buf, shown, history, failed>>

\* The buffer first, so that calls under way find it closed.  The client is gone, and
\* with it what it was shown.
Close ==
    /\ conn.at = "close"
    /\ buf' = CloseBuffer(buf)
    /\ conn' = [conn EXCEPT !.at = "release", !.request = <<>>, !.read = <<>>, !.items = <<>>,
                            !.trying = conn.tokens, !.attempt = 1]
    /\ shown' = Clear /\ seen' = [k \in Keys |-> 0] /\ overtaken' = {}
    /\ UNCHANGED <<store, latest, lock, subscribed, pub, failed>>

\* One by one, whatever becomes of the others; a token whose release raises stays.
Release ==
    /\ conn.at = "release"
    /\ \E k \in conn.trying :
          \/ /\ subscribed' = subscribed \ {k}
             /\ conn' = [conn EXCEPT !.trying = @ \ {k}, !.tokens = @ \ {k}]
          \/ /\ conn' = [conn EXCEPT !.trying = @ \ {k}, !.refused[k] = @ + 1]
             /\ UNCHANGED subscribed
    /\ UNCHANGED <<store, latest, lock, pub, buf, shown, history, failed>>

Tried == conn.at = "release" /\ conn.trying = {}

\* What is left is tried again.
Retry ==
    /\ Tried /\ conn.tokens # {} /\ conn.attempt < MaxAttempts
    /\ conn' = [conn EXCEPT !.trying = conn.tokens, !.attempt = @ + 1]
    /\ UNCHANGED <<store, latest, lock, subscribed, pub, buf, shown, history, failed>>

\* All is released, or the attempts are used up: what remains is logged.
Leave ==
    /\ Tried
    /\ conn.tokens = {} \/ conn.attempt = MaxAttempts
    /\ Goto("gone")
    /\ UNCHANGED <<store, latest, lock, subscribed, pub, buf, shown, history, failed>>

Connection ==
    \/ Flush \/ Send \/ Poll \/ (\E r \in Requests : Ask(r))
    \/ Subscribe \/ Subscribed \/ ReadHub \/ ReadTask \/ Register \/ Complete
    \/ SubscribeFails \/ Rollback \/ RolledBack \/ SendFails \/ Disconnect
    \/ Close \/ Release \/ Retry \/ Leave

Next ==
    \/ \E k \in Keys : Admit(k)
    \/ \E p \in Publishers : Publishing(p)
    \/ Connection

Spec == Init /\ [][Next]_vars

-------------------------------------------------------------------------------
(* Properties.                                                             *)

TypeOK ==
    /\ execs \in Seq(Keys) /\ Len(execs) <= MaxExecs
    /\ owner \in [Keys -> 0..MaxExecs]
    /\ latest \in [Keys -> Snapshots \cup {None}]
    /\ lock \in [Keys -> Publishers \cup {None}]
    /\ subscribed \subseteq Keys
    /\ pub \in [Publishers -> [at : {"idle", "commit", "call"},
                               left : 0 .. MaxUpdates + 1,
                               call : Snapshots \cup {None}]]
    /\ buf \in Buffers /\ Len(buf.queue) <= buf.capacity /\ Len(buf.pending) <= buf.capacity
    /\ conn \in [at : {"flush", "receive", "subscribe", "read", "fallback", "sending",
                       "rollback", "close", "release", "gone"},
                 request : Requests \cup {<<>>}, read : Seq(Snapshots \cup {None}),
                 items : Seq(Snapshots), tokens : SUBSET Keys, added : SUBSET Keys,
                 asked : 0..MaxRequests, trying : SUBSET Keys,
                 attempt : 0..MaxAttempts, refused : [Keys -> 0..MaxAttempts]]
    /\ shown \in [Keys -> Snapshots \cup {None}]
    /\ seen \in [Keys -> 0..MaxExecs]
    /\ overtaken \subseteq Keys
    /\ failed \subseteq Execs

\* The hub never goes back to an older execution of a key, although the store may
\* change the owner between the guard of a publication and its commit, and a submitter
\* may publish long after its execution is over (progress_hub.py:222-266).
HubForward == [][\A k \in Keys : ExecOf(latest'[k]) >= ExecOf(latest[k])]_vars

\* Every publication of the key's executions is over.
Settled(k) ==
    \A e \in DOMAIN execs : execs[e] = k => Done(<<e, "submitter">>) /\ Done(<<e, "worker">>)

\* Once the publications of a key are over, the hub shows the execution that owns it,
\* unless a guard query of that execution raised (latest_progress.py:25-28: a new
\* execution's notification finally replaces the old snapshot).
HubFollowsOwner ==
    \A k \in Keys :
        Settled(k) /\ owner[k] \notin failed => ExecOf(latest[k]) = owner[k]

\* s may follow t on the wire.
Follows(s, t) ==
    s # None /\ t # None => s.exec > t.exec \/ (s.exec = t.exec /\ s.seq >= t.seq)

\* What the client is sent of a key never goes back, in whatever order calls, readings,
\* flushes and barriers come: unless an older execution is handed to the connection
\* after a newer one, which the buffer leaves to the hub (progress_delivery.py:353-355).
SentForward == [][\A k \in Keys \ overtaken : Follows(shown'[k], shown[k])]_vars

\* Nothing is under way between the hub and the client.
Quiet ==
    /\ Waiting /\ buf.queue = <<>>
    /\ \A p \in Publishers : pub[p].at # "call"

\* A client that has subscribed ends up with the latest event of each of its keys; or
\* the buffer dropped that very event, and the client follows more keys than fit.
Converges ==
    Quiet => \A k \in conn.tokens \ overtaken :
        \/ latest[k] = None
        \/ shown[k] = latest[k]
        \/ buf.dropped[k] = latest[k] /\ Cardinality(conn.tokens) > buf.capacity

\* A connection that is gone leaves nothing behind but subscriptions it knows of and
\* whose release raised at every attempt, also those a failed subscribing could not take
\* back; and a call, one under way when it closed or one for such a subscription, leaves
\* no entry in its buffer.
NothingLeft ==
    conn.at = "gone" =>
        /\ subscribed = conn.tokens
        /\ \A k \in conn.tokens : conn.refused[k] = MaxAttempts
        /\ buf.queue = <<>> /\ buf.pending = <<>> /\ buf.mark = Clear
===============================================================================
