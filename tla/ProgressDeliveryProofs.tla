------------------------ MODULE ProgressDeliveryProofs ------------------------
(***************************************************************************)
(* What holds of the progress hub and of a connection's end for any number *)
(* of keys, executions, publications, requests and capacities.             *)
(***************************************************************************)
EXTENDS ProgressDelivery, TLAPS

Events == [key : Keys, exec : Execs, seq : Nat]

Shape ==
    /\ execs \in Seq(Keys) /\ Len(execs) <= MaxExecs
    /\ owner \in [Keys -> Nat]
    /\ latest \in [Keys -> Events \cup {None}]
    /\ lock \in [Keys -> Publishers \cup {None}]
    /\ pub \in [Publishers -> [at : {"idle", "commit", "call"}, left : Int,
                               call : Events \cup {None}]]

\* Only executions that have been admitted publish.
Born(p) == pub[p].at # "idle" \/ pub[p].left # 0 => p[1] \in 1 .. Len(execs)

\* The owner of a key is an execution of the key.
Owning(k) == owner[k] # 0 => owner[k] \in 1 .. Len(execs) /\ execs[owner[k]] = k

\* The hub is never ahead of the store.
Behind(k) == latest[k] # None => latest[k].exec <= owner[k]

\* Between its guard and its commit a publication has the lock of its key, so the hub
\* is where the guard saw it; the store may have gone on.
Committing(p) ==
    pub[p].at = "commit" =>
        /\ lock[Key(p)] = p
        /\ p[1] <= owner[Key(p)]
        /\ latest[Key(p)] # None => latest[Key(p)].exec <= p[1]

\* Once its submitter has announced the owner of a key, the hub shows it.
Announced(k) ==
    LET s == <<owner[k], "submitter">> IN
    owner[k] # 0 /\ owner[k] \notin failed /\ (Done(s) \/ pub[s].at = "call") =>
        latest[k] # None /\ latest[k].exec = owner[k]

HubInv ==
    /\ Shape
    /\ \A p \in Publishers : Born(p) /\ Committing(p)
    /\ \A k \in Keys : Owning(k) /\ Behind(k)

Closing == {"release", "gone"}

\* A connection's subscriptions are those it has registered or is about to.
Holding ==
    /\ DOMAIN conn = {"at", "request", "read", "items", "tokens", "added", "asked",
                      "trying", "attempt", "refused"}
    /\ conn.request \in Seq(Keys)
    /\ conn.tokens \subseteq Keys /\ conn.added \subseteq Keys
    /\ subscribed = conn.tokens \cup conn.added
    /\ conn.at \in {"flush", "receive", "close"} \cup Closing => conn.added = {}
    /\ conn.at = "sending" => conn.added \subseteq conn.tokens
    /\ conn.at # "sending" => conn.tokens \cap conn.added = {}

\* Whatever is still held has been refused at every attempt made of it.
Releasing ==
    /\ conn.refused \in [Keys -> 0 .. MaxAttempts]
    /\ conn.attempt \in 0 .. MaxAttempts
    /\ conn.trying \subseteq conn.tokens
    /\ conn.at \notin Closing =>
          conn.trying = {} /\ \A k \in Keys : conn.refused[k] = 0
    /\ conn.at = "release" =>
          /\ conn.attempt > 0
          /\ \A k \in conn.trying : conn.refused[k] = conn.attempt - 1
          /\ \A k \in conn.tokens \ conn.trying : conn.refused[k] = conn.attempt
    /\ conn.at = "gone" => \A k \in conn.tokens : conn.refused[k] = MaxAttempts

\* A closed buffer stays empty.
Shut ==
    conn.at \in Closing =>
        buf.closed = TRUE /\ buf.queue = <<>> /\ buf.pending = <<>> /\ buf.mark = Clear

ConnInv == Holding /\ Releasing /\ Shut

-------------------------------------------------------------------------------
(* The hub.                                                                *)

hub == <<execs, owner, latest, lock, pub, failed>>

LEMMA HubInit == ASSUME ProgressAssumption PROVE Init => HubInv
BY DEF Init, HubInv, Shape, Born, Committing, Owning, Behind, Clear, IdleThread, Publishers,
       Execs, ProgressAssumption

\* What does not touch the hub, the store or a publisher keeps the invariant.
LEMMA HubStutter ==
    ASSUME UNCHANGED <<execs, owner, latest, lock, pub>>, HubInv
    PROVE  HubInv'
BY DEF HubInv, Shape, Born, Committing, Owning, Behind, Key

\* Admission touches the two new threads only.
LEMMA AdmitPublishers ==
    ASSUME ProgressAssumption, HubInv, NEW k \in Keys, Admit(k)
    PROVE  LET e == Len(execs) + 1
               S == <<e, "submitter">>
               W == <<e, "worker">>
           IN  /\ S \in Publishers /\ W \in Publishers /\ S # W
               /\ pub' \in [Publishers -> [at : {"idle", "commit", "call"}, left : Int,
                                           call : Events \cup {None}]]
               /\ \A p \in Publishers : pub'[p].at = pub[p].at
               /\ \A p \in Publishers \ {S, W} : pub'[p] = pub[p]
               /\ \A p \in Publishers : pub'[p].call = pub[p].call
               /\ pub'[W].left = MaxUpdates /\ pub'[S].left \in 0 .. 1
               /\ k \in Announcing => pub'[S].left = 1
<1> DEFINE e == Len(execs) + 1
           S == <<e, "submitter">>
           W == <<e, "worker">>
<1>1. S \in Publishers /\ W \in Publishers /\ S # W
  BY DEF HubInv, Shape, Admit, Execs, Publishers, ProgressAssumption
<1>2. /\ pub' \in [Publishers -> [at : {"idle", "commit", "call"}, left : Int,
                                 call : Events \cup {None}]]
      /\ \A p \in Publishers : pub'[p].at = pub[p].at
      /\ \A p \in Publishers \ {S, W} : pub'[p] = pub[p]
      /\ \A p \in Publishers : pub'[p].call = pub[p].call
      /\ pub'[W].left = MaxUpdates /\ pub'[S].left \in 0 .. 1
      /\ k \in Announcing => pub'[S].left = 1
  <2> DEFINE first == IF k \in Announcing THEN 1 ELSE 0
             Kinds == [at : {"idle", "commit", "call"}, left : Int, call : Events \cup {None}]
  <2>1. pub' = [pub EXCEPT ![S].left = first, ![W].left = MaxUpdates]
    BY DEF Admit
  <2>2. pub \in [Publishers -> Kinds]
    BY DEF HubInv, Shape
  <2>3. first \in Int /\ MaxUpdates \in Int /\ first \in 0 .. 1
    BY DEF ProgressAssumption
  <2>7. k \in Announcing => first = 1
    OBVIOUS
  <2> HIDE DEF first, S, W
  <2>4. pub' = [q \in Publishers |-> IF q = W THEN [pub[W] EXCEPT !.left = MaxUpdates]
                                    ELSE IF q = S THEN [pub[S] EXCEPT !.left = first]
                                    ELSE pub[q]]
    BY <1>1, <2>1, <2>2
  <2>5. [pub[W] EXCEPT !.left = MaxUpdates] \in Kinds
        /\ [pub[W] EXCEPT !.left = MaxUpdates].at = pub[W].at
        /\ [pub[W] EXCEPT !.left = MaxUpdates].call = pub[W].call
        /\ [pub[W] EXCEPT !.left = MaxUpdates].left = MaxUpdates
    BY <1>1, <2>2, <2>3
  <2>6. [pub[S] EXCEPT !.left = first] \in Kinds
        /\ [pub[S] EXCEPT !.left = first].at = pub[S].at
        /\ [pub[S] EXCEPT !.left = first].call = pub[S].call
        /\ [pub[S] EXCEPT !.left = first].left = first
    BY <1>1, <2>2, <2>3
  <2> QED
    BY <1>1, <2>2, <2>3, <2>4, <2>5, <2>6, <2>7
<1> QED
  BY <1>1, <1>2

LEMMA AdmitKeepsHub ==
    ASSUME ProgressAssumption, HubInv, NEW k \in Keys, Admit(k)
    PROVE  HubInv'
<1> DEFINE e == Len(execs) + 1
           S == <<e, "submitter">>
           W == <<e, "worker">>
<1>1. /\ e \in Nat \ {0} /\ e <= MaxExecs /\ e \in Execs
      /\ S \in Publishers /\ W \in Publishers /\ S # W
  BY DEF HubInv, Shape, Admit, Execs, Publishers, ProgressAssumption
<1>2. execs' \in Seq(Keys) /\ Len(execs') = e
  BY DEF HubInv, Shape, Admit
<1>3. \A i \in 1 .. Len(execs) : execs'[i] = execs[i]
  BY DEF HubInv, Shape, Admit
<1>4. execs'[e] = k
  BY DEF HubInv, Shape, Admit
<1>5. owner' = [owner EXCEPT ![k] = e] /\ latest' = latest /\ lock' = lock
  BY DEF Admit
<1>6. /\ pub' \in [Publishers -> [at : {"idle", "commit", "call"}, left : Int,
                                 call : Events \cup {None}]]
      /\ \A p \in Publishers : pub'[p].at = pub[p].at
      /\ \A p \in Publishers \ {S, W} : pub'[p] = pub[p]
  BY AdmitPublishers
<1>7. Shape'
  BY <1>1, <1>2, <1>5, <1>6 DEF HubInv, Shape
<1>0. ASSUME NEW j \in Keys PROVE owner[j] \in Nat /\ owner[j] < e
  <2>1. Len(execs) \in Nat /\ owner[j] \in Nat /\ Owning(j)
    BY DEF HubInv, Shape
  <2> QED
    BY <2>1 DEF Owning
<1>8. ASSUME NEW p \in Publishers PROVE Born(p)' /\ Committing(p)'
  <2>1. p[1] \in Execs
    BY DEF Publishers
  <2>2. CASE p \in {S, W}
    <3>1. p[1] = e /\ ~(p[1] \in 1 .. Len(execs))
      BY <2>2, <1>1 DEF HubInv, Shape
    <3>2. pub[p].at = "idle"
      BY <3>1 DEF HubInv, Born
    <3> QED
      BY <1>1, <1>2, <1>6, <3>1, <3>2 DEF Born, Committing
  <2>3. CASE p \notin {S, W}
    <3>1. pub'[p] = pub[p]
      BY <2>3, <1>6
    <3>2. Born(p)'
      BY <3>1, <1>2, <2>1 DEF HubInv, Shape, Born, Execs
    <3>3. ASSUME pub[p].at = "commit" PROVE Committing(p)'
      <4>1. p[1] \in 1 .. Len(execs) /\ Key(p)' = Key(p) /\ Key(p) \in Keys
        BY <3>3, <1>3 DEF HubInv, Shape, Born, Key
      <4>2. owner[Key(p)] \in Nat /\ owner[Key(p)] < e
        BY <4>1, <1>0
      <4>3. owner'[Key(p)] >= owner[Key(p)]
        BY <4>1, <4>2, <1>5, <1>1 DEF HubInv, Shape
      <4> QED
        BY <3>3, <4>1, <4>2, <4>3, <1>5, <1>7, <2>1 DEF HubInv, Shape, Committing, Execs
    <3> QED
      BY <3>1, <3>2, <3>3 DEF Committing
  <2> QED
    BY <2>2, <2>3
<1>9. ASSUME NEW j \in Keys PROVE Owning(j)' /\ Behind(j)'
  <2>1. owner'[j] = IF j = k THEN e ELSE owner[j]
    BY <1>5 DEF HubInv, Shape
  <2>2. Owning(j)'
    <3>1. CASE j = k
      BY <3>1, <2>1, <1>1, <1>2, <1>4 DEF Owning
    <3>2. CASE j # k
      <4>1. owner'[j] = owner[j] /\ Owning(j) /\ Len(execs) \in Nat
        BY <3>2, <2>1 DEF HubInv, Shape
      <4> QED
        BY <4>1, <1>2, <1>3 DEF Owning
    <3> QED
      BY <3>1, <3>2
  <2>3. owner[j] < e /\ owner[j] \in Nat
    BY <1>0
  <2>4. latest[j] # None => latest[j].exec \in Nat
    BY DEF HubInv, Shape, Events, Execs
  <2>5. Behind(j)'
    BY <2>1, <2>3, <2>4, <1>1, <1>5 DEF HubInv, Behind
  <2> QED
    BY <2>2, <2>5
<1> QED
  BY <1>7, <1>8, <1>9 DEF HubInv

\* A publication that ends, or is refused, leaves the hub and the store alone.
LEMMA EndKeepsHub ==
    ASSUME ProgressAssumption, HubInv, NEW p \in Publishers, p[1] \in 1 .. Len(execs),
           End(p), UNCHANGED <<execs, owner, latest, lock>>
    PROVE  HubInv'
<1>1. /\ pub' \in [Publishers -> [at : {"idle", "commit", "call"}, left : Int,
                                 call : Events \cup {None}]]
      /\ pub'[p].at = "idle"
      /\ \A q \in Publishers \ {p} : pub'[q] = pub[q]
  BY DEF HubInv, Shape, End
<1>2. Shape'
  BY <1>1 DEF HubInv, Shape
<1>3. \A q \in Publishers : Born(q)' /\ Committing(q)'
  BY <1>1 DEF HubInv, Born, Committing, Key
<1> QED
  BY <1>2, <1>3 DEF HubInv, Owning, Behind

LEMMA GuardKeepsHub ==
    ASSUME ProgressAssumption, HubInv, NEW p \in Publishers, Guard(p)
    PROVE  HubInv'
<1>1. p[1] \in 1 .. Len(execs) /\ p[1] \in Nat /\ Key(p) \in Keys
  BY DEF Guard, HubInv, Shape, Born, Key, Publishers, Execs
<1>2. CASE Refused(p) \/ Raises(p)
  BY <1>1, <1>2, EndKeepsHub DEF Guard, Refused, Raises, store
<1>3. CASE Allowed(p)
  <2>1. /\ owner[Key(p)] = p[1] /\ lock[Key(p)] = None
        /\ lock' = [lock EXCEPT ![Key(p)] = p]
        /\ pub' = [pub EXCEPT ![p].at = "commit"]
        /\ execs' = execs /\ owner' = owner /\ latest' = latest
    BY <1>3 DEF Guard, Allowed, store
  <2>2. Shape'
    BY <1>1, <2>1 DEF HubInv, Shape
  <2>3. \A q \in Publishers : Born(q)'
    BY <1>1, <2>1 DEF HubInv, Shape, Born
  <2>4. Committing(p)'
    BY <1>1, <2>1 DEF HubInv, Shape, Behind, Committing, Key
  <2>5. ASSUME NEW q \in Publishers, q # p, pub[q].at = "commit" PROVE Committing(q)'
    <3>1. Key(q) # Key(p)
      BY <2>1, <2>5 DEF HubInv, Committing, Publishers, ProgressAssumption, Execs
    <3>2. q[1] \in 1 .. Len(execs) /\ Key(q) \in Keys
      BY <2>5 DEF HubInv, Shape, Born, Key
    <3> QED
      BY <3>1, <3>2, <2>1, <2>5 DEF HubInv, Shape, Committing, Key
  <2>6. \A q \in Publishers : Committing(q)'
    BY <2>1, <2>4, <2>5 DEF HubInv, Shape, Committing
  <2> QED
    BY <2>1, <2>2, <2>3, <2>6 DEF HubInv, Owning, Behind
<1> QED
  BY <1>2, <1>3 DEF Guard

\* What a commit puts into the hub is of the execution that publishes.
LEMMA EventOf ==
    ASSUME HubInv, NEW p \in Publishers, p[1] \in 1 .. Len(execs)
    PROVE  Event(p) \in Events /\ Event(p).exec = p[1] /\ Key(p) \in Keys
<1>1. Key(p) \in Keys /\ p[1] \in Execs
  BY DEF HubInv, Shape, Key, Publishers, Execs
<1>2. latest[Key(p)] # None => latest[Key(p)] \in Events
  BY <1>1 DEF HubInv, Shape
<1>3. latest[Key(p)] # None => latest[Key(p)].seq + 1 \in Nat
  BY <1>2 DEF Events
<1> QED
  BY <1>1, <1>3 DEF Event, Snapshot, Events

LEMMA CommitKeepsHub ==
    ASSUME ProgressAssumption, HubInv, NEW p \in Publishers, Commit(p)
    PROVE  /\ HubInv'
           /\ latest' = [latest EXCEPT ![Key(p)] = Event(p)]
           /\ latest[Key(p)] # None => latest[Key(p)].exec <= p[1]
           /\ p[1] \in 1 .. Len(execs) /\ p[1] <= owner[Key(p)]
<1>1. p[1] \in 1 .. Len(execs) /\ Committing(p) /\ pub[p].at = "commit"
  BY DEF Commit, HubInv, Born
<1>2. Event(p) \in Events /\ Event(p).exec = p[1] /\ Key(p) \in Keys
  BY <1>1, EventOf
<1>3. /\ latest' = [latest EXCEPT ![Key(p)] = Event(p)]
      /\ lock' = [lock EXCEPT ![Key(p)] = None]
      /\ execs' = execs /\ owner' = owner
  BY DEF Commit, store
<1>4. /\ pub' \in [Publishers -> [at : {"idle", "commit", "call"}, left : Int,
                                 call : Events \cup {None}]]
      /\ pub'[p].at # "commit"
      /\ \A q \in Publishers \ {p} : pub'[q] = pub[q]
  <2>1. CASE End(p)
    BY <2>1 DEF End, HubInv, Shape
  <2>2. CASE pub' = [pub EXCEPT ![p].at = "call", ![p].call = Event(p)]
    BY <2>2, <1>2 DEF HubInv, Shape
  <2> QED
    BY <2>1, <2>2 DEF Commit
<1>5. Shape'
  BY <1>2, <1>3, <1>4 DEF HubInv, Shape
<1>6. \A q \in Publishers : Born(q)'
  BY <1>1, <1>3, <1>4 DEF HubInv, Born
<1>7. ASSUME NEW q \in Publishers, pub'[q].at = "commit" PROVE Committing(q)'
  <2>1. q # p /\ pub'[q] = pub[q] /\ Committing(q) /\ pub[q].at = "commit"
    BY <1>4, <1>7 DEF HubInv
  <2>2. Key(q) # Key(p) /\ Key(q)' = Key(q)
    BY <2>1, <1>1, <1>3 DEF Committing, Key
  <2>3. q[1] \in 1 .. Len(execs) /\ Key(q) \in Keys
    BY <2>1 DEF HubInv, Shape, Born, Key
  <2> QED
    BY <2>1, <2>2, <2>3, <1>3 DEF HubInv, Shape, Committing
<1>8. \A k \in Keys : Owning(k)'
  BY <1>3 DEF HubInv, Owning
<1>9. ASSUME NEW k \in Keys PROVE Behind(k)'
  <2>1. CASE k = Key(p)
    BY <2>1, <1>1, <1>2, <1>3 DEF HubInv, Shape, Behind, Committing
  <2>2. CASE k # Key(p)
    BY <2>2, <1>3 DEF HubInv, Shape, Behind
  <2> QED
    BY <2>1, <2>2
<1>10. HubInv'
  BY <1>5, <1>6, <1>7, <1>8, <1>9 DEF HubInv, Committing
<1> QED
  BY <1>1, <1>3, <1>10 DEF Committing

LEMMA CallKeepsHub ==
    ASSUME ProgressAssumption, HubInv, NEW p \in Publishers, Call(p)
    PROVE  HubInv'
<1>1. p[1] \in 1 .. Len(execs)
  BY DEF Call, HubInv, Born
<1> QED
  BY <1>1, EndKeepsHub DEF Call, store

\* The connection reads the hub and the store and changes neither.
LEMMA ConnectionLeavesHub ==
    ASSUME Connection
    PROVE  UNCHANGED hub
BY DEF Connection, Flush, Send, Poll, Ask, Subscribe, Subscribed, ReadHub, ReadTask, Register,
       Complete, SubscribeFails, Rollback, RolledBack, SendFails, Disconnect, Close, Release,
       Retry, Leave, Tried, Goto, Got, store, history, hub

LEMMA HubStep ==
    ASSUME ProgressAssumption, HubInv, [Next]_vars
    PROVE  HubInv'
<1>1. ASSUME NEW k \in Keys, Admit(k) PROVE HubInv'
  BY <1>1, AdmitKeepsHub
<1>2. ASSUME NEW p \in Publishers, Publishing(p) PROVE HubInv'
  BY <1>2, GuardKeepsHub, CommitKeepsHub, CallKeepsHub DEF Publishing
<1>3. CASE Connection
  BY <1>3, ConnectionLeavesHub, HubStutter DEF hub
<1>4. CASE UNCHANGED vars
  BY <1>4, HubStutter DEF vars
<1> QED
  BY <1>1, <1>2, <1>3, <1>4 DEF Next

\* The store knows every execution the hub shows, and a publication between its guard
\* and its commit is as new as whatever the hub shows of its key.
THEOREM HubInvariant ==
    ASSUME ProgressAssumption
    PROVE  Spec => []HubInv
<1>1. Init => HubInv
  BY HubInit
<1>2. HubInv /\ [Next]_vars => HubInv'
  BY HubStep
<1> QED
  BY <1>1, <1>2, PTL DEF Spec

\* The hub never goes back to an older execution of a key, however late its submitter
\* publishes and though the store may change the owner between the guard of a
\* publication and its commit (progress_hub.py:208-271).
THEOREM HubNeverBack ==
    ASSUME ProgressAssumption
    PROVE  Spec => HubForward
<1> DEFINE Fwd == \A k \in Keys : ExecOf(latest'[k]) >= ExecOf(latest[k])
<1>1. ASSUME HubInv, Next PROVE Fwd
  <2>1. \A k \in Keys : ExecOf(latest[k]) \in Nat
    BY <1>1 DEF HubInv, Shape, ExecOf, Events, Execs
  <2>2. CASE UNCHANGED latest
    BY <2>1, <2>2
  <2>3. ASSUME NEW p \in Publishers, Commit(p) PROVE Fwd
    <3>1. Event(p) \in Events /\ Event(p).exec = p[1] /\ Key(p) \in Keys
      BY <1>1, <2>3, CommitKeepsHub, EventOf
    <3>2. ExecOf(latest[Key(p)]) <= p[1] /\ p[1] \in Nat
      BY <1>1, <2>3, CommitKeepsHub DEF ExecOf, HubInv, Shape
    <3>3. Event(p) # None
      BY <3>1 DEF ProgressAssumption, Events, Execs
    <3>4. \A k \in Keys : latest'[k] = IF k = Key(p) THEN Event(p) ELSE latest[k]
      BY <1>1, <2>3, CommitKeepsHub DEF HubInv, Shape
    <3> QED
      BY <2>1, <3>1, <3>2, <3>3, <3>4 DEF ExecOf
  <2>4. \A k \in Keys : Admit(k) => UNCHANGED latest
    BY DEF Admit
  <2>5. \A p \in Publishers : Guard(p) \/ Call(p) => UNCHANGED latest
    BY DEF Guard, Call
  <2> QED
    BY <1>1, <2>2, <2>3, <2>4, <2>5, ConnectionLeavesHub DEF Next, Publishing, hub
<1>2. HubInv /\ [Next]_vars => [Fwd]_vars
  BY <1>1
<1> QED
  BY <1>2, HubInvariant, PTL DEF Spec, HubForward

-------------------------------------------------------------------------------
(* The hub ends up with the owner, where every key is announced.           *)

LEMMA AdmitKeepsAnnounced ==
    ASSUME ProgressAssumption, Announcing = Keys, HubInv, NEW k \in Keys, Admit(k),
           NEW j \in Keys, Announced(j)
    PROVE  Announced(j)'
<1> DEFINE e == Len(execs) + 1
           S == <<e, "submitter">>
           W == <<e, "worker">>
<1>1. /\ \A p \in Publishers \ {S, W} : pub'[p] = pub[p]
      /\ S \in Publishers /\ pub'[S].left = 1 /\ pub'[S].at = pub[S].at
  BY AdmitPublishers
<1>2. /\ owner' = [owner EXCEPT ![k] = e] /\ latest' = latest /\ failed' = failed
      /\ e \in Nat \ {0}
  BY DEF Admit, HubInv, Shape
<1>3. CASE j = k
  <2>1. owner'[j] = e
    BY <1>2, <1>3 DEF HubInv, Shape
  <2>2. pub[S].at = "idle"
    BY <1>1, <1>2 DEF HubInv, Shape, Born
  <2> QED
    BY <2>1, <2>2, <1>1 DEF Announced, Done
<1>4. CASE j # k
  <2>1. owner'[j] = owner[j]
    BY <1>2, <1>4 DEF HubInv, Shape
  <2>2. ASSUME owner[j] # 0 PROVE <<owner[j], "submitter">> \in Publishers \ {S, W}
    <3>1. owner[j] \in 1 .. Len(execs) /\ Len(execs) \in Nat /\ Len(execs) <= MaxExecs
      BY <2>2 DEF HubInv, Shape, Owning
    <3> QED
      BY <3>1 DEF Publishers, Execs, ProgressAssumption
  <2> QED
    BY <2>1, <2>2, <1>1, <1>2 DEF Announced, Done
<1> QED
  BY <1>3, <1>4

\* The thread that announces the owner of k is one of the publishers, and of key k.
LEMMA Announcer ==
    ASSUME ProgressAssumption, HubInv, NEW k \in Keys, owner[k] # 0
    PROVE  LET s == <<owner[k], "submitter">> IN
           s \in Publishers /\ Key(s) = k /\ owner[k] \in 1 .. Len(execs)
<1>1. owner[k] \in 1 .. Len(execs) /\ execs[owner[k]] = k /\ Len(execs) \in Nat
  BY DEF HubInv, Shape, Owning
<1> QED
  BY <1>1 DEF HubInv, Shape, Publishers, Execs, Key, ProgressAssumption

LEMMA PublishingKeepsAnnounced ==
    ASSUME ProgressAssumption, HubInv, NEW p \in Publishers, Publishing(p),
           NEW k \in Keys, Announced(k)
    PROVE  Announced(k)'
<1> DEFINE s == <<owner[k], "submitter">>
<1>1. owner' = owner /\ execs' = execs
  BY DEF Publishing, Guard, Commit, Call, store
<1>2. CASE owner[k] = 0
  BY <1>1, <1>2 DEF Announced
<1>3. ASSUME owner[k] # 0 PROVE Announced(k)'
  <2>1. s \in Publishers /\ Key(s) = k
    BY <1>3, Announcer
  <2>2. CASE Guard(p)
    <3>1. latest' = latest /\ failed \subseteq failed'
      BY <2>2 DEF Guard, Refused, Raises, Allowed
    <3>2. CASE p = s
      <4>1. ~HandoffForbidden(p) /\ owner[Key(p)] = p[1]
        BY <3>2, <2>1 DEF HandoffForbidden
      <4>2. CASE Raises(p)
        BY <4>2, <3>2, <1>1 DEF Raises, Announced
      <4>3. CASE Allowed(p)
        BY <4>3, <3>2, <2>1, <1>1 DEF Allowed, Announced, Done, HubInv, Shape
      <4> QED
        BY <4>1, <4>2, <4>3, <2>2 DEF Guard, Refused
    <3>3. CASE p # s
      <4>1. pub'[s] = pub[s]
        BY <3>3, <2>1, <2>2 DEF Guard, Refused, Raises, Allowed, End, HubInv, Shape
      <4> QED
        BY <4>1, <3>1, <1>1 DEF Announced, Done
    <3> QED
      BY <3>2, <3>3
  <2>3. CASE Commit(p)
    <3>1. /\ latest' = [latest EXCEPT ![Key(p)] = Event(p)]
          /\ latest[Key(p)] # None => latest[Key(p)].exec <= p[1]
          /\ p[1] \in 1 .. Len(execs) /\ p[1] <= owner[Key(p)]
          /\ failed' = failed
      BY <2>3, CommitKeepsHub DEF Commit
    <3>2. Event(p) \in Events /\ Event(p).exec = p[1] /\ Key(p) \in Keys /\ Event(p) # None
      BY <3>1, EventOf DEF ProgressAssumption, Events, Execs
    <3>3. p # s => pub'[s] = pub[s]
      BY <2>1, <2>3 DEF Commit, End, HubInv, Shape
    <3>4. CASE k = Key(p) /\ p = s
      <4>1. latest'[k] = Event(p)
        BY <3>1, <3>2, <3>4 DEF HubInv, Shape
      <4>2. p[1] = owner[k]
        BY <3>4
      <4> QED
        BY <4>1, <4>2, <3>2, <1>1 DEF Announced
    <3>5. CASE k = Key(p) /\ p # s
      <4>1. latest'[k].exec = p[1] /\ latest'[k] # None
        BY <3>1, <3>2, <3>5 DEF HubInv, Shape
      <4>2. ASSUME owner[k] \notin failed, Done(s) \/ pub[s].at = "call" PROVE p[1] = owner[k]
        <5>1. latest[k] # None /\ latest[k].exec = owner[k]
          BY <4>2, <1>3 DEF Announced
        <5> QED
          BY <5>1, <3>1, <3>5 DEF HubInv, Shape
      <4> QED
        BY <4>1, <4>2, <3>1, <3>3, <3>5, <1>1 DEF Announced, Done
    <3>6. CASE k # Key(p)
      <4>1. latest'[k] = latest[k] /\ p # s
        BY <3>1, <3>6, <2>1 DEF HubInv, Shape
      <4> QED
        BY <4>1, <3>1, <3>3, <1>1 DEF Announced, Done
    <3> QED
      BY <3>4, <3>5, <3>6
  <2>4. CASE Call(p)
    <3>1. latest' = latest /\ failed' = failed
      BY <2>4 DEF Call
    <3>2. p # s => pub'[s] = pub[s]
      BY <2>1, <2>4 DEF Call, End, HubInv, Shape
    <3>3. p = s => pub[s].at = "call"
      BY <2>4 DEF Call
    <3> QED
      BY <3>1, <3>2, <3>3, <1>1 DEF Announced, Done
  <2> QED
    BY <2>2, <2>3, <2>4 DEF Publishing
<1> QED
  BY <1>2, <1>3

LEMMA AnnouncedStep ==
    ASSUME ProgressAssumption, Announcing = Keys, HubInv, [Next]_vars,
           \A k \in Keys : Announced(k)
    PROVE  \A k \in Keys : Announced(k)'
<1> SUFFICES ASSUME NEW k \in Keys PROVE Announced(k)'
  OBVIOUS
<1>1. ASSUME NEW j \in Keys, Admit(j) PROVE Announced(k)'
  BY <1>1, AdmitKeepsAnnounced
<1>2. ASSUME NEW p \in Publishers, Publishing(p) PROVE Announced(k)'
  BY <1>2, PublishingKeepsAnnounced
<1>3. CASE UNCHANGED hub
  BY <1>3 DEF hub, Announced, Done
<1> QED
  BY <1>1, <1>2, <1>3, ConnectionLeavesHub DEF Next, vars, hub

\* Where every submitter announces its execution (reports, weaponry), the hub shows the
\* owner of a key once the publications of the key are over, unless a guard query of
\* the owner raised (latest_progress.py:25-28).  For files the premise is false, and
\* so is the conclusion.
THEOREM HubFollows ==
    ASSUME ProgressAssumption, Announcing = Keys
    PROVE  Spec => []HubFollowsOwner
<1> DEFINE AllAnnounced == \A k \in Keys : Announced(k)
<1>1. Init => AllAnnounced
  BY DEF Init, Announced
<1>2. HubInv /\ AllAnnounced /\ [Next]_vars => AllAnnounced'
  BY AnnouncedStep
<1>3. ASSUME HubInv, AllAnnounced PROVE HubFollowsOwner
  <2> SUFFICES ASSUME NEW k \in Keys, Settled(k), owner[k] \notin failed
               PROVE  ExecOf(latest[k]) = owner[k]
    BY DEF HubFollowsOwner
  <2>1. CASE owner[k] = 0
    BY <1>3, <2>1 DEF HubInv, Shape, Behind, ExecOf, Events, Execs
  <2>2. CASE owner[k] # 0
    <3>1. owner[k] \in DOMAIN execs /\ execs[owner[k]] = k
      BY <1>3, <2>2 DEF HubInv, Shape, Owning
    <3>2. Done(<<owner[k], "submitter">>)
      BY <3>1 DEF Settled
    <3> QED
      BY <3>2, <2>2, <1>3 DEF Announced, ExecOf
  <2> QED
    BY <2>1, <2>2
<1> HIDE DEF AllAnnounced
<1> QED
  BY <1>1, <1>2, <1>3, HubInvariant, PTL DEF Spec

-------------------------------------------------------------------------------
(* The end of a connection.                                                *)

LEMMA ConnInit == ASSUME ProgressAssumption PROVE Init => ConnInv
<1> SUFFICES ASSUME Init PROVE ConnInv
  OBVIOUS
<1>1. conn = [at |-> "flush", request |-> <<>>, read |-> <<>>, items |-> <<>>,
              tokens |-> {}, added |-> {}, asked |-> 0,
              trying |-> {}, attempt |-> 0, refused |-> [k \in Keys |-> 0]]
      /\ subscribed = {}
  BY DEF Init
<1>2. Holding
  BY <1>1 DEF Holding
<1>3. Releasing
  <2>1. 0 \in 0 .. MaxAttempts
    BY DEF ProgressAssumption
  <2> QED
    BY <1>1, <2>1 DEF Releasing, Closing
<1> QED
  BY <1>1, <1>2, <1>3 DEF ConnInv, Shut, Closing

\* Publications call the subscriber and do nothing else to the connection; a buffer
\* that is closed takes nothing.
LEMMA PublishingLeavesConn ==
    ASSUME ConnInv, NEW p \in Publishers, Publishing(p)
    PROVE  ConnInv'
<1>1. conn' = conn /\ subscribed' = subscribed
  BY DEF Publishing, Guard, Commit, Call, client
<1>2. buf' = buf \/ buf' = Publish(buf, pub[p].call)
  BY DEF Publishing, Guard, Commit, Call
<1>3. buf.closed = TRUE => buf' = buf
  BY <1>2 DEF Publish
<1>4. Holding' /\ Releasing'
  BY <1>1 DEF ConnInv, Holding, Releasing
<1>5. Shut'
  BY <1>1, <1>3 DEF ConnInv, Shut, Clear
<1> QED
  BY <1>4, <1>5 DEF ConnInv

\* Until a connection closes, nothing is released for it.
LEMMA ReleasingWaits ==
    ASSUME ConnInv, conn.at \notin Closing, conn'.at \notin Closing,
           conn'.trying = conn.trying, conn'.attempt = conn.attempt,
           conn'.refused = conn.refused
    PROVE  Releasing' /\ Shut'
BY DEF ConnInv, Releasing, Shut, Closing

LEMMA RollbackKeepsConn ==
    ASSUME ConnInv, SubscribeFails \/ Rollback \/ RolledBack
    PROVE  ConnInv'
<1>1. CASE SubscribeFails
  <2>1. /\ conn' = [conn EXCEPT !.at = "rollback"] /\ subscribed' = subscribed
        /\ conn.at \in {"subscribe", "read", "fallback"}
    BY <1>1 DEF SubscribeFails, Goto
  <2>2. Holding'
    BY <2>1 DEF ConnInv, Holding, Closing
  <2>3. Releasing' /\ Shut'
    <3>1. conn'.at = "rollback"
      BY <2>1 DEF ConnInv, Holding
    <3> QED
      BY <2>1, <3>1, ReleasingWaits DEF Closing
  <2> QED
    BY <2>2, <2>3 DEF ConnInv
<1>2. CASE Rollback
  <2>1. PICK k \in conn.added :
            \/ /\ subscribed' = subscribed \ {k}
               /\ conn' = [conn EXCEPT !.added = @ \ {k}]
            \/ /\ conn' = [conn EXCEPT !.added = @ \ {k}, !.tokens = @ \cup {k}]
               /\ subscribed' = subscribed
    BY <1>2 DEF Rollback
  <2>2. /\ conn.at = "rollback" /\ conn'.at = "rollback"
        /\ conn'.trying = conn.trying /\ conn'.attempt = conn.attempt
        /\ conn'.refused = conn.refused /\ conn'.request = conn.request
        /\ DOMAIN conn' = DOMAIN conn /\ conn'.added = conn.added \ {k}
    BY <1>2, <2>1 DEF Rollback, ConnInv, Holding
  <2>3. conn'.tokens \subseteq Keys /\ subscribed' = conn'.tokens \cup conn'.added
        /\ conn'.tokens \cap conn'.added = {}
    <3>1. /\ conn.tokens \subseteq Keys /\ conn.added \subseteq Keys
          /\ subscribed = conn.tokens \cup conn.added /\ conn.tokens \cap conn.added = {}
      BY <2>2 DEF ConnInv, Holding
    <3>2. CASE conn' = [conn EXCEPT !.added = @ \ {k}] /\ subscribed' = subscribed \ {k}
      <4>1. conn'.tokens = conn.tokens
        BY <3>2
      <4> QED
        BY <2>2, <3>1, <3>2, <4>1
    <3>3. CASE /\ conn' = [conn EXCEPT !.added = @ \ {k}, !.tokens = @ \cup {k}]
               /\ subscribed' = subscribed
      <4>1. conn'.tokens = conn.tokens \cup {k}
        BY <3>3 DEF ConnInv, Holding
      <4> QED
        BY <2>2, <3>1, <3>3, <4>1
    <3> QED
      BY <2>1, <3>2, <3>3
  <2>4. Holding'
    BY <2>2, <2>3 DEF ConnInv, Holding, Closing
  <2>5. Releasing' /\ Shut'
    BY <2>2, ReleasingWaits DEF Closing
  <2> QED
    BY <2>4, <2>5 DEF ConnInv
<1>3. CASE RolledBack
  <2>1. /\ conn' = [conn EXCEPT !.at = "close"] /\ subscribed' = subscribed
        /\ conn.at = "rollback" /\ conn.added = {}
    BY <1>3 DEF RolledBack, Goto
  <2>2. Holding'
    BY <2>1 DEF ConnInv, Holding, Closing
  <2>3. conn'.at = "close"
    BY <2>1 DEF ConnInv, Holding
  <2>4. Releasing' /\ Shut'
    BY <2>1, <2>3, ReleasingWaits DEF Closing
  <2> QED
    BY <2>2, <2>4 DEF ConnInv
<1> QED
  BY <1>1, <1>2, <1>3

LEMMA CloseKeepsConn ==
    ASSUME ProgressAssumption, ConnInv, Close
    PROVE  ConnInv'
<1>1. /\ conn.at = "close" /\ conn'.at = "release" /\ conn'.request = <<>>
      /\ conn'.tokens = conn.tokens /\ conn'.added = conn.added
      /\ conn'.trying = conn.tokens /\ conn'.attempt = 1 /\ conn'.refused = conn.refused
      /\ DOMAIN conn' = DOMAIN conn /\ subscribed' = subscribed
  BY DEF Close, ConnInv, Holding
<1>2. Holding'
  BY <1>1 DEF ConnInv, Holding, Closing
<1>3. Releasing'
  <2>1. /\ conn.refused \in [Keys -> 0 .. MaxAttempts] /\ conn.tokens \subseteq Keys
        /\ \A k \in Keys : conn.refused[k] = 0
    BY <1>1 DEF ConnInv, Releasing, Holding, Closing
  <2>2. 1 \in 0 .. MaxAttempts /\ 1 > 0 /\ 0 = 1 - 1
    BY DEF ProgressAssumption
  <2> QED
    BY <1>1, <2>1, <2>2 DEF Releasing, Closing
<1>4. buf'.closed = TRUE /\ buf'.queue = <<>> /\ buf'.pending = <<>> /\ buf'.mark = Clear
  BY DEF Close, CloseBuffer
<1>5. Shut'
  BY <1>4 DEF Shut, Clear
<1> QED
  BY <1>2, <1>3, <1>5 DEF ConnInv

\* A release that is refused is counted, and what is still held when all have been tried
\* has been refused once more.
LEMMA ReleaseKeepsConn ==
    ASSUME ProgressAssumption, ConnInv, Release
    PROVE  ConnInv'
<1>1. PICK k \in conn.trying :
          \/ /\ subscribed' = subscribed \ {k}
             /\ conn' = [conn EXCEPT !.trying = @ \ {k}, !.tokens = @ \ {k}]
          \/ /\ conn' = [conn EXCEPT !.trying = @ \ {k}, !.refused[k] = @ + 1]
             /\ subscribed' = subscribed
  BY DEF Release
<1>2. /\ conn.at = "release" /\ conn'.at = "release" /\ conn'.request = conn.request
      /\ conn'.added = conn.added /\ conn'.attempt = conn.attempt
      /\ conn'.trying = conn.trying \ {k} /\ DOMAIN conn' = DOMAIN conn
  BY <1>1 DEF Release, ConnInv, Holding
<1>3. /\ conn.refused \in [Keys -> 0 .. MaxAttempts] /\ conn.attempt \in 0 .. MaxAttempts
      /\ conn.trying \subseteq conn.tokens /\ conn.tokens \subseteq Keys /\ conn.added = {}
      /\ subscribed = conn.tokens
      /\ \A l \in conn.trying : conn.refused[l] = conn.attempt - 1
      /\ \A l \in conn.tokens \ conn.trying : conn.refused[l] = conn.attempt
      /\ conn.attempt > 0
  BY <1>2 DEF ConnInv, Releasing, Holding, Closing
<1>4. Holding' /\ Releasing'
  <2>1. CASE /\ subscribed' = subscribed \ {k}
             /\ conn' = [conn EXCEPT !.trying = @ \ {k}, !.tokens = @ \ {k}]
    <3>1. conn'.tokens = conn.tokens \ {k} /\ conn'.refused = conn.refused
      BY <2>1 DEF ConnInv, Holding
    <3>2. Holding'
      BY <1>2, <1>3, <2>1, <3>1 DEF ConnInv, Holding, Closing
    <3>3. Releasing'
      BY <1>2, <1>3, <3>1 DEF Releasing, Closing
    <3> QED
      BY <3>2, <3>3
  <2>2. CASE /\ conn' = [conn EXCEPT !.trying = @ \ {k}, !.refused[k] = @ + 1]
             /\ subscribed' = subscribed
    <3>1. /\ conn'.tokens = conn.tokens
          /\ conn'.refused = [conn.refused EXCEPT ![k] = @ + 1]
      BY <2>2 DEF ConnInv, Holding
    <3>2. Holding'
      BY <1>2, <1>3, <2>2, <3>1 DEF ConnInv, Holding, Closing
    <3>3. k \in Keys /\ conn.refused[k] + 1 = conn.attempt
      BY <1>3 DEF ProgressAssumption
    <3>4. conn'.refused \in [Keys -> 0 .. MaxAttempts] /\ conn'.refused[k] = conn.attempt
          /\ \A l \in Keys : l # k => conn'.refused[l] = conn.refused[l]
      BY <1>3, <3>1, <3>3
    <3>5. Releasing'
      BY <1>2, <1>3, <3>1, <3>4 DEF Releasing, Closing
    <3> QED
      BY <3>2, <3>5
  <2> QED
    BY <1>1, <2>1, <2>2
<1>5. Shut'
  BY <1>2 DEF ConnInv, Shut, Closing, Clear, Release
<1> QED
  BY <1>4, <1>5 DEF ConnInv

LEMMA TriedKeepsConn ==
    ASSUME ProgressAssumption, ConnInv, Retry \/ Leave
    PROVE  ConnInv'
<1>1. /\ conn.at = "release" /\ conn.trying = {}
      /\ subscribed' = subscribed /\ buf' = buf
  BY DEF Retry, Leave, Tried
<1>2. /\ conn.refused \in [Keys -> 0 .. MaxAttempts] /\ conn.attempt \in 0 .. MaxAttempts
      /\ \A l \in conn.tokens : conn.refused[l] = conn.attempt
  BY <1>1 DEF ConnInv, Releasing
<1>3. CASE Retry
  <2>1. conn' = [conn EXCEPT !.trying = conn.tokens, !.attempt = @ + 1]
        /\ conn.attempt < MaxAttempts
    BY <1>3 DEF Retry
  <2>2. /\ conn'.trying = conn.tokens /\ conn'.attempt = conn.attempt + 1
        /\ conn'.at = "release" /\ conn'.request = conn.request
        /\ conn'.tokens = conn.tokens /\ conn'.added = conn.added
        /\ conn'.refused = conn.refused /\ DOMAIN conn' = DOMAIN conn
    BY <1>1, <2>1 DEF ConnInv, Holding
  <2>3. conn'.attempt \in 0 .. MaxAttempts /\ conn'.attempt > 0
        /\ conn'.attempt - 1 = conn.attempt
    BY <1>2, <2>1, <2>2 DEF ProgressAssumption
  <2>4. Holding'
    BY <1>1, <2>2 DEF ConnInv, Holding, Closing
  <2>5. Releasing'
    BY <1>2, <2>2, <2>3 DEF Releasing, Closing
  <2>6. Shut'
    BY <1>1, <2>2 DEF ConnInv, Shut, Closing, Clear
  <2> QED
    BY <2>4, <2>5, <2>6 DEF ConnInv
<1>4. CASE Leave
  <2>1. conn' = [conn EXCEPT !.at = "gone"]
        /\ (conn.tokens = {} \/ conn.attempt = MaxAttempts)
    BY <1>4 DEF Leave, Goto
  <2>2. /\ conn'.at = "gone" /\ conn'.request = conn.request
        /\ conn'.tokens = conn.tokens /\ conn'.added = conn.added
        /\ conn'.trying = conn.trying /\ conn'.attempt = conn.attempt
        /\ conn'.refused = conn.refused /\ DOMAIN conn' = DOMAIN conn
    BY <2>1 DEF ConnInv, Holding
  <2>4. Holding'
    BY <1>1, <2>2 DEF ConnInv, Holding, Closing
  <2>5. Releasing'
    BY <1>1, <1>2, <2>1, <2>2 DEF Releasing, Closing
  <2>6. Shut'
    BY <1>1, <2>2 DEF ConnInv, Shut, Closing, Clear
  <2> QED
    BY <2>4, <2>5, <2>6 DEF ConnInv
<1> QED
  BY <1>3, <1>4

LEMMA ConnStep ==
    ASSUME ProgressAssumption, ConnInv, [Next]_vars
    PROVE  ConnInv'
<1>1. ASSUME NEW k \in Keys, Admit(k) PROVE ConnInv'
  BY <1>1 DEF Admit, ConnInv, Holding, Releasing, Shut, Clear, client
<1>2. ASSUME NEW p \in Publishers, Publishing(p) PROVE ConnInv'
  BY <1>2, PublishingLeavesConn
<1>3. ASSUME conn'.trying = conn.trying, conn'.attempt = conn.attempt,
             conn'.refused = conn.refused, Holding',
             conn.at \notin Closing, conn'.at \notin Closing
      PROVE  ConnInv'
  BY <1>3, ReleasingWaits DEF ConnInv
<1>4. CASE Flush \/ Send \/ Poll \/ \E r \in Requests : Ask(r)
  <2>1. /\ conn.at \in {"flush", "receive", "sending"} /\ conn'.trying = conn.trying
        /\ conn'.attempt = conn.attempt /\ conn'.refused = conn.refused
        /\ conn'.tokens = conn.tokens /\ conn'.added = conn.added
        /\ subscribed' = subscribed /\ DOMAIN conn' = DOMAIN conn
        /\ conn'.at \in {"flush", "receive", "subscribe", "sending"}
        /\ (conn.at = "sending" <=> conn'.at = "sending")
        /\ (conn'.request = conn.request \/ conn'.request \in Requests)
    BY <1>4 DEF ConnInv, Holding, Flush, Send, Poll, Ask, Waiting, Goto
  <2>2. conn'.request \in Seq(Keys)
    BY <2>1 DEF ConnInv, Holding, ProgressAssumption
  <2>3. Holding'
    BY <2>1, <2>2 DEF ConnInv, Holding, Closing
  <2> QED
    BY <1>3, <2>1, <2>3 DEF Closing
<1>5. CASE Subscribe
  <2>1. PICK i \in DOMAIN conn.request :
            /\ conn.request[i] \notin conn.tokens \cup conn.added
            /\ subscribed' = subscribed \cup {conn.request[i]}
            /\ conn' = [conn EXCEPT !.added = @ \cup {conn.request[i]}]
    BY <1>5 DEF Subscribe
  <2>2. /\ conn.at = "subscribe" /\ conn'.at = "subscribe" /\ conn'.trying = conn.trying
        /\ conn'.attempt = conn.attempt /\ conn'.refused = conn.refused
        /\ conn'.tokens = conn.tokens /\ conn'.added = conn.added \cup {conn.request[i]}
        /\ DOMAIN conn' = DOMAIN conn /\ conn'.request = conn.request
    BY <1>5, <2>1 DEF Subscribe, ConnInv, Holding
  <2>3. conn.request[i] \in Keys
    BY DEF ConnInv, Holding
  <2>4. Holding'
    BY <2>1, <2>2, <2>3 DEF ConnInv, Holding, Closing
  <2> QED
    BY <1>3, <2>2, <2>4 DEF Closing
<1>6. CASE Subscribed \/ ReadHub \/ ReadTask
  <2>1. /\ conn.at \in {"subscribe", "read", "fallback"} /\ conn'.trying = conn.trying
        /\ conn'.attempt = conn.attempt /\ conn'.refused = conn.refused
        /\ conn'.tokens = conn.tokens /\ conn'.added = conn.added
        /\ subscribed' = subscribed /\ DOMAIN conn' = DOMAIN conn
        /\ conn'.at \in {"read", "fallback"} /\ conn'.request = conn.request
    BY <1>6 DEF ConnInv, Holding, Subscribed, ReadHub, ReadTask, Got, Goto
  <2>2. Holding'
    BY <2>1 DEF ConnInv, Holding, Closing
  <2> QED
    BY <1>3, <2>1, <2>2 DEF Closing
<1>7. CASE Register
  <2>1. /\ conn.at = "read" /\ conn'.at = "sending" /\ conn'.trying = conn.trying
        /\ conn'.attempt = conn.attempt /\ conn'.refused = conn.refused
        /\ conn'.tokens = conn.tokens \cup conn.added /\ conn'.added = conn.added
        /\ subscribed' = subscribed /\ DOMAIN conn' = DOMAIN conn
        /\ conn'.request = conn.request
    BY <1>7 DEF Register, ConnInv, Holding
  <2>2. Holding'
    BY <2>1 DEF ConnInv, Holding, Closing
  <2> QED
    BY <1>3, <2>1, <2>2 DEF Closing
<1>8. CASE Complete \/ SendFails \/ Disconnect
  <2>1. /\ conn.at \in {"sending", "receive"} /\ conn'.at \in {"flush", "close"}
        /\ conn'.trying = conn.trying
        /\ conn'.attempt = conn.attempt /\ conn'.refused = conn.refused
        /\ conn'.tokens = conn.tokens /\ conn'.added = {}
        /\ subscribed' = subscribed /\ DOMAIN conn' = DOMAIN conn
        /\ conn'.request = conn.request \/ conn'.request = <<>>
    <3>1. CASE Complete
      BY <3>1 DEF Complete, ConnInv, Holding
    <3>2. CASE SendFails
      BY <3>2 DEF SendFails, ConnInv, Holding
    <3>3. CASE Disconnect
      BY <3>3 DEF Disconnect, Waiting, Goto, ConnInv, Holding
    <3> QED
      BY <1>8, <3>1, <3>2, <3>3
  <2>3. conn'.request \in Seq(Keys) /\ subscribed' = conn'.tokens
    <3>1. conn.at = "receive" => conn.added = {}
      BY DEF ConnInv, Holding
    <3>2. conn.added \subseteq conn.tokens
      BY <2>1, <3>1 DEF ConnInv, Holding
    <3>3. conn.request \in Seq(Keys) /\ subscribed = conn.tokens \cup conn.added
      BY DEF ConnInv, Holding
    <3>4. <<>> \in Seq(Keys)
      OBVIOUS
    <3> QED
      BY <2>1, <3>2, <3>3, <3>4
  <2>2. Holding'
    BY <2>1, <2>3 DEF ConnInv, Holding, Closing
  <2> QED
    BY <1>3, <2>1, <2>2 DEF Closing
<1>9. CASE SubscribeFails \/ Rollback \/ RolledBack
  BY <1>9, RollbackKeepsConn
<1>10. CASE Close \/ Release \/ Retry \/ Leave
  BY <1>10, CloseKeepsConn, ReleaseKeepsConn, TriedKeepsConn
<1>11. CASE UNCHANGED vars
  BY <1>11 DEF ConnInv, Holding, Releasing, Shut, Clear, vars
<1> QED
  BY <1>1, <1>2, <1>4, <1>5, <1>6, <1>7, <1>8, <1>9, <1>10, <1>11 DEF Next, Connection

\* A connection that is gone has left no entry in its buffer, and no subscription but
\* those it still knows of and whose release raised at every one of its attempts: for
\* any number of attempts, and whether it went because subscribing, reading or sending
\* failed (progress.py:424-447, llm.py:779-783, progress_connection.py:87-151).
THEOREM NothingStays == ASSUME ProgressAssumption PROVE Spec => []NothingLeft
<1>1. Init => ConnInv
  BY ConnInit
<1>2. ConnInv /\ [Next]_vars => ConnInv'
  BY ConnStep
<1>3. ConnInv => NothingLeft
  BY DEF ConnInv, Holding, Releasing, Shut, Closing, NothingLeft
<1> QED
  BY <1>1, <1>2, <1>3, PTL DEF Spec
===============================================================================
