---------------------------- MODULE ConnectionProofs ----------------------------
(***************************************************************************)
(* What one connection is sent, for any number of keys, executions,        *)
(* publications, requests and capacities: above ProgressDeliveryProofs.    *)
(* First what the loops of the buffer compute, then the types, the order   *)
(* in which the client is sent the events of a key, and that it ends up    *)
(* with the latest of them.                                                *)
(***************************************************************************)
EXTENDS ProgressDeliveryProofs, NaturalsInduction, WellFoundedInduction, FunctionTheorems,
        FiniteSetTheorems

-------------------------------------------------------------------------------
(* Induction over a set of numbers, and the loops of the buffer.            *)

\* The library's induction over a predicate, for a set.
LEMMA NatSet ==
    ASSUME NEW S, 0 \in S, \A n \in Nat : n \in S => n + 1 \in S
    PROVE  Nat \subseteq S
<1> DEFINE R == {ss \in Nat \X Nat : ss[1] < ss[2]}
           T == {n \in Nat : n \notin S}
<1>1. IsWellFoundedOn(R, Nat)
  BY NatLessThanWellFounded DEF OpToRel
<1>2. \A m, n \in Nat : m < n => <<m, n>> \in R
  OBVIOUS
<1> HIDE DEF R
<1> SUFFICES ASSUME T # {} PROVE FALSE
  OBVIOUS
<1>3. PICK x \in T : \A y \in T : ~ (<<y, x>> \in R)
  <2>1. T \subseteq Nat
    OBVIOUS
  <2> HIDE DEF T
  <2> QED
    BY <1>1, <2>1, WFMin
<1>4. x - 1 \in Nat /\ <<x - 1, x>> \in R
  BY <1>2, <1>3
<1> QED
  BY <1>3, <1>4

KeepBody(f, n, q, S) ==
    IF n = 0 THEN <<>>
    ELSE IF q[n] \in S THEN Append(f[n - 1], q[n]) ELSE f[n - 1]

LEMMA KeepLoop ==
    ASSUME NEW q, NEW S, Len(q) \in Nat
    PROVE  \E f : /\ \A n \in 0 .. Len(q) : f[n] = KeepBody(f, n, q, S)
                  /\ Keep(q, S) = f[Len(q)]
<1> DEFINE Loop(f, m) == f = [n \in 0 .. m |-> KeepBody(f, n, q, S)]
           N == {m \in Nat : \E f : Loop(f, m)}
<1>1. 0 \in N
  <2>1. Loop([n \in 0 .. 0 |-> <<>>], 0)
    BY DEF KeepBody
  <2> QED
    BY <2>1
<1>2. ASSUME NEW m \in Nat, m \in N PROVE m + 1 \in N
  <2>1. PICK f : Loop(f, m)
    BY <1>2
  <2> DEFINE g == [n \in 0 .. m + 1 |-> IF n <= m THEN f[n] ELSE KeepBody(f, n, q, S)]
  <2>2. \A n \in 0 .. m : g[n] = f[n] /\ f[n] = KeepBody(f, n, q, S)
    BY <2>1
  <2>3. ASSUME NEW n \in 0 .. m + 1 PROVE g[n] = KeepBody(g, n, q, S)
    <3>1. n > 0 => n - 1 \in 0 .. m /\ g[n - 1] = f[n - 1]
      BY <2>2
    <3>2. KeepBody(g, n, q, S) = KeepBody(f, n, q, S)
      BY <3>1 DEF KeepBody
    <3>3. g[n] = IF n <= m THEN f[n] ELSE KeepBody(f, n, q, S)
      OBVIOUS
    <3> QED
      BY <2>2, <3>2, <3>3
  <2>4. Loop(g, m + 1)
    BY <2>3
  <2> HIDE DEF Loop, g
  <2> QED
    BY <2>4
<1>3. Len(q) \in N
  BY <1>1, <1>2, NatSet
<1> DEFINE F == CHOOSE f : Loop(f, Len(q))
<1>4. Loop(F, Len(q))
  BY <1>3
<1>5. Keep(q, S) = F[Len(q)]
  BY DEF Keep, KeepBody
<1> QED
  BY <1>4, <1>5

\* h says where the entries of r come from: r is what the first n entries of q have in
\* S, in their order.
Along(r, q, n, S, h) ==
    /\ \A i \in 1 .. Len(r) : h[i] \in 1 .. n /\ r[i] = q[h[i]] /\ r[i] \in S
    /\ \A i, j \in 1 .. Len(r) : i < j => h[i] < h[j]
    /\ \A m \in 1 .. n : q[m] \in S => \E i \in 1 .. Len(r) : h[i] = m

LEMMA KeepAlong ==
    ASSUME NEW A, NEW q \in Seq(A), NEW S
    PROVE  /\ Keep(q, S) \in Seq(A)
           /\ Len(Keep(q, S)) <= Len(q)
           /\ (\E m \in 1 .. Len(q) : q[m] \notin S) => Len(Keep(q, S)) < Len(q)
           /\ \E h : Along(Keep(q, S), q, Len(q), S, h)
<1>1. PICK f : /\ \A n \in 0 .. Len(q) : f[n] = KeepBody(f, n, q, S)
               /\ Keep(q, S) = f[Len(q)]
  BY KeepLoop
<1> DEFINE Good(n) == /\ f[n] \in Seq(A)
                      /\ Len(f[n]) <= n
                      /\ (\E m \in 1 .. n : q[m] \notin S) => Len(f[n]) < n
                      /\ \E h : Along(f[n], q, n, S, h)
           N == {n \in Nat : n <= Len(q) => Good(n)}
<1>2. 0 \in N
  <2>1. f[0] = <<>>
    BY <1>1 DEF KeepBody
  <2>2. Along(<<>>, q, 0, S, <<>>)
    BY DEF Along
  <2>3. Good(0)
    BY <2>1, <2>2
  <2> QED
    BY <2>3
<1>3. ASSUME NEW n \in Nat, n \in N PROVE n + 1 \in N
  <2> SUFFICES ASSUME n + 1 <= Len(q) PROVE Good(n + 1)
    OBVIOUS
  <2>1. Good(n)
    BY <1>3
  <2>2. PICK h : Along(f[n], q, n, S, h)
    BY <2>1
  <2>3. f[n + 1] = IF q[n + 1] \in S THEN Append(f[n], q[n + 1]) ELSE f[n]
    BY <1>1 DEF KeepBody
  <2>4. CASE q[n + 1] \notin S
    <3>1. Along(f[n + 1], q, n + 1, S, h)
      BY <2>1, <2>2, <2>3, <2>4 DEF Along
    <3> QED
      BY <3>1, <2>1, <2>3, <2>4
  <2>5. CASE q[n + 1] \in S
    <3> DEFINE g == [i \in 1 .. Len(f[n]) + 1 |-> IF i <= Len(f[n]) THEN h[i] ELSE n + 1]
    <3>1. /\ f[n + 1] \in Seq(A) /\ Len(f[n + 1]) = Len(f[n]) + 1
          /\ \A i \in 1 .. Len(f[n]) : f[n + 1][i] = f[n][i]
          /\ f[n + 1][Len(f[n]) + 1] = q[n + 1]
      BY <2>1, <2>3, <2>5
    <3>2. Along(f[n + 1], q, n + 1, S, g)
      <4>1. /\ \A i \in 1 .. Len(f[n]) : g[i] = h[i] /\ h[i] \in 1 .. n
            /\ g[Len(f[n]) + 1] = n + 1
        BY <2>1, <2>2, <3>1 DEF Along
      <4> HIDE DEF g
      <4>2. Len(f[n]) \in Nat
        BY <2>1
      <4>3. \A i \in 1 .. Len(f[n + 1]) :
              g[i] \in 1 .. n + 1 /\ f[n + 1][i] = q[g[i]] /\ f[n + 1][i] \in S
        <5> SUFFICES ASSUME NEW i \in 1 .. Len(f[n + 1])
                     PROVE  g[i] \in 1 .. n + 1 /\ f[n + 1][i] = q[g[i]] /\ f[n + 1][i] \in S
          OBVIOUS
        <5>1. CASE i \in 1 .. Len(f[n])
          <6>1. h[i] \in 1 .. n /\ f[n][i] = q[h[i]] /\ f[n][i] \in S
            BY <2>2, <5>1 DEF Along
          <6>2. f[n + 1][i] = f[n][i] /\ g[i] = h[i]
            BY <3>1, <4>1, <5>1
          <6> QED
            BY <6>1, <6>2
        <5>2. CASE i = Len(f[n]) + 1
          BY <2>5, <3>1, <4>1, <5>2
        <5> QED
          BY <3>1, <4>2, <5>1, <5>2
      <4>4. \A i, j \in 1 .. Len(f[n + 1]) : i < j => g[i] < g[j]
        BY <2>2, <3>1, <4>1, <4>2 DEF Along
      <4>5. ASSUME NEW m \in 1 .. n + 1, q[m] \in S
            PROVE  \E i \in 1 .. Len(f[n + 1]) : g[i] = m
        <5>1. CASE m \in 1 .. n
          <6>1. PICK i \in 1 .. Len(f[n]) : h[i] = m
            BY <2>2, <4>5, <5>1 DEF Along
          <6>2. i \in 1 .. Len(f[n + 1]) /\ g[i] = m
            BY <3>1, <4>1, <4>2, <6>1
          <6> QED
            BY <6>2
        <5>2. CASE m = n + 1
          BY <3>1, <4>1, <4>2, <5>2
        <5> QED
          BY <5>1, <5>2
      <4> QED
        BY <4>3, <4>4, <4>5 DEF Along
    <3>3. \A m \in 1 .. n + 1 : q[m] \notin S => m \in 1 .. n
      BY <2>5
    <3> HIDE DEF g
    <3> QED
      BY <2>1, <3>1, <3>2, <3>3
  <2> QED
    BY <2>4, <2>5
<1>4. Nat \subseteq N
  <2> HIDE DEF N
  <2> QED
    BY <1>2, <1>3, NatSet
<1> QED
  BY <1>1, <1>4

-------------------------------------------------------------------------------
(* The invariants.                                                         *)

\* At most one entry of a key.
OnePerKey(q) == \A i, j \in 1 .. Len(q) : q[i].key = q[j].key => i = j

\* The publications a thread has not committed yet.
Left(p) == IF pub[p].at = "call" THEN pub[p].left - 1 ELSE pub[p].left

LeftOf(e) == Left(<<e, "submitter">>) + Left(<<e, "worker">>)

\* The events of an execution are numbered by its publications, so their numbers stay
\* within the bound.
Publishes(p) ==
    /\ pub[p].left \in 0 .. MaxUpdates + 1
    /\ pub[p].at # "idle" => pub[p].left > 0
    /\ pub[p].call \in Snapshots \cup {None}
    /\ pub[p].at = "call" => pub[p].call \in Snapshots /\ pub[p].call.seq > 0

Numbered(k) ==
    latest[k] # None =>
        /\ latest[k] \in Snapshots /\ latest[k].key = k /\ latest[k].seq > 0
        /\ latest[k].seq + LeftOf(latest[k].exec) <= MaxUpdates + 1

NumberInv ==
    /\ \A p \in Publishers : Publishes(p)
    /\ \A e \in Execs : LeftOf(e) <= MaxUpdates + 1
    /\ \A k \in Keys : Numbered(k)

Batch == conn.at \in {"subscribe", "read", "fallback", "sending"}
Live  == Batch \/ conn.at \in {"flush", "receive"}

\* The steps with which a connection comes to its end.
Leaving ==
    \/ SubscribeFails \/ Rollback \/ RolledBack \/ SendFails \/ Disconnect
    \/ Close \/ Release \/ Retry \/ Leave

\* Nothing is released.
KeepsCount ==
    /\ conn'.trying = conn.trying /\ conn'.attempt = conn.attempt
    /\ conn'.refused = conn.refused

\* What each place of the connection's thread says of its registers.
ConnShape ==
    /\ conn \in [at : {"flush", "receive", "subscribe", "read", "fallback", "sending",
                       "rollback", "close", "release", "gone"},
                 request : Requests \cup {<<>>}, read : Seq(Snapshots \cup {None}),
                 items : Seq(Snapshots), tokens : SUBSET Keys, added : SUBSET Keys,
                 asked : 0 .. MaxRequests, trying : SUBSET Keys,
                 attempt : 0 .. MaxAttempts, refused : [Keys -> 0 .. MaxAttempts]]
    /\ Live /\ ~Batch => conn.request = <<>> /\ conn.read = <<>> /\ conn.added = {}
    /\ conn.at = "subscribe" => conn.read = <<>>
    /\ conn.at \in {"flush", "subscribe", "read", "fallback"} => conn.items = <<>>
    /\ conn.at = "read" => Len(conn.read) <= Len(conn.request)
    /\ conn.at = "fallback" => Len(conn.read) < Len(conn.request)
    /\ conn.at = "sending" => Len(conn.read) = Len(conn.request)
    /\ \A i \in 1 .. Len(conn.read) :
          conn.read[i] # None => i <= Len(conn.request) /\ conn.read[i].key = conn.request[i]

\* A queued event is the watermark of its key; readings alone have the number 0.
WellFormed(b) ==
    /\ b \in Buffers /\ Len(b.queue) <= b.capacity /\ Len(b.pending) <= b.capacity
    /\ OnePerKey(b.queue) /\ OnePerKey(b.pending)
    /\ \A t \in ToSet(b.queue) : b.mark[t.key] = t /\ t.seq > 0
    /\ \A t \in ToSet(b.pending) : t.seq > 0
    /\ \A k \in Keys : /\ b.mark[k] # None => b.mark[k].key = k
                       /\ b.dropped[k] # None => b.dropped[k].key = k /\ b.dropped[k].seq > 0

BufShape ==
    /\ WellFormed(buf)
    /\ Live => buf.closed = FALSE /\ buf.batch = Batch
    /\ Live /\ ~Batch => buf.pending = <<>>

ViewShape ==
    /\ shown \in [Keys -> Snapshots \cup {None}]
    /\ \A k \in Keys : shown[k] # None => shown[k].key = k
    /\ subscribed \subseteq Keys
    /\ seen \in [Keys -> 0 .. MaxExecs]
    /\ overtaken \subseteq Keys
    /\ failed \subseteq Execs

ShapeInv == NumberInv /\ ConnInv /\ ConnShape /\ BufShape /\ ViewShape

\* Whatever was once published the hub has not gone behind; a reading of the task store
\* has the number 0.
Published ==
    {x \in Snapshots : x.seq > 0 => latest[x.key] # None /\ Follows(latest[x.key], x)}

\* Of an execution no newer than one the connection was handed.
Had == {x \in Published : x.exec <= seen[x.key]}

Holds(b, G) ==
    /\ ToSet(b.pending) \subseteq G
    /\ \A k \in Keys : b.mark[k] \in G \cup {None} /\ b.dropped[k] \in G \cup {None}

KnownInv ==
    /\ \A p \in Publishers : pub[p].at = "call" => pub[p].call \in Published
    /\ Live => /\ Holds(buf, Had)
               /\ \A i \in 1 .. Len(conn.read) : conn.read[i] \in Had \cup {None}

\* What is ahead of everything sent or about to be sent of k: the last reading while it
\* is being sent, the watermark otherwise.
Top(k) == IF conn.at = "sending" /\ LastRead(k) # None THEN LastRead(k) ELSE buf.mark[k]

Ahead(t, s) == s # None => t # None /\ Follows(t, s)

\* The order in which the events of k pass through the connection.
InOrder(k) ==
    /\ Ahead(Top(k), shown[k])
    /\ \A i \in 1 .. Len(conn.items) : conn.items[i].key = k =>
          Ahead(Top(k), conn.items[i]) /\ Follows(conn.items[i], shown[k])
    /\ \A i, j \in 1 .. Len(conn.items) :
          i < j /\ conn.items[i].key = k /\ conn.items[j].key = k =>
              Follows(conn.items[j], conn.items[i])

\* What is read of k is ahead of the watermark, and of what was read of it before.
ReadsInOrder(k) ==
    /\ \A i \in 1 .. Len(conn.read) : conn.read[i] # None /\ conn.read[i].key = k =>
          Follows(conn.read[i], buf.mark[k])
    /\ \A i, j \in 1 .. Len(conn.read) :
          i < j /\ conn.read[i] # None /\ conn.read[i].key = k
                /\ conn.read[j] # None /\ conn.read[j].key = k =>
              Follows(conn.read[j], conn.read[i])
    /\ \A t \in ToSet(buf.pending) : t.key = k => t.exec >= ExecOf(buf.mark[k])

\* When the hub had nothing of k, what the connection has of it was not published.
Unpublished(k) ==
    conn.at = "fallback" /\ Asked = k =>
        /\ buf.mark[k] # None => buf.mark[k].seq = 0
        /\ \A i \in 1 .. Len(conn.read) :
              conn.read[i] # None /\ conn.read[i].key = k => conn.read[i].seq = 0

Ordered(k) == InOrder(k) /\ ReadsInOrder(k) /\ Unpublished(k)

OrderInv == Live => \A k \in Keys \ overtaken : Ordered(k)

\* The keys whose events reach this connection.
Mine == conn.tokens \cup conn.added

\* The buffer has entries of the keys of M only, one a key: it drops one only if they are
\* more than its bound.
Fits(b, M) ==
    /\ KeysIn(b.queue) \cup KeysIn(b.pending) \subseteq M
    /\ \A k \in Keys : b.dropped[k] # None => Cardinality(M) > b.capacity

SubscriptionInv ==
    Live =>
        /\ subscribed = Mine /\ IsFiniteSet(Mine) /\ Fits(buf, Mine)
        /\ \A k \in conn.added : \E i \in 1 .. Len(conn.request) : conn.request[i] = k
        /\ conn.at = "sending" => conn.added \subseteq conn.tokens
        /\ conn.at \in {"read", "fallback", "sending"} =>
              \A i \in 1 .. Len(conn.request) : conn.request[i] \in Mine
        /\ \A p \in Publishers : pub[p].at = "call" => pub[p].call.key \in Mine

\* The latest event of k is on its way: about to be handed over, aside behind the
\* barrier, or dropped.
OnItsWay(k) ==
    \/ \E p \in Publishers : pub[p].at = "call" /\ pub[p].call = latest[k]
    \/ latest[k] \in ToSet(buf.pending)
    \/ buf.dropped[k] = latest[k]

\* x is what the client has of k once items have been sent, if it has s of it now.
LastSent(items, s, k, x) ==
    \/ \E i \in 1 .. Len(items) :
          items[i] = x /\ \A j \in i + 1 .. Len(items) : items[j].key # k
    \/ (\A i \in 1 .. Len(items) : items[i].key # k) /\ s = x

\* A watermark x of k is queued, or gone from the queue by being sent or dropped.
Kept(b, k, x, sent) ==
    b.mark[k] = x =>
        \/ x \in ToSet(b.queue)
        \/ k \notin KeysIn(b.queue) /\ sent
        \/ b.dropped[k] = x

LastOf(k) == IF LastRead(k) # None THEN LastRead(k) ELSE buf.mark[k]

\* k has been read for the request, or was subscribed before it.
Followed(k) == k \in conn.tokens \/ \E i \in 1 .. Len(conn.read) : conn.request[i] = k

Reaches(k) ==
    latest[k] # None =>
        /\ Followed(k) => OnItsWay(k) \/ LastOf(k) = latest[k]
        /\ conn.at = "fallback" /\ Asked = k => OnItsWay(k)
        /\ (conn.at = "sending" => LastRead(k) = None) =>
              Kept(buf, k, latest[k], LastSent(conn.items, shown[k], k, latest[k]))

\* What was read last is sent last.
ReadSent(k) ==
    conn.at = "sending" /\ LastRead(k) # None =>
        LastSent(conn.items, shown[k], k, LastRead(k))

ReachInv == Live => \A k \in Keys : ReadSent(k) /\ (k \notin overtaken => Reaches(k))

-------------------------------------------------------------------------------
(* What the loops and the bounded queue do.                                *)

LEMMA SetOf ==
    ASSUME NEW A, NEW q \in Seq(A), NEW x
    PROVE  x \in ToSet(q) <=> \E i \in 1 .. Len(q) : q[i] = x
BY DEF ToSet

LEMMA KeepSet ==
    ASSUME NEW A, NEW q \in Seq(A), NEW S
    PROVE  /\ Keep(q, S) \in Seq(A)
           /\ Len(Keep(q, S)) <= Len(q)
           /\ \A x : x \in ToSet(Keep(q, S)) <=> x \in ToSet(q) /\ x \in S
           /\ (\E x \in ToSet(q) : x \notin S) => Len(Keep(q, S)) < Len(q)
           /\ OnePerKey(q) => OnePerKey(Keep(q, S))
<1> DEFINE r == Keep(q, S)
<1>1. /\ r \in Seq(A) /\ Len(r) <= Len(q)
      /\ (\E m \in 1 .. Len(q) : q[m] \notin S) => Len(r) < Len(q)
  BY KeepAlong
<1>2. PICK h : Along(r, q, Len(q), S, h)
  BY KeepAlong
<1> HIDE DEF r
<1>3. \A x : x \in ToSet(r) <=> x \in ToSet(q) /\ x \in S
  <2> SUFFICES ASSUME NEW x PROVE x \in ToSet(r) <=> x \in ToSet(q) /\ x \in S
    OBVIOUS
  <2>1. ASSUME x \in ToSet(r) PROVE x \in ToSet(q) /\ x \in S
    <3>1. PICK i \in 1 .. Len(r) : r[i] = x
      BY <1>1, <2>1, SetOf
    <3>2. h[i] \in 1 .. Len(q) /\ q[h[i]] = x /\ x \in S
      BY <1>2, <3>1 DEF Along
    <3> QED
      BY <3>2, SetOf
  <2>2. ASSUME x \in ToSet(q), x \in S PROVE x \in ToSet(r)
    <3>1. PICK m \in 1 .. Len(q) : q[m] = x
      BY <2>2, SetOf
    <3>2. PICK i \in 1 .. Len(r) : h[i] = m
      BY <1>2, <2>2, <3>1 DEF Along
    <3>3. r[i] = x
      BY <1>2, <3>1, <3>2 DEF Along
    <3> QED
      BY <1>1, <3>3, SetOf
  <2> QED
    BY <2>1, <2>2
<1>4. ASSUME OnePerKey(q) PROVE OnePerKey(r)
  <2> SUFFICES ASSUME NEW i \in 1 .. Len(r), NEW j \in 1 .. Len(r), r[i].key = r[j].key
               PROVE  i = j
    BY DEF OnePerKey
  <2>1. /\ h[i] \in 1 .. Len(q) /\ r[i] = q[h[i]]
        /\ h[j] \in 1 .. Len(q) /\ r[j] = q[h[j]]
        /\ i < j => h[i] < h[j]
        /\ j < i => h[j] < h[i]
    BY <1>2 DEF Along
  <2>2. h[i] = h[j]
    BY <1>4, <2>1 DEF OnePerKey
  <2>3. i \in Nat /\ j \in Nat
    BY <1>1
  <2> QED
    BY <2>1, <2>2, <2>3
<1>5. (\E x \in ToSet(q) : x \notin S) => Len(r) < Len(q)
  BY <1>1, SetOf
<1> QED
  BY <1>1, <1>3, <1>4, <1>5 DEF r

\* An entry replaces the one of its key; a full queue drops its head for a new key.
LEMMA PutFacts ==
    ASSUME NEW A, NEW q \in Seq(A), NEW s \in A, NEW c \in Nat \ {0},
           OnePerKey(q), Len(q) <= c
    PROVE  LET r == Put(q, s, c) IN
           /\ r \in Seq(A) /\ Len(r) <= c /\ OnePerKey(r)
           /\ \A x \in ToSet(r) : x = s \/ x \in ToSet(q)
           /\ (\E t \in ToSet(q) : t.key = s.key /\ StaleOrEqual(s, t)) => r = q
           /\ ~(\E t \in ToSet(q) : t.key = s.key /\ StaleOrEqual(s, t)) =>
                 s \in ToSet(r) /\ \A x \in ToSet(r) : x.key = s.key => x = s
           /\ \A t \in ToSet(q) : t.key # s.key =>
                 t \in ToSet(r) \/ (Overflows(q, s, c) /\ t = Head(q))
           /\ Overflows(q, s, c) => Head(q) \in ToSet(q) /\ Head(q).key # s.key
<1> DEFINE r == Put(q, s, c)
           W == Without(q, s.key)
<1>1. CASE s.key \in KeysIn(q)
  <2>1. PICK t \in ToSet(q) : t.key = s.key
    BY <1>1 DEF KeysIn
  <2>2. ~Overflows(q, s, c)
    BY <1>1 DEF Overflows
  <2>3. CASE \E u \in ToSet(q) : u.key = s.key /\ StaleOrEqual(s, u)
    BY <1>1, <2>2, <2>3 DEF Put
  <2>4. CASE ~(\E u \in ToSet(q) : u.key = s.key /\ StaleOrEqual(s, u))
    <3>1. r = Append(W, s)
      BY <1>1, <2>2, <2>4 DEF Put
    <3>2. /\ W \in Seq(A) /\ Len(W) < Len(q) /\ OnePerKey(W)
          /\ \A x : x \in ToSet(W) <=> x \in ToSet(q) /\ x.key # s.key
      BY <2>1, KeepSet DEF Without
    <3> HIDE DEF r, W
    <3>3. /\ r \in Seq(A) /\ Len(r) = Len(W) + 1 /\ r[Len(W) + 1] = s
          /\ \A i \in 1 .. Len(W) : r[i] = W[i]
      BY <3>1, <3>2
    <3>4. \A x : x \in ToSet(r) <=> x \in ToSet(W) \/ x = s
      <4> SUFFICES ASSUME NEW x PROVE x \in ToSet(r) <=> x \in ToSet(W) \/ x = s
        OBVIOUS
      <4>1. ASSUME x \in ToSet(r) PROVE x \in ToSet(W) \/ x = s
        BY <4>1, <3>2, <3>3, SetOf
      <4>2. ASSUME x \in ToSet(W) PROVE x \in ToSet(r)
        <5>1. PICK i \in 1 .. Len(W) : W[i] = x
          BY <4>2, <3>2, SetOf
        <5>2. i \in 1 .. Len(r) /\ r[i] = x
          BY <5>1, <3>2, <3>3
        <5> QED
          BY <5>2, <3>3, SetOf
      <4>3. s \in ToSet(r)
        BY <3>2, <3>3, SetOf
      <4> QED
        BY <4>1, <4>2, <4>3
    <3>5. OnePerKey(r)
      <4>1. \A i \in 1 .. Len(W) : W[i].key # s.key
        BY <3>2, SetOf
      <4> QED
        BY <3>2, <3>3, <4>1 DEF OnePerKey
    <3> QED
      BY <2>2, <2>4, <3>2, <3>3, <3>4, <3>5 DEF r
  <2> QED
    BY <2>3, <2>4
<1>2. CASE s.key \notin KeysIn(q)
  <2>1. \A t \in ToSet(q) : t.key # s.key
    BY <1>2 DEF KeysIn
  <2>2. \A i \in 1 .. Len(q) : q[i].key # s.key
    BY <2>1, SetOf
  <2>3. CASE Len(q) >= c
    <3>1. Overflows(q, s, c) /\ r = Append(Tail(q), s) /\ Len(q) = c
      BY <1>2, <2>3 DEF Put, Overflows
    <3>2. /\ r \in Seq(A) /\ Len(r) = Len(q) /\ r[Len(q)] = s
          /\ \A i \in 1 .. Len(q) - 1 : r[i] = q[i + 1]
          /\ Head(q) = q[1]
      BY <3>1
    <3> HIDE DEF r
    <3>3. \A x \in ToSet(r) : x = s \/ x \in ToSet(q)
      <4> SUFFICES ASSUME NEW x \in ToSet(r), x # s PROVE x \in ToSet(q)
        OBVIOUS
      <4>1. PICK i \in 1 .. Len(r) : r[i] = x
        BY <3>2, SetOf
      <4>2. i + 1 \in 1 .. Len(q) /\ q[i + 1] = x
        BY <3>2, <4>1
      <4> QED
        BY <4>2, SetOf
    <3>4. \A t \in ToSet(q) : t \in ToSet(r) \/ t = Head(q)
      <4> SUFFICES ASSUME NEW t \in ToSet(q), t # Head(q) PROVE t \in ToSet(r)
        OBVIOUS
      <4>1. PICK i \in 1 .. Len(q) : q[i] = t
        BY SetOf
      <4>2. i - 1 \in 1 .. Len(r) /\ r[i - 1] = t
        BY <3>2, <4>1
      <4> QED
        BY <3>2, <4>2, SetOf
    <3>5. s \in ToSet(r) /\ Head(q) \in ToSet(q)
      <4>1. 1 \in 1 .. Len(q) /\ Len(q) \in 1 .. Len(r)
        BY <3>1, <3>2
      <4> QED
        BY <3>2, <4>1, SetOf
    <3>6. OnePerKey(r)
      <4> SUFFICES ASSUME NEW i \in 1 .. Len(r), NEW j \in 1 .. Len(r), r[i].key = r[j].key
                   PROVE  i = j
        BY DEF OnePerKey
      <4>1. i < Len(q) => r[i] = q[i + 1] /\ i + 1 \in 1 .. Len(q)
        BY <3>2
      <4>2. j < Len(q) => r[j] = q[j + 1] /\ j + 1 \in 1 .. Len(q)
        BY <3>2
      <4>3. i < Len(q) /\ j < Len(q) => i + 1 = j + 1
        BY <4>1, <4>2 DEF OnePerKey
      <4> QED
        BY <2>2, <3>2, <4>1, <4>2, <4>3
    <3> QED
      BY <2>1, <3>1, <3>2, <3>3, <3>4, <3>5, <3>6 DEF r
  <2>4. CASE ~(Len(q) >= c)
    <3>1. ~Overflows(q, s, c) /\ r = Append(q, s)
      BY <1>2, <2>4 DEF Put, Overflows
    <3>2. /\ r \in Seq(A) /\ Len(r) = Len(q) + 1 /\ r[Len(q) + 1] = s
          /\ \A i \in 1 .. Len(q) : r[i] = q[i]
      BY <3>1
    <3> HIDE DEF r
    <3>3. \A x \in ToSet(r) : x = s \/ x \in ToSet(q)
      BY <3>2, SetOf
    <3>4. \A t \in ToSet(q) : t \in ToSet(r)
      <4> SUFFICES ASSUME NEW t \in ToSet(q) PROVE t \in ToSet(r)
        OBVIOUS
      <4>1. PICK i \in 1 .. Len(q) : q[i] = t
        BY SetOf
      <4>2. i \in 1 .. Len(r) /\ r[i] = t
        BY <3>2, <4>1
      <4> QED
        BY <3>2, <4>2, SetOf
    <3>5. s \in ToSet(r)
      BY <3>2, SetOf
    <3>6. OnePerKey(r)
      BY <2>2, <3>2 DEF OnePerKey
    <3> QED
      BY <2>1, <2>4, <3>1, <3>2, <3>3, <3>4, <3>5, <3>6 DEF r
  <2> QED
    BY <2>3, <2>4
<1> QED
  BY <1>1, <1>2

LEMMA NotNone == ASSUME ProgressAssumption, NEW s \in Snapshots PROVE s # None
<1>1. s \in [key : Keys, exec : 1 .. MaxExecs, seq : Nat]
  BY DEF Snapshots, Execs, ProgressAssumption
<1> QED
  BY <1>1 DEF ProgressAssumption

LEMMA DropFacts ==
    ASSUME NEW d \in [Keys -> Snapshots \cup {None}], NEW s \in Snapshots
    PROVE  /\ Drop(d, s) \in [Keys -> Snapshots \cup {None}]
           /\ \A k \in Keys : k # s.key => Drop(d, s)[k] = d[k]
           /\ Drop(d, s)[s.key] = IF d[s.key] = None \/ Newer(s, d[s.key]) THEN s ELSE d[s.key]
<1>1. s.key \in Keys
  BY DEF Snapshots
<1> QED
  BY <1>1 DEF Drop

LEMMA EmptySet == ToSet(<<>>) = {}
BY DEF ToSet

\* What a call does to the queue of a connection.
LEMMA OfferQueueFacts ==
    ASSUME ProgressAssumption, NEW b, WellFormed(b), NEW s \in Snapshots, s.seq > 0
    PROVE  LET c == OfferQueue(b, s)
               stale == b.mark[s.key] # None /\ StaleOrEqual(s, b.mark[s.key])
           IN  /\ WellFormed(c)
               /\ c.capacity = b.capacity /\ c.closed = b.closed /\ c.batch = b.batch
               /\ c.pending = b.pending
               /\ stale => c = b
               /\ ~stale => c.mark[s.key] = s /\ s \in ToSet(c.queue)
               /\ \A k \in Keys : k # s.key => c.mark[k] = b.mark[k]
               /\ \A t \in ToSet(c.queue) : t = s \/ t \in ToSet(b.queue)
               /\ \A t \in ToSet(b.queue) : t.key # s.key =>
                     \/ t \in ToSet(c.queue)
                     \/ Overflows(b.queue, s, b.capacity) /\ c.dropped = Drop(b.dropped, t)
               /\ \/ c.dropped = b.dropped
                  \/ \E t \in ToSet(b.queue) : /\ t.key # s.key
                                               /\ Overflows(b.queue, s, b.capacity)
                                               /\ c.dropped = Drop(b.dropped, t)
<1> DEFINE c == OfferQueue(b, s)
           stale == b.mark[s.key] # None /\ StaleOrEqual(s, b.mark[s.key])
<1>1. CASE stale
  BY <1>1 DEF OfferQueue
<1>2. CASE ~stale
  <2>1. /\ b.capacity \in Nat \ {0} /\ b.queue \in Seq(Snapshots) /\ s.key \in Keys
        /\ b.mark \in [Keys -> Snapshots \cup {None}]
        /\ b.dropped \in [Keys -> Snapshots \cup {None}]
    BY DEF WellFormed, Buffers, Snapshots, ProgressAssumption
  <2>2. c = [b EXCEPT !.mark[s.key] = s, !.queue = Put(b.queue, s, b.capacity),
                      !.dropped = DroppedBy(b, b.queue, s)]
    BY <1>2 DEF OfferQueue
  <2>3. /\ c.mark = [b.mark EXCEPT ![s.key] = s] /\ c.queue = Put(b.queue, s, b.capacity)
        /\ c.dropped = DroppedBy(b, b.queue, s)
        /\ c.capacity = b.capacity /\ c.closed = b.closed /\ c.batch = b.batch
        /\ c.pending = b.pending
        /\ c = [capacity |-> c.capacity, closed |-> c.closed, batch |-> c.batch,
                queue |-> c.queue, pending |-> c.pending, mark |-> c.mark,
                dropped |-> c.dropped]
    BY <2>2 DEF WellFormed, Buffers
  <2> HIDE DEF c
  <2>4. /\ c.queue \in Seq(Snapshots) /\ Len(c.queue) <= c.capacity /\ OnePerKey(c.queue)
        /\ \A x \in ToSet(c.queue) : x = s \/ x \in ToSet(b.queue)
        /\ (\E t \in ToSet(b.queue) : t.key = s.key /\ StaleOrEqual(s, t)) => c.queue = b.queue
        /\ ~(\E t \in ToSet(b.queue) : t.key = s.key /\ StaleOrEqual(s, t)) =>
              s \in ToSet(c.queue) /\ \A x \in ToSet(c.queue) : x.key = s.key => x = s
        /\ \A t \in ToSet(b.queue) : t.key # s.key =>
              t \in ToSet(c.queue) \/ (Overflows(b.queue, s, b.capacity) /\ t = Head(b.queue))
        /\ Overflows(b.queue, s, b.capacity) =>
              Head(b.queue) \in ToSet(b.queue) /\ Head(b.queue).key # s.key
    <3>1. OnePerKey(b.queue) /\ Len(b.queue) <= b.capacity
      BY DEF WellFormed
    <3> DEFINE P == Put(b.queue, s, b.capacity)
    <3>2. /\ P \in Seq(Snapshots) /\ Len(P) <= b.capacity /\ OnePerKey(P)
          /\ \A x \in ToSet(P) : x = s \/ x \in ToSet(b.queue)
          /\ (\E t \in ToSet(b.queue) : t.key = s.key /\ StaleOrEqual(s, t)) => P = b.queue
          /\ ~(\E t \in ToSet(b.queue) : t.key = s.key /\ StaleOrEqual(s, t)) =>
                s \in ToSet(P) /\ \A x \in ToSet(P) : x.key = s.key => x = s
          /\ \A t \in ToSet(b.queue) : t.key # s.key =>
                t \in ToSet(P) \/ (Overflows(b.queue, s, b.capacity) /\ t = Head(b.queue))
          /\ Overflows(b.queue, s, b.capacity) =>
                Head(b.queue) \in ToSet(b.queue) /\ Head(b.queue).key # s.key
      BY <2>1, <3>1, PutFacts, SMTT(60)
    <3>3. c.queue = P /\ c.capacity = b.capacity
      BY <2>3
    <3> HIDE DEF P
    <3> QED
      BY <3>2, <3>3
  <2>5. ToSet(b.queue) \subseteq Snapshots /\ ToSet(c.queue) \subseteq Snapshots
    BY <2>1, <2>4, SetOf
  <2>6. ~(\E t \in ToSet(b.queue) : t.key = s.key /\ StaleOrEqual(s, t))
    BY <1>2, <2>5, NotNone DEF WellFormed
  <2>7. \/ c.dropped = b.dropped
        \/ \E t \in ToSet(b.queue) : /\ t.key # s.key
                                     /\ Overflows(b.queue, s, b.capacity)
                                     /\ c.dropped = Drop(b.dropped, t)
    BY <2>3, <2>4 DEF DroppedBy
  <2>8. /\ c.dropped \in [Keys -> Snapshots \cup {None}]
        /\ \A k \in Keys : c.dropped[k] # None =>
              c.dropped[k].key = k /\ c.dropped[k].seq > 0
    <3>1. CASE c.dropped = b.dropped
      BY <2>1, <3>1 DEF WellFormed
    <3>2. ASSUME NEW t \in ToSet(b.queue), c.dropped = Drop(b.dropped, t)
          PROVE  <2>8!1 /\ <2>8!2
      <4>1. t \in Snapshots /\ t.seq > 0 /\ t.key \in Keys
        BY <2>5, <3>2 DEF WellFormed, Snapshots
      <4>2. /\ c.dropped \in [Keys -> Snapshots \cup {None}]
            /\ \A k \in Keys : c.dropped[k] = b.dropped[k] \/ (k = t.key /\ c.dropped[k] = t)
        BY <2>1, <3>2, <4>1, DropFacts
      <4> QED
        BY <4>1, <4>2 DEF WellFormed
    <3> QED
      BY <2>7, <3>1, <3>2
  <2>9. c \in Buffers
    <3>1. c.mark \in [Keys -> Snapshots \cup {None}]
      BY <2>1, <2>3
    <3>2. /\ c.capacity \in Capacities /\ c.closed \in BOOLEAN /\ c.batch \in BOOLEAN
          /\ c.pending \in Seq(Snapshots)
      BY <2>3 DEF WellFormed, Buffers
    <3> QED
      BY <2>3, <2>4, <2>8, <3>1, <3>2 DEF Buffers
  <2>10. \A k \in Keys : c.mark[k] = IF k = s.key THEN s ELSE b.mark[k]
    BY <2>1, <2>3
  <2>11. \A t \in ToSet(c.queue) : c.mark[t.key] = t /\ t.seq > 0
    <3> SUFFICES ASSUME NEW t \in ToSet(c.queue) PROVE c.mark[t.key] = t /\ t.seq > 0
      OBVIOUS
    <3>1. t.key \in Keys
      BY <2>5 DEF Snapshots
    <3> QED
      BY <2>4, <2>6, <2>10, <3>1 DEF WellFormed
  <2>12. WellFormed(c)
    BY <2>3, <2>4, <2>8, <2>9, <2>10, <2>11 DEF WellFormed
  <2>13. \A t \in ToSet(b.queue) : t.key # s.key =>
            \/ t \in ToSet(c.queue)
            \/ Overflows(b.queue, s, b.capacity) /\ c.dropped = Drop(b.dropped, t)
    BY <2>3, <2>4 DEF DroppedBy
  <2> QED
    BY <1>2, <2>1, <2>3, <2>4, <2>6, <2>7, <2>10, <2>12, <2>13 DEF c
<1> QED
  BY <1>1, <1>2

\* What a call does to what is kept aside behind the barrier.
LEMMA OfferPendingFacts ==
    ASSUME ProgressAssumption, NEW b, WellFormed(b), NEW s \in Snapshots, s.seq > 0
    PROVE  LET c == OfferPending(b, s) IN
           /\ WellFormed(c)
           /\ c.capacity = b.capacity /\ c.closed = b.closed /\ c.batch = b.batch
           /\ c.queue = b.queue /\ c.mark = b.mark
           /\ \A t \in ToSet(c.pending) : t = s \/ t \in ToSet(b.pending)
           /\ \/ s \in ToSet(c.pending)
              \/ \E t \in ToSet(b.pending) : t.key = s.key /\ StaleOrEqual(s, t)
           /\ \A t \in ToSet(b.pending) : t.key = s.key /\ StaleOrEqual(s, t) =>
                 t \in ToSet(c.pending)
           /\ \A t \in ToSet(b.pending) : t.key # s.key =>
                 \/ t \in ToSet(c.pending)
                 \/ Overflows(b.pending, s, b.capacity) /\ c.dropped = Drop(b.dropped, t)
           /\ \/ c.dropped = b.dropped
              \/ \E t \in ToSet(b.pending) : /\ t.key # s.key
                                             /\ Overflows(b.pending, s, b.capacity)
                                             /\ c.dropped = Drop(b.dropped, t)
<1> DEFINE c == OfferPending(b, s)
           P == Put(b.pending, s, b.capacity)
<1>1. /\ b.capacity \in Nat \ {0} /\ b.pending \in Seq(Snapshots) /\ s.key \in Keys
      /\ b.dropped \in [Keys -> Snapshots \cup {None}]
      /\ OnePerKey(b.pending) /\ Len(b.pending) <= b.capacity
  BY DEF WellFormed, Buffers, Snapshots, ProgressAssumption
<1>2. c = [b EXCEPT !.pending = P, !.dropped = DroppedBy(b, b.pending, s)]
  BY DEF OfferPending
<1>3. /\ c.pending = P
      /\ c.dropped = DroppedBy(b, b.pending, s)
      /\ c.capacity = b.capacity /\ c.closed = b.closed /\ c.batch = b.batch
      /\ c.queue = b.queue /\ c.mark = b.mark
      /\ c = [capacity |-> c.capacity, closed |-> c.closed, batch |-> c.batch,
              queue |-> c.queue, pending |-> c.pending, mark |-> c.mark,
              dropped |-> c.dropped]
  BY <1>2 DEF WellFormed, Buffers
<1>4. /\ P \in Seq(Snapshots) /\ Len(P) <= b.capacity /\ OnePerKey(P)
      /\ \A x \in ToSet(P) : x = s \/ x \in ToSet(b.pending)
      /\ (\E t \in ToSet(b.pending) : t.key = s.key /\ StaleOrEqual(s, t)) => P = b.pending
      /\ ~(\E t \in ToSet(b.pending) : t.key = s.key /\ StaleOrEqual(s, t)) =>
            s \in ToSet(P) /\ \A x \in ToSet(P) : x.key = s.key => x = s
      /\ \A t \in ToSet(b.pending) : t.key # s.key =>
            t \in ToSet(P) \/ (Overflows(b.pending, s, b.capacity) /\ t = Head(b.pending))
      /\ Overflows(b.pending, s, b.capacity) =>
            Head(b.pending) \in ToSet(b.pending) /\ Head(b.pending).key # s.key
  BY <1>1, PutFacts
<1> HIDE DEF c, P
<1>5. ToSet(b.pending) \subseteq Snapshots /\ ToSet(P) \subseteq Snapshots
  BY <1>1, <1>4, SetOf
<1>6. \/ c.dropped = b.dropped
      \/ \E t \in ToSet(b.pending) : /\ t.key # s.key
                                     /\ Overflows(b.pending, s, b.capacity)
                                     /\ c.dropped = Drop(b.dropped, t)
  BY <1>3, <1>4 DEF DroppedBy
<1>7. /\ c.dropped \in [Keys -> Snapshots \cup {None}]
      /\ \A k \in Keys : c.dropped[k] # None =>
            c.dropped[k].key = k /\ c.dropped[k].seq > 0
  <2>1. CASE c.dropped = b.dropped
    BY <1>1, <2>1 DEF WellFormed
  <2>2. ASSUME NEW t \in ToSet(b.pending), c.dropped = Drop(b.dropped, t)
        PROVE  <1>7!1 /\ <1>7!2
    <3>1. t \in Snapshots /\ t.seq > 0 /\ t.key \in Keys
      BY <1>5, <2>2 DEF WellFormed, Snapshots
    <3>2. /\ c.dropped \in [Keys -> Snapshots \cup {None}]
          /\ \A k \in Keys : c.dropped[k] = b.dropped[k] \/ (k = t.key /\ c.dropped[k] = t)
      BY <1>1, <2>2, <3>1, DropFacts
    <3> QED
      BY <3>1, <3>2 DEF WellFormed
  <2> QED
    BY <1>6, <2>1, <2>2
<1>8. c \in Buffers
  <2>1. /\ c.capacity \in Capacities /\ c.closed \in BOOLEAN /\ c.batch \in BOOLEAN
        /\ c.queue \in Seq(Snapshots) /\ c.mark \in [Keys -> Snapshots \cup {None}]
    BY <1>3 DEF WellFormed, Buffers
  <2> QED
    BY <1>3, <1>4, <1>7, <2>1 DEF Buffers
<1>9. \A t \in ToSet(c.pending) : t.seq > 0
  BY <1>3, <1>4 DEF WellFormed
<1>10. WellFormed(c)
  BY <1>3, <1>4, <1>7, <1>8, <1>9 DEF WellFormed
<1>11. \A t \in ToSet(b.pending) : t.key # s.key =>
          \/ t \in ToSet(c.pending)
          \/ Overflows(b.pending, s, b.capacity) /\ c.dropped = Drop(b.dropped, t)
  BY <1>3, <1>4 DEF DroppedBy
<1> QED
  BY <1>3, <1>4, <1>6, <1>10, <1>11 DEF c

LEMMA OfferLoop ==
    ASSUME NEW b, NEW q, Len(q) \in Nat
    PROVE  \E f : /\ f[0] = b
                  /\ \A n \in Nat : n < Len(q) => f[n + 1] = OfferQueue(f[n], q[n + 1])
                  /\ OfferAll(b, q) = f[Len(q)]
<1> DEFINE Body(f, n) == IF n = 0 THEN b ELSE OfferQueue(f[n - 1], q[n])
           Loop(f, m) == f = [n \in 0 .. m |-> Body(f, n)]
           N == {m \in Nat : \E f : Loop(f, m)}
<1>1. 0 \in N
  <2>1. Loop([n \in 0 .. 0 |-> b], 0)
    OBVIOUS
  <2> QED
    BY <2>1
<1>2. ASSUME NEW m \in Nat, m \in N PROVE m + 1 \in N
  <2>1. PICK f : Loop(f, m)
    BY <1>2
  <2> DEFINE g == [n \in 0 .. m + 1 |-> IF n <= m THEN f[n] ELSE Body(f, n)]
  <2>2. \A n \in 0 .. m : g[n] = f[n] /\ f[n] = Body(f, n)
    BY <2>1
  <2>3. ASSUME NEW n \in 0 .. m + 1 PROVE g[n] = Body(g, n)
    <3>1. n > 0 => n - 1 \in 0 .. m /\ g[n - 1] = f[n - 1]
      BY <2>2
    <3>2. Body(g, n) = Body(f, n)
      BY <3>1
    <3>3. g[n] = IF n <= m THEN f[n] ELSE Body(f, n)
      OBVIOUS
    <3> QED
      BY <2>2, <3>2, <3>3
  <2>4. Loop(g, m + 1)
    BY <2>3
  <2> HIDE DEF Loop, g
  <2> QED
    BY <2>4
<1>3. Len(q) \in N
  <2> HIDE DEF N
  <2> QED
    BY <1>1, <1>2, NatSet
<1> DEFINE F == CHOOSE f : Loop(f, Len(q))
<1>4. Loop(F, Len(q))
  BY <1>3
<1>5. OfferAll(b, q) = F[Len(q)]
  BY DEF OfferAll
<1> HIDE DEF F
<1>6. F[0] = b /\ \A n \in Nat : n < Len(q) => F[n + 1] = OfferQueue(F[n], q[n + 1])
  BY <1>4
<1> QED
  BY <1>5, <1>6

Readings(read) ==
    /\ read \in [Keys -> Snapshots \cup {None}]
    /\ \A k \in Keys : read[k] # None => read[k].key = k

\* What was queued before the barrier of a key that was read is gone, but for what is
\* newer than what was read.
LEMMA OpenedFacts ==
    ASSUME ProgressAssumption, NEW b, WellFormed(b), NEW read, Readings(read)
    PROVE  LET o == Opened(b, read) IN
           /\ WellFormed(o)
           /\ o.capacity = b.capacity /\ o.closed = b.closed
           /\ o.pending = <<>> /\ o.dropped = b.dropped
           /\ \A k \in Keys :
                 /\ k \notin KeysIn(o.queue) /\ read[k] # None => o.mark[k] = read[k]
                 /\ k \in KeysIn(o.queue) \/ read[k] = None => o.mark[k] = b.mark[k]
<1> DEFINE o == Opened(b, read)
           Q == Queued(b, read)
           S == {t \in ToSet(b.queue) :
                    read[t.key] = None \/ (t.exec = read[t.key].exec /\ t.seq > read[t.key].seq)}
           M == [k \in Keys |->
                    CASE k \in KeysIn(Q) -> CHOOSE s \in ToSet(Q) : s.key = k
                      [] k \notin KeysIn(Q) /\ read[k] # None -> read[k]
                      [] OTHER -> b.mark[k]]
<1>1. /\ b.queue \in Seq(Snapshots) /\ OnePerKey(b.queue) /\ Len(b.queue) <= b.capacity
      /\ b.capacity \in Nat \ {0} /\ b.mark \in [Keys -> Snapshots \cup {None}]
  BY DEF WellFormed, Buffers, ProgressAssumption
<1>2. /\ Q \in Seq(Snapshots) /\ Len(Q) <= Len(b.queue) /\ OnePerKey(Q)
      /\ \A t : t \in ToSet(Q) <=> t \in ToSet(b.queue) /\ t \in S
  <2>1. Q = Keep(b.queue, S)
    BY DEF Queued
  <2> HIDE DEF Q, S
  <2> QED
    BY <1>1, <2>1, KeepSet
<1>3. o = [b EXCEPT !.batch = FALSE, !.pending = <<>>, !.queue = Q, !.mark = M]
  BY DEF Opened
<1> HIDE DEF Q, M
<1>4. /\ o.mark = M /\ o.queue = Q /\ o.pending = <<>> /\ o.batch = FALSE
      /\ o.dropped = b.dropped /\ o.capacity = b.capacity /\ o.closed = b.closed
      /\ o = [capacity |-> o.capacity, closed |-> o.closed, batch |-> o.batch,
              queue |-> o.queue, pending |-> o.pending, mark |-> o.mark,
              dropped |-> o.dropped]
  BY <1>3 DEF WellFormed, Buffers
<1> HIDE DEF o
<1>5. ToSet(Q) \subseteq Snapshots /\ \A t \in ToSet(Q) : t.key \in Keys
  <2>1. ToSet(Q) \subseteq Snapshots
    BY <1>2, SetOf
  <2> QED
    BY <2>1 DEF Snapshots
<1>6. ASSUME NEW k \in Keys, k \in KeysIn(Q)
      PROVE  M[k] = b.mark[k] /\ M[k] \in ToSet(Q) /\ M[k].key = k
  <2>1. \E s \in ToSet(Q) : s.key = k
    BY <1>6 DEF KeysIn
  <2>2. M[k] = CHOOSE s \in ToSet(Q) : s.key = k
    BY <1>6 DEF M
  <2>3. M[k] \in ToSet(Q) /\ M[k].key = k
    BY <2>1, <2>2
  <2> QED
    BY <1>2, <2>3 DEF WellFormed
<1>7. \A k \in Keys : M[k] = IF k \notin KeysIn(Q) /\ read[k] # None THEN read[k] ELSE b.mark[k]
  <2> SUFFICES ASSUME NEW k \in Keys
               PROVE  M[k] = IF k \notin KeysIn(Q) /\ read[k] # None THEN read[k] ELSE b.mark[k]
    OBVIOUS
  <2>1. CASE k \in KeysIn(Q)
    BY <1>6, <2>1
  <2>2. CASE k \notin KeysIn(Q)
    BY <2>2 DEF M
  <2> QED
    BY <2>1, <2>2
<1>8. M \in [Keys -> Snapshots \cup {None}]
  <2>1. \A k \in Keys : M[k] \in Snapshots \cup {None}
    BY <1>1, <1>7 DEF Readings
  <2>2. M = [k \in Keys |-> M[k]]
    BY DEF M
  <2> QED
    BY <2>1, <2>2
<1>9. \A t \in ToSet(Q) : M[t.key] = t /\ t.seq > 0
  <2> SUFFICES ASSUME NEW t \in ToSet(Q) PROVE M[t.key] = t /\ t.seq > 0
    OBVIOUS
  <2>1. t.key \in Keys /\ t.key \in KeysIn(Q)
    BY <1>5 DEF KeysIn
  <2>2. b.mark[t.key] = t /\ t.seq > 0
    BY <1>2 DEF WellFormed
  <2> QED
    BY <1>6, <2>1, <2>2
<1>10. \A k \in Keys : M[k] # None => M[k].key = k
  BY <1>7 DEF WellFormed, Readings
<1>11. OnePerKey(o.pending) /\ Len(o.pending) = 0 /\ ToSet(o.pending) = {}
       /\ o.pending \in Seq(Snapshots)
  BY <1>4, EmptySet DEF OnePerKey
<1>12. o \in Buffers
  <2>1. /\ o.capacity \in Capacities /\ o.closed \in BOOLEAN /\ o.batch \in BOOLEAN
        /\ o.dropped \in [Keys -> Snapshots \cup {None}]
    BY <1>4 DEF WellFormed, Buffers
  <2> QED
    BY <1>2, <1>4, <1>8, <1>11, <2>1 DEF Buffers
<1>13. WellFormed(o)
  <2>1. /\ Len(o.queue) <= o.capacity /\ Len(o.pending) <= o.capacity
        /\ OnePerKey(o.queue) /\ OnePerKey(o.pending)
    BY <1>1, <1>2, <1>4, <1>11
  <2>2. \A t \in ToSet(o.queue) : o.mark[t.key] = t /\ t.seq > 0
    BY <1>4, <1>9
  <2>3. \A t \in ToSet(o.pending) : t.seq > 0
    BY <1>11
  <2>4. \A k \in Keys : /\ o.mark[k] # None => o.mark[k].key = k
                        /\ o.dropped[k] # None => o.dropped[k].key = k /\ o.dropped[k].seq > 0
    BY <1>4, <1>10 DEF WellFormed
  <2> QED
    BY <1>12, <2>1, <2>2, <2>3, <2>4 DEF WellFormed
<1> QED
  BY <1>2, <1>4, <1>7, <1>13 DEF o

LEMMA OpenedBatch ==
    ASSUME NEW b, WellFormed(b), NEW read
    PROVE  Opened(b, read).batch = FALSE
BY DEF Opened, WellFormed, Buffers

LEMMA OpenedQueue ==
    ASSUME NEW b, WellFormed(b), NEW read
    PROVE  \A t : t \in ToSet(Opened(b, read).queue) <=>
              /\ t \in ToSet(b.queue)
              /\ read[t.key] = None \/ (t.exec = read[t.key].exec /\ t.seq > read[t.key].seq)
<1> DEFINE S == {t \in ToSet(b.queue) :
                    read[t.key] = None \/ (t.exec = read[t.key].exec /\ t.seq > read[t.key].seq)}
<1>1. b.queue \in Seq(Snapshots)
  BY DEF WellFormed, Buffers
<1>2. Opened(b, read).queue = Queued(b, read)
  BY DEF Opened, WellFormed, Buffers
<1>3. Queued(b, read) = Keep(b.queue, S)
  BY DEF Queued
<1>4. \A t : t \in ToSet(Keep(b.queue, S)) <=> t \in ToSet(b.queue) /\ t \in S
  <2> HIDE DEF S
  <2> QED
    BY <1>1, KeepSet
<1> QED
  BY <1>2, <1>3, <1>4

LEMMA FreshFacts ==
    ASSUME NEW b, WellFormed(b), NEW read
    PROVE  LET q == Fresh(b.pending, read) IN
           /\ q \in Seq(Snapshots) /\ OnePerKey(q)
           /\ \A t : t \in ToSet(q) <=> /\ t \in ToSet(b.pending)
                                        /\ read[t.key] = None \/ ~StaleOrEqual(t, read[t.key])
<1> DEFINE S == {t \in ToSet(b.pending) : read[t.key] = None \/ ~StaleOrEqual(t, read[t.key])}
<1>1. b.pending \in Seq(Snapshots) /\ OnePerKey(b.pending)
  BY DEF WellFormed, Buffers
<1>2. Fresh(b.pending, read) = Keep(b.pending, S)
  BY DEF Fresh
<1>3. /\ Keep(b.pending, S) \in Seq(Snapshots) /\ OnePerKey(Keep(b.pending, S))
      /\ \A t : t \in ToSet(Keep(b.pending, S)) <=> t \in ToSet(b.pending) /\ t \in S
  <2> HIDE DEF S
  <2> QED
    BY <1>1, KeepSet
<1> QED
  BY <1>2, <1>3

\* The end of a barrier as the steps of its loop, every one of them well formed.
LEMMA FinishLoop ==
    ASSUME ProgressAssumption, NEW b, WellFormed(b), NEW read, Readings(read)
    PROVE  LET q == Fresh(b.pending, read) IN
           \E f : /\ f[0] = Opened(b, read)
                  /\ \A n \in Nat : n < Len(q) =>
                        f[n + 1] = OfferQueue(f[n], q[n + 1]) /\ q[n + 1] \in ToSet(b.pending)
                        /\ q[n + 1] \in Snapshots /\ q[n + 1].seq > 0
                  /\ \A n \in Nat : n <= Len(q) =>
                        /\ WellFormed(f[n])
                        /\ f[n].capacity = b.capacity /\ f[n].closed = b.closed
                        /\ f[n].batch = FALSE /\ f[n].pending = <<>>
                  /\ FinishBatch(b, read) = f[Len(q)]
<1> DEFINE q == Fresh(b.pending, read)
<1>1. q \in Seq(Snapshots) /\ \A t \in ToSet(q) : t \in ToSet(b.pending)
  BY FreshFacts
<1> HIDE DEF q
<1>2. PICK f : /\ f[0] = Opened(b, read)
               /\ \A n \in Nat : n < Len(q) => f[n + 1] = OfferQueue(f[n], q[n + 1])
               /\ OfferAll(Opened(b, read), q) = f[Len(q)]
  BY <1>1, OfferLoop
<1>3. \A n \in Nat : n < Len(q) =>
         q[n + 1] \in ToSet(b.pending) /\ q[n + 1] \in Snapshots /\ q[n + 1].seq > 0
  <2> SUFFICES ASSUME NEW n \in Nat, n < Len(q)
               PROVE  q[n + 1] \in ToSet(b.pending) /\ q[n + 1] \in Snapshots /\ q[n + 1].seq > 0
    OBVIOUS
  <2>1. n + 1 \in 1 .. Len(q)
    BY <1>1
  <2>2. q[n + 1] \in ToSet(q)
    BY <1>1, <2>1, SetOf
  <2> QED
    BY <1>1, <2>1, <2>2 DEF WellFormed
<1> DEFINE Good(n) == /\ WellFormed(f[n])
                      /\ f[n].capacity = b.capacity /\ f[n].closed = b.closed
                      /\ f[n].batch = FALSE /\ f[n].pending = <<>>
           N == {n \in Nat : n <= Len(q) => Good(n)}
<1>4. 0 \in N
  <2>1. Good(0)
    <3> DEFINE o == Opened(b, read)
    <3>1. /\ WellFormed(o) /\ o.capacity = b.capacity /\ o.closed = b.closed
          /\ o.batch = FALSE /\ o.pending = <<>>
      BY OpenedFacts, OpenedBatch
    <3>2. f[0] = o
      BY <1>2
    <3> HIDE DEF o
    <3> QED
      BY <3>1, <3>2
  <2> QED
    BY <2>1
<1>5. ASSUME NEW n \in Nat, n \in N PROVE n + 1 \in N
  <2>1. ASSUME n + 1 <= Len(q) PROVE Good(n + 1)
    <3>1. Good(n) /\ n < Len(q) /\ Len(q) \in Nat
      BY <1>1, <1>5, <2>1
    <3>2. f[n + 1] = OfferQueue(f[n], q[n + 1]) /\ q[n + 1] \in Snapshots /\ q[n + 1].seq > 0
      BY <1>2, <1>3, <3>1
    <3> QED
      BY <3>1, <3>2, OfferQueueFacts
  <2> HIDE DEF Good
  <2> QED
    BY <2>1
<1>6. Nat \subseteq N
  <2> HIDE DEF N
  <2> QED
    BY <1>4, <1>5, NatSet
<1>7. FinishBatch(b, read) = f[Len(q)]
  BY <1>2 DEF FinishBatch, q
<1> QED
  BY <1>2, <1>3, <1>6, <1>7 DEF q

\* What the opened buffer has, and every offer of a pending entry keeps, the buffer has
\* when the barrier is down.
LEMMA FinishKeeps ==
    ASSUME ProgressAssumption, NEW b, WellFormed(b), NEW read, Readings(read),
           NEW I, Opened(b, read) \in I,
           \A c \in I : \A t \in ToSet(b.pending) : WellFormed(c) => OfferQueue(c, t) \in I
    PROVE  FinishBatch(b, read) \in I
<1> DEFINE q == Fresh(b.pending, read)
<1>1. PICK f : /\ f[0] = Opened(b, read)
               /\ \A n \in Nat : n < Len(q) =>
                     f[n + 1] = OfferQueue(f[n], q[n + 1]) /\ q[n + 1] \in ToSet(b.pending)
                     /\ q[n + 1] \in Snapshots /\ q[n + 1].seq > 0
               /\ \A n \in Nat : n <= Len(q) =>
                     /\ WellFormed(f[n])
                     /\ f[n].capacity = b.capacity /\ f[n].closed = b.closed
                     /\ f[n].batch = FALSE /\ f[n].pending = <<>>
               /\ FinishBatch(b, read) = f[Len(q)]
  BY FinishLoop
<1>2. Len(q) \in Nat
  BY FreshFacts
<1> HIDE DEF q
<1> DEFINE N == {n \in Nat : n <= Len(q) => f[n] \in I}
<1>3. 0 \in N
  BY <1>1
<1>4. ASSUME NEW n \in Nat, n \in N PROVE n + 1 \in N
  <2> SUFFICES ASSUME n + 1 <= Len(q) PROVE f[n + 1] \in I
    OBVIOUS
  <2>1. n < Len(q) /\ n <= Len(q)
    BY <1>2
  <2>2. /\ f[n + 1] = OfferQueue(f[n], q[n + 1]) /\ q[n + 1] \in ToSet(b.pending)
        /\ WellFormed(f[n]) /\ f[n] \in I
    BY <1>1, <1>4, <2>1
  <2> QED
    BY <2>2
<1>5. Nat \subseteq N
  <2> HIDE DEF N
  <2> QED
    BY <1>3, <1>4, NatSet
<1> QED
  BY <1>1, <1>2, <1>5

-------------------------------------------------------------------------------
(* Numbers: an execution publishes no more often than its threads may.     *)

LEMMA LeftTypes ==
    ASSUME ProgressAssumption, NumberInv
    PROVE  /\ \A p \in Publishers : Left(p) \in Nat
           /\ \A e \in Execs : /\ <<e, "submitter">> \in Publishers
                               /\ <<e, "worker">> \in Publishers
                               /\ LeftOf(e) \in Nat
<1>1. \A p \in Publishers : Left(p) \in Nat
  BY DEF NumberInv, Publishes, Left, ProgressAssumption
<1>2. \A e \in Execs : <<e, "submitter">> \in Publishers /\ <<e, "worker">> \in Publishers
  BY DEF Publishers
<1> QED
  BY <1>1, <1>2 DEF LeftOf

\* A step of one publisher.
LEMMA LeftMoves ==
    ASSUME ProgressAssumption, HubInv, NumberInv, NEW p \in Publishers, p[1] \in 1 .. Len(execs),
           \A q \in Publishers \ {p} : pub'[q] = pub[q],
           NEW d \in 0 .. 1, Left(p)' = Left(p) - d, d <= Left(p)
    PROVE  /\ p[1] \in Execs
           /\ \A e \in Execs : LeftOf(e)' = IF e = p[1] THEN LeftOf(e) - d ELSE LeftOf(e)
<1>1. /\ p[1] \in Execs /\ p[2] \in {"submitter", "worker"} /\ p = <<p[1], p[2]>>
  BY DEF Publishers
<1>2. \A q \in Publishers : q # p => Left(q)' = Left(q)
  BY DEF Left
<1>3. ASSUME NEW e \in Execs
      PROVE  LeftOf(e)' = IF e = p[1] THEN LeftOf(e) - d ELSE LeftOf(e)
  <2>1. /\ <<e, "submitter">> \in Publishers /\ <<e, "worker">> \in Publishers
        /\ Left(<<e, "submitter">>) \in Nat /\ Left(<<e, "worker">>) \in Nat
    BY LeftTypes
  <2>2. CASE p = <<e, "submitter">>
    <3>1. <<e, "worker">> # p /\ e = p[1]
      BY <2>2
    <3> QED
      BY <1>2, <2>1, <2>2, <3>1 DEF LeftOf
  <2>3. CASE p = <<e, "worker">>
    <3>1. <<e, "submitter">> # p /\ e = p[1]
      BY <2>3
    <3> QED
      BY <1>2, <2>1, <2>3, <3>1 DEF LeftOf
  <2>4. CASE p # <<e, "submitter">> /\ p # <<e, "worker">>
    <3>1. e # p[1]
      BY <1>1, <2>4
    <3> QED
      BY <1>2, <2>1, <2>4, <3>1 DEF LeftOf
  <2> QED
    BY <2>2, <2>3, <2>4
<1> QED
  BY <1>1, <1>3

LEMMA AdmitNumbers ==
    ASSUME ProgressAssumption, HubInv, NumberInv, NEW k \in Keys, Admit(k)
    PROVE  NumberInv'
<1>0. PICK e : e = Len(execs) + 1
  OBVIOUS
<1> DEFINE S == <<e, "submitter">>
           W == <<e, "worker">>
<1>1. /\ S \in Publishers /\ W \in Publishers /\ S # W
      /\ \A p \in Publishers : pub'[p].at = pub[p].at /\ pub'[p].call = pub[p].call
      /\ \A p \in Publishers \ {S, W} : pub'[p] = pub[p]
      /\ pub'[W].left = MaxUpdates /\ pub'[S].left \in 0 .. 1
  BY <1>0, AdmitPublishers
<1>2. latest' = latest /\ e \in Execs /\ e \in Nat
  BY <1>0 DEF Admit, HubInv, Shape, Execs, ProgressAssumption
<1>3. pub[S].at = "idle" /\ pub[W].at = "idle"
  BY <1>0, <1>1, <1>2 DEF HubInv, Born, Shape
<1>4. \A p \in Publishers : Publishes(p)'
  <2> SUFFICES ASSUME NEW p \in Publishers PROVE Publishes(p)'
    OBVIOUS
  <2>1. CASE p \in {S, W}
    BY <1>1, <1>3, <2>1 DEF NumberInv, Publishes, ProgressAssumption
  <2>2. CASE p \notin {S, W}
    BY <1>1, <2>2 DEF NumberInv, Publishes
  <2> QED
    BY <2>1, <2>2
<1>5. ASSUME NEW x \in Execs, x # e PROVE LeftOf(x)' = LeftOf(x)
  <2>1. <<x, "submitter">> \in Publishers \ {S, W} /\ <<x, "worker">> \in Publishers \ {S, W}
    BY <1>5, LeftTypes
  <2> QED
    BY <1>1, <2>1 DEF LeftOf, Left
<1>6. LeftOf(e)' <= MaxUpdates + 1
  BY <1>1, <1>3 DEF LeftOf, Left, ProgressAssumption
<1>7. ASSUME NEW j \in Keys, latest[j] # None PROVE latest[j].exec # e /\ latest[j].exec \in Execs
  <2>1. owner[j] \in Nat /\ owner[j] < e
    BY <1>0, <1>2 DEF HubInv, Shape, Owning
  <2>2. latest[j].exec <= owner[j] /\ latest[j].exec \in Execs
    BY <1>7 DEF HubInv, Behind, Shape, Events
  <2> QED
    BY <1>2, <2>1, <2>2 DEF Execs
<1>8. \A j \in Keys : Numbered(j)'
  BY <1>2, <1>5, <1>7 DEF NumberInv, Numbered
<1> QED
  BY <1>4, <1>5, <1>6, <1>8 DEF NumberInv

LEMMA EndNumbers ==
    ASSUME ProgressAssumption, HubInv, NumberInv, NEW p \in Publishers, p[1] \in 1 .. Len(execs),
           pub[p].left > 0, End(p)
    PROVE  /\ \A q \in Publishers : Publishes(q)'
           /\ \A q \in Publishers \ {p} : pub'[q] = pub[q]
           /\ Left(p)' = IF pub[p].at = "call" THEN Left(p) ELSE Left(p) - 1
           /\ pub'[p].at = "idle"
<1>1. /\ pub'[p].at = "idle" /\ pub'[p].left = pub[p].left - 1 /\ pub'[p].call = None
      /\ \A q \in Publishers \ {p} : pub'[q] = pub[q]
  BY DEF HubInv, Shape, End
<1>2. \A q \in Publishers \ {p} : Publishes(q)'
  BY <1>1 DEF NumberInv, Publishes
<1>3. Publishes(p)'
  BY <1>1 DEF NumberInv, Publishes, ProgressAssumption
<1> QED
  BY <1>1, <1>2, <1>3 DEF Left

LEMMA GuardNumbers ==
    ASSUME ProgressAssumption, HubInv, NumberInv, NEW p \in Publishers, Guard(p)
    PROVE  NumberInv'
<1>1. p[1] \in 1 .. Len(execs) /\ pub[p].at = "idle" /\ pub[p].left > 0 /\ latest' = latest
  BY DEF Guard, HubInv, Born
<1>2. /\ \A q \in Publishers : Publishes(q)'
      /\ \A q \in Publishers \ {p} : pub'[q] = pub[q]
      /\ Left(p)' = Left(p) \/ (Left(p)' = Left(p) - 1 /\ Left(p) > 0)
  <2>1. CASE Refused(p) \/ Raises(p)
    BY <1>1, <2>1, EndNumbers DEF Refused, Raises, Left
  <2>2. CASE Allowed(p)
    <3>1. /\ \A q \in Publishers \ {p} : pub'[q] = pub[q]
          /\ pub'[p].at = "commit" /\ pub'[p].left = pub[p].left /\ pub'[p].call = pub[p].call
      BY <2>2 DEF Allowed, HubInv, Shape
    <3> QED
      BY <1>1, <3>1 DEF NumberInv, Publishes, Left
  <2> QED
    BY <2>1, <2>2 DEF Guard
<1>3. \A e \in Execs : LeftOf(e)' <= LeftOf(e) /\ LeftOf(e) \in Nat /\ LeftOf(e)' \in Int
  <2>1. CASE Left(p)' = Left(p)
    <3>1. Left(p)' = Left(p) - 0 /\ 0 <= Left(p) /\ 0 \in 0 .. 1
      BY <2>1, LeftTypes
    <3>2. \A e \in Execs : LeftOf(e)' = IF e = p[1] THEN LeftOf(e) - 0 ELSE LeftOf(e)
      BY <1>1, <1>2, <3>1, LeftMoves
    <3>3. \A e \in Execs : LeftOf(e) \in Nat
      BY LeftTypes
    <3> QED
      BY <3>2, <3>3
  <2>2. CASE Left(p)' = Left(p) - 1 /\ Left(p) > 0
    <3>1. 1 <= Left(p) /\ 1 \in 0 .. 1
      BY <2>2, LeftTypes
    <3>2. \A e \in Execs : LeftOf(e)' = IF e = p[1] THEN LeftOf(e) - 1 ELSE LeftOf(e)
      BY <1>1, <1>2, <2>2, <3>1, LeftMoves
    <3>3. \A e \in Execs : LeftOf(e) \in Nat
      BY LeftTypes
    <3> QED
      BY <3>2, <3>3
  <2> QED
    BY <1>2, <2>1, <2>2
<1>4. \A e \in Execs : LeftOf(e)' <= MaxUpdates + 1
  BY <1>3 DEF NumberInv, ProgressAssumption
<1>5. \A k \in Keys : Numbered(k)'
  <2> SUFFICES ASSUME NEW k \in Keys, latest[k] # None, NEW e, e = latest[k].exec
               PROVE  /\ latest[k] \in Snapshots /\ latest[k].key = k /\ latest[k].seq > 0
                      /\ latest[k].seq + LeftOf(e)' <= MaxUpdates + 1
    BY <1>1 DEF Numbered
  <2>1. /\ latest[k] \in Snapshots /\ latest[k].key = k /\ latest[k].seq > 0
        /\ latest[k].seq + LeftOf(latest[k].exec) <= MaxUpdates + 1
    BY DEF NumberInv, Numbered
  <2>2. e \in Execs /\ latest[k].seq \in Nat
    BY <2>1 DEF Snapshots
  <2> QED
    BY <1>3, <2>1, <2>2 DEF ProgressAssumption
<1> QED
  BY <1>2, <1>4, <1>5 DEF NumberInv

LEMMA CommitNumbers ==
    ASSUME ProgressAssumption, HubInv, NumberInv, NEW p \in Publishers, Commit(p)
    PROVE  /\ NumberInv'
           /\ Event(p) \in Snapshots /\ Event(p).seq > 0 /\ Event(p).key = Key(p)
<1>1. /\ latest' = [latest EXCEPT ![Key(p)] = Event(p)]
      /\ p[1] \in 1 .. Len(execs) /\ p[1] \in Execs
      /\ Event(p) \in Events /\ Event(p).exec = p[1] /\ Key(p) \in Keys
      /\ pub[p].at = "commit" /\ pub[p].left > 0
  <2>1. p[1] \in 1 .. Len(execs) /\ p[1] \in Execs
    BY DEF Commit, HubInv, Born, Publishers
  <2> QED
    BY <2>1, CommitKeepsHub, EventOf DEF Commit, NumberInv, Publishes
<1>2. PICK k \in Keys : k = Key(p)
  BY <1>1
<1>3. PICK e \in Execs : e = p[1]
  BY <1>1
<1>4. Left(p) \in Nat /\ LeftOf(e) \in Nat /\ LeftOf(e) >= 1 /\ Left(p) >= 1
  <2>1. Left(p) \in Nat /\ Left(p) >= 1
    BY <1>1, LeftTypes DEF Left, NumberInv, Publishes
  <2>2. /\ p \in {<<e, "submitter">>, <<e, "worker">>}
        /\ Left(<<e, "submitter">>) \in Nat /\ Left(<<e, "worker">>) \in Nat
    BY <1>3, LeftTypes DEF Publishers
  <2> QED
    <3>1. LeftOf(e) = Left(<<e, "submitter">>) + Left(<<e, "worker">>)
      BY DEF LeftOf
    <3>2. Left(<<e, "submitter">>) >= 1 \/ Left(<<e, "worker">>) >= 1
      BY <2>1, <2>2, Zenon
    <3> QED
      BY <2>1, <2>2, <3>1, <3>2
<1>5. /\ Event(p).key = k /\ Event(p).seq > 0 /\ Event(p).seq \in Nat
      /\ Event(p).seq + LeftOf(e) - 1 <= MaxUpdates + 1
  <2>1. CASE latest[k] # None /\ latest[k].exec = e
    <3>1. Event(p) = Snapshot(k, p[1], latest[k].seq + 1)
      BY <1>2, <1>3, <2>1 DEF Event
    <3>2. /\ latest[k].seq \in Nat /\ latest[k].seq + LeftOf(e) <= MaxUpdates + 1
      BY <2>1 DEF NumberInv, Numbered, Snapshots
    <3> QED
      BY <1>4, <3>1, <3>2 DEF Snapshot, ProgressAssumption
  <2>2. CASE ~(latest[k] # None /\ latest[k].exec = e)
    <3>1. Event(p) = Snapshot(k, p[1], 1)
      BY <1>2, <1>3, <2>2 DEF Event
    <3>2. LeftOf(e) <= MaxUpdates + 1
      BY DEF NumberInv
    <3> QED
      BY <1>4, <3>1, <3>2 DEF Snapshot, ProgressAssumption
  <2> QED
    BY <2>1, <2>2
<1>6. Event(p) \in Snapshots
  BY <1>1, <1>2, <1>4, <1>5 DEF Events, Snapshots, ProgressAssumption
<1>7. /\ \A q \in Publishers : Publishes(q)'
      /\ \A q \in Publishers \ {p} : pub'[q] = pub[q]
      /\ Left(p)' = Left(p) - 1
  <2>1. CASE End(p)
    BY <1>1, <2>1, EndNumbers
  <2>2. CASE pub' = [pub EXCEPT ![p].at = "call", ![p].call = Event(p)]
    <3>1. /\ pub'[p].at = "call" /\ pub'[p].left = pub[p].left /\ pub'[p].call = Event(p)
          /\ \A q \in Publishers \ {p} : pub'[q] = pub[q]
      BY <2>2 DEF HubInv, Shape
    <3>2. \A q \in Publishers \ {p} : Publishes(q)'
      BY <3>1 DEF NumberInv, Publishes
    <3>3. Publishes(p)'
      BY <1>1, <1>5, <1>6, <3>1 DEF NumberInv, Publishes
    <3>4. Left(p)' = Left(p) - 1
      BY <1>1, <3>1 DEF Left
    <3> QED
      BY <3>1, <3>2, <3>3, <3>4
  <2> QED
    BY <2>1, <2>2 DEF Commit
<1>8. \A x \in Execs : LeftOf(x)' = IF x = e THEN LeftOf(x) - 1 ELSE LeftOf(x)
  BY <1>1, <1>3, <1>4, <1>7, LeftMoves
<1>9. \A x \in Execs : LeftOf(x)' <= MaxUpdates + 1
  <2>1. \A x \in Execs : LeftOf(x) \in Nat /\ LeftOf(x) <= MaxUpdates + 1
    BY LeftTypes DEF NumberInv
  <2> QED
    BY <1>8, <2>1 DEF ProgressAssumption
<1>10. ASSUME NEW j \in Keys PROVE Numbered(j)'
  <2>1. latest'[j] = IF j = k THEN Event(p) ELSE latest[j]
    BY <1>1, <1>2 DEF HubInv, Shape
  <2>2. CASE j = k
    <3>1. LeftOf(e)' = LeftOf(e) - 1
      BY <1>8
    <3>2. latest'[j].exec = e
      BY <1>1, <1>3, <2>1, <2>2
    <3>3. latest'[j].seq + LeftOf(e)' <= MaxUpdates + 1
      BY <1>4, <1>5, <2>1, <2>2, <3>1 DEF ProgressAssumption
    <3> QED
      BY <1>5, <1>6, <2>1, <2>2, <3>2, <3>3 DEF Numbered
  <2>3. CASE j # k
    <3> SUFFICES ASSUME latest[j] # None, NEW x, x = latest[j].exec
                 PROVE  /\ latest[j] \in Snapshots /\ latest[j].key = j /\ latest[j].seq > 0
                        /\ latest[j].seq + LeftOf(x)' <= MaxUpdates + 1
      BY <2>1, <2>3 DEF Numbered
    <3>1. /\ latest[j] \in Snapshots /\ latest[j].key = j /\ latest[j].seq > 0
          /\ latest[j].seq + LeftOf(x) <= MaxUpdates + 1
      BY DEF NumberInv, Numbered
    <3>2. x \in Execs /\ latest[j].seq \in Nat
      BY <3>1 DEF Snapshots
    <3>3. LeftOf(x) \in Nat
      BY <3>2, LeftTypes
    <3> QED
      BY <1>8, <3>1, <3>2, <3>3 DEF ProgressAssumption
  <2> QED
    BY <2>2, <2>3
<1> QED
  BY <1>2, <1>5, <1>6, <1>7, <1>9, <1>10 DEF NumberInv

LEMMA CallNumbers ==
    ASSUME ProgressAssumption, HubInv, NumberInv, NEW p \in Publishers, Call(p)
    PROVE  NumberInv'
<1>1. /\ p[1] \in 1 .. Len(execs) /\ pub[p].at = "call" /\ pub[p].left > 0
      /\ End(p) /\ latest' = latest
  BY DEF Call, HubInv, Born, NumberInv, Publishes
<1>2. /\ \A q \in Publishers : Publishes(q)'
      /\ \A q \in Publishers \ {p} : pub'[q] = pub[q]
      /\ Left(p)' = Left(p)
  BY <1>1, EndNumbers
<1>3. \A e \in Execs : LeftOf(e)' = LeftOf(e)
  <2>1. Left(p)' = Left(p) - 0 /\ 0 <= Left(p) /\ 0 \in 0 .. 1
    BY <1>2, LeftTypes
  <2>2. \A e \in Execs : LeftOf(e)' = IF e = p[1] THEN LeftOf(e) - 0 ELSE LeftOf(e)
    BY <1>1, <1>2, <2>1, LeftMoves
  <2>3. \A e \in Execs : LeftOf(e) \in Nat
    BY LeftTypes
  <2> QED
    BY <2>2, <2>3
<1>4. ASSUME NEW k \in Keys PROVE Numbered(k)'
  <2> SUFFICES ASSUME latest[k] # None, NEW x, x = latest[k].exec
               PROVE  /\ latest[k] \in Snapshots /\ latest[k].key = k /\ latest[k].seq > 0
                      /\ latest[k].seq + LeftOf(x)' <= MaxUpdates + 1
    BY <1>1 DEF Numbered
  <2>1. /\ latest[k] \in Snapshots /\ latest[k].key = k /\ latest[k].seq > 0
        /\ latest[k].seq + LeftOf(x) <= MaxUpdates + 1
    BY DEF NumberInv, Numbered
  <2>2. x \in Execs
    BY <2>1 DEF Snapshots
  <2> QED
    BY <1>3, <2>1, <2>2
<1> QED
  BY <1>2, <1>3, <1>4 DEF NumberInv

LEMMA NumberStutter ==
    ASSUME UNCHANGED <<latest, pub>>, NumberInv
    PROVE  NumberInv'
BY DEF NumberInv, Publishes, Numbered, Left, LeftOf

LEMMA NumberStep ==
    ASSUME ProgressAssumption, HubInv, NumberInv, [Next]_vars
    PROVE  NumberInv'
<1>1. ASSUME NEW k \in Keys, Admit(k) PROVE NumberInv'
  BY <1>1, AdmitNumbers
<1>2. ASSUME NEW p \in Publishers, Publishing(p) PROVE NumberInv'
  BY <1>2, GuardNumbers, CommitNumbers, CallNumbers DEF Publishing
<1>3. CASE Connection
  BY <1>3, ConnectionLeavesHub, NumberStutter DEF hub
<1>4. CASE UNCHANGED vars
  BY <1>4, NumberStutter DEF vars
<1> QED
  BY <1>1, <1>2, <1>3, <1>4 DEF Next

-------------------------------------------------------------------------------
(* Types of the connection.                                                *)

LEMMA MaxOf ==
    ASSUME NEW n \in Nat, NEW S \in SUBSET (1 .. n), S # {}
    PROVE  \E i \in S : \A j \in S : j <= i
<1> DEFINE N == {m \in Nat : \A T \in SUBSET (1 .. m) :
                    T # {} => \E i \in T : \A j \in T : j <= i}
<1>1. 0 \in N
  <2>1. \A T \in SUBSET (1 .. 0) : T = {}
    OBVIOUS
  <2> QED
    BY <2>1
<1>2. ASSUME NEW m \in Nat, m \in N PROVE m + 1 \in N
  <2> SUFFICES ASSUME NEW T \in SUBSET (1 .. m + 1), T # {}
               PROVE  \E i \in T : \A j \in T : j <= i
    OBVIOUS
  <2>1. CASE m + 1 \in T
    BY <2>1
  <2>2. CASE m + 1 \notin T
    <3>1. T \in SUBSET (1 .. m)
      BY <2>2
    <3> QED
      BY <1>2, <3>1
  <2> QED
    BY <2>1, <2>2
<1>3. Nat \subseteq N
  <2> HIDE DEF N
  <2> QED
    BY <1>1, <1>2, NatSet
<1> QED
  BY <1>3

LEMMA NarrowSeq ==
    ASSUME NEW A, NEW B, NEW q \in Seq(A), \A x \in ToSet(q) : x \in B
    PROVE  q \in Seq(B)
<1>1. \A i \in 1 .. Len(q) : q[i] \in B
  BY SetOf
<1>2. Len(q) \in Nat /\ q = [i \in 1 .. Len(q) |-> q[i]]
  OBVIOUS
<1> HIDE DEF ToSet
<1> QED
  BY <1>1, <1>2

\* The last reading of a key.
\* LastRead, of any readings.
LastIn(r, k) ==
    LET places == {i \in DOMAIN r : r[i] # None /\ r[i].key = k}
    IN  IF places = {} THEN None
        ELSE r[CHOOSE i \in places : \A j \in places : j <= i]

LEMMA LastInFacts ==
    ASSUME NEW r \in Seq(Snapshots \cup {None}), NEW k
    PROVE  /\ LastIn(r, k) = None =>
                 \A i \in 1 .. Len(r) : r[i] # None => r[i].key # k
           /\ LastIn(r, k) # None =>
                 \E i \in 1 .. Len(r) :
                    /\ r[i] = LastIn(r, k) /\ r[i].key = k
                    /\ r[i] \in Snapshots
                    /\ \A j \in i + 1 .. Len(r) :
                          r[j] # None => r[j].key # k
<1> DEFINE P == {i \in DOMAIN r : r[i] # None /\ r[i].key = k}
<1>1. DOMAIN r = 1 .. Len(r) /\ Len(r) \in Nat
  OBVIOUS
<1>2. LastIn(r, k) = IF P = {} THEN None
                    ELSE r[CHOOSE i \in P : \A j \in P : j <= i]
  BY DEF LastIn
<1>3. CASE P = {}
  BY <1>1, <1>2, <1>3
<1>4. CASE P # {}
  <2>1. \E i \in P : \A j \in P : j <= i
    <3>1. P \in SUBSET (1 .. Len(r))
      BY <1>1
    <3> HIDE DEF P
    <3> QED
      BY <1>1, <1>4, <3>1, MaxOf
  <2>2. PICK i \in P : LastIn(r, k) = r[i] /\ \A j \in P : j <= i
    BY <1>2, <1>4, <2>1
  <2>3. i \in 1 .. Len(r) /\ r[i] # None /\ r[i].key = k
    BY <1>1, <2>2
  <2>4. r[i] \in Snapshots
    BY <1>1, <2>3
  <2>5. ASSUME NEW j \in i + 1 .. Len(r), r[j] # None PROVE r[j].key # k
    BY <1>1, <2>2, <2>3, <2>5
  <2> QED
    BY <2>2, <2>3, <2>4, <2>5
<1> QED
  BY <1>3, <1>4

LEMMA LastReadFacts ==
    ASSUME ConnShape, ProgressAssumption, NEW k \in Keys
    PROVE  /\ LastRead(k) = None =>
                 \A i \in 1 .. Len(conn.read) : conn.read[i] # None => conn.read[i].key # k
           /\ LastRead(k) # None =>
                 \E i \in 1 .. Len(conn.read) :
                    /\ conn.read[i] = LastRead(k) /\ conn.read[i].key = k
                    /\ conn.read[i] \in Snapshots
                    /\ \A j \in i + 1 .. Len(conn.read) :
                          conn.read[j] # None => conn.read[j].key # k
<1>1. LastRead(k) = LastIn(conn.read, k)
  BY DEF LastRead, LastIn
<1>2. conn.read \in Seq(Snapshots \cup {None})
  BY DEF ConnShape
<1> QED
  BY <1>1, <1>2, LastInFacts

LEMMA LastReadings ==
    ASSUME ConnShape, ProgressAssumption
    PROVE  Readings([k \in Keys |-> LastRead(k)])
<1>1. \A k \in Keys : LastRead(k) \in Snapshots \cup {None} /\
                      (LastRead(k) # None => LastRead(k).key = k)
  BY LastReadFacts
<1> QED
  BY <1>1 DEF Readings

\* The key the connection is reading.
LEMMA AskedKey ==
    ASSUME ProgressAssumption, ConnShape,
           (conn.at = "read" /\ Unread) \/ conn.at = "fallback"
    PROVE  /\ Asked \in Keys /\ Len(conn.read) + 1 \in 1 .. Len(conn.request)
           /\ Asked = conn.request[Len(conn.read) + 1]
           /\ conn.request \in Seq(Keys)
<1>1. conn.read \in Seq(Snapshots \cup {None}) /\ conn.request \in Seq(Keys)
  BY DEF ConnShape, ProgressAssumption
<1>2. Len(conn.read) < Len(conn.request)
  BY DEF ConnShape, Unread
<1> QED
  BY <1>1, <1>2 DEF Asked

LEMMA GotShape ==
    ASSUME ProgressAssumption, ConnShape,
           (conn.at = "read" /\ Unread) \/ conn.at = "fallback",
           NEW s \in Snapshots \cup {None}, s # None => s.key = Asked, Got(s)
    PROVE  ConnShape'
<1>1. /\ Asked \in Keys /\ Len(conn.read) + 1 \in 1 .. Len(conn.request)
      /\ Asked = conn.request[Len(conn.read) + 1]
  BY AskedKey
<1>2. /\ conn'.at = "read" /\ conn'.read = Append(conn.read, s)
      /\ conn'.request = conn.request /\ conn'.items = conn.items
      /\ conn'.tokens = conn.tokens /\ conn'.added = conn.added /\ conn'.asked = conn.asked /\ KeepsCount
      /\ conn' = [at |-> conn'.at, request |-> conn'.request, read |-> conn'.read,
                  items |-> conn'.items, tokens |-> conn'.tokens, added |-> conn'.added,
                  asked |-> conn'.asked, trying |-> conn'.trying,
                  attempt |-> conn'.attempt, refused |-> conn'.refused]
  BY DEF Got, ConnShape, KeepsCount
<1>3. /\ conn.read \in Seq(Snapshots \cup {None}) /\ conn.items = <<>>
      /\ conn.items \in Seq(Snapshots)
      /\ conn.request \in Requests \cup {<<>>} /\ conn.tokens \in SUBSET Keys
      /\ conn.added \in SUBSET Keys /\ conn.asked \in 0 .. MaxRequests
      /\ conn.trying \in SUBSET Keys /\ conn.attempt \in 0 .. MaxAttempts
      /\ conn.refused \in [Keys -> 0 .. MaxAttempts]
      /\ \A i \in 1 .. Len(conn.read) : conn.read[i] # None =>
            i <= Len(conn.request) /\ conn.read[i].key = conn.request[i]
  BY DEF ConnShape
<1>4. /\ conn'.read \in Seq(Snapshots \cup {None}) /\ Len(conn'.read) = Len(conn.read) + 1
      /\ \A i \in 1 .. Len(conn'.read) :
            conn'.read[i] = IF i = Len(conn.read) + 1 THEN s ELSE conn.read[i]
  BY <1>2, <1>3
<1>5. \A i \in 1 .. Len(conn'.read) : conn'.read[i] # None =>
         i <= Len(conn'.request) /\ conn'.read[i].key = conn'.request[i]
  BY <1>1, <1>2, <1>3, <1>4
<1>6. ConnShape!1'
  BY <1>2, <1>3, <1>4 DEF KeepsCount
<1>7. Len(conn'.read) <= Len(conn'.request)
  BY <1>1, <1>2, <1>4
<1> QED
  BY <1>2, <1>3, <1>5, <1>6, <1>7 DEF ConnShape, Live, Batch

LEMMA RegisterItems ==
    ASSUME ProgressAssumption, ConnShape, Register
    PROVE  conn'.items \in Seq(Snapshots)
<1> DEFINE S == ToSet(conn.read) \ {None}
           q == Keep(conn.read, S)
<1>1. conn.read \in Seq(Snapshots \cup {None})
  BY DEF ConnShape
<1>2. q \in Seq(Snapshots \cup {None}) /\ \A x \in ToSet(q) : x \in ToSet(conn.read) /\ x \in S
  <2> HIDE DEF S
  <2> QED
    BY <1>1, KeepSet
<1>3. conn'.items = q
  BY DEF Register, ConnShape
<1> HIDE DEF q
<1>4. \A x \in ToSet(q) : x \in Snapshots
  BY <1>1, <1>2, SetOf
<1>5. q \in Seq(Snapshots)
  BY <1>2, <1>4, NarrowSeq
<1> QED
  BY <1>3, <1>5

\* The fields of the connection after a step that changes some of them.
LEMMA ConnFields ==
    ASSUME ConnShape
    PROVE  /\ conn = [at |-> conn.at, request |-> conn.request, read |-> conn.read,
                      items |-> conn.items, tokens |-> conn.tokens, added |-> conn.added,
                      asked |-> conn.asked, trying |-> conn.trying,
                      attempt |-> conn.attempt, refused |-> conn.refused]
           /\ conn.request \in Requests \cup {<<>>} /\ conn.read \in Seq(Snapshots \cup {None})
           /\ conn.items \in Seq(Snapshots) /\ conn.tokens \in SUBSET Keys
           /\ conn.added \in SUBSET Keys /\ conn.asked \in 0 .. MaxRequests
           /\ conn.trying \in SUBSET Keys /\ conn.attempt \in 0 .. MaxAttempts
           /\ conn.refused \in [Keys -> 0 .. MaxAttempts]
           /\ \A i \in 1 .. Len(conn.read) :
                 conn.read[i] # None => i <= Len(conn.request) /\ conn.read[i].key = conn.request[i]
BY DEF ConnShape

\* Where only the place changes.
LEMMA GotoShape ==
    ASSUME ConnShape, NEW place, Goto(place),
           \/ place = "flush" /\ Waiting
           \/ place = "read" /\ conn.at = "subscribe"
           \/ place = "fallback" /\ conn.at = "read" /\ Unread
           \/ place = "rollback" \/ place = "close"
    PROVE  ConnShape'
<1>1. /\ conn'.at = place /\ conn'.read = conn.read
      /\ conn'.request = conn.request /\ conn'.items = conn.items
      /\ conn'.tokens = conn.tokens /\ conn'.added = conn.added /\ conn'.asked = conn.asked /\ KeepsCount
      /\ conn' = [at |-> conn'.at, request |-> conn'.request, read |-> conn'.read,
                  items |-> conn'.items, tokens |-> conn'.tokens, added |-> conn'.added,
                  asked |-> conn'.asked, trying |-> conn'.trying,
                  attempt |-> conn'.attempt, refused |-> conn'.refused]
  BY DEF Goto, ConnShape, KeepsCount
<1>2. ConnShape!1'
  BY <1>1, ConnFields DEF KeepsCount
<1>3. CASE place = "flush"
  BY <1>1, <1>2, <1>3 DEF ConnShape, Live, Batch, Waiting
<1>4. CASE place = "read"
  <2>1. conn.at = "subscribe"
    BY <1>4
  <2>2. conn'.at = "read" /\ conn'.items = <<>> /\ conn'.read = <<>> /\ conn.read = <<>>
    BY <1>1, <1>4, <2>1 DEF ConnShape
  <2>3. Len(conn'.read) <= Len(conn'.request) /\ Len(conn'.read) = 0
    BY <2>2, <1>1, ConnFields DEF ProgressAssumption
  <2> QED
    BY <1>1, <1>2, <2>2, <2>3 DEF ConnShape, Live, Batch
<1>5. CASE place = "fallback"
  BY <1>1, <1>2, <1>5 DEF ConnShape, Live, Batch, Unread
<1>6. CASE place = "rollback" \/ place = "close"
  BY <1>1, <1>2, <1>6 DEF ConnShape, Live, Batch
<1> QED
  BY <1>3, <1>4, <1>5, <1>6

LEMMA ConnShapeStep ==
    ASSUME ProgressAssumption, HubInv, ShapeInv, ConnInv', Connection
    PROVE  ConnShape'
<1> USE DEF ShapeInv
<1>0. <<>> \in Seq(Snapshots) /\ <<>> \in Seq(Snapshots \cup {None})
  OBVIOUS
<1>1. CASE Flush
  <2>1. buf.queue \in Seq(Snapshots)
    BY DEF BufShape, WellFormed, Buffers
  <2>2. conn' = [conn EXCEPT !.at = "receive", !.items = buf.queue] /\ conn.at = "flush"
    BY <1>1 DEF Flush
  <2> QED
    BY <2>1, <2>2 DEF ConnShape, Live, Batch
<1>2. CASE Send
  <2>1. /\ conn' = [conn EXCEPT !.items = Tail(@)] /\ conn.at \in {"receive", "sending"}
        /\ Tail(conn.items) \in Seq(Snapshots)
    BY <1>2 DEF Send, ConnShape
  <2> QED
    BY <2>1 DEF ConnShape, Live, Batch
<1>3. CASE Poll \/ Disconnect
  BY <1>3, GotoShape DEF Poll, Disconnect
<1>4. ASSUME NEW r \in Requests, Ask(r) PROVE ConnShape'
  <2>1. /\ conn' = [conn EXCEPT !.at = "subscribe", !.asked = @ + 1, !.request = r]
        /\ conn.at = "receive" /\ conn.items = <<>> /\ conn.asked < MaxRequests
    BY <1>4 DEF Ask, Waiting
  <2>2. conn.read = <<>> /\ conn.asked + 1 \in 0 .. MaxRequests
    BY <2>1 DEF ConnShape, Live, Batch, ProgressAssumption
  <2>3. /\ conn'.at = "subscribe" /\ conn'.read = <<>> /\ conn'.items = <<>>
        /\ conn'.request = r /\ conn'.tokens = conn.tokens /\ conn'.added = conn.added
        /\ conn'.asked = conn.asked + 1 /\ KeepsCount
        /\ conn' = [at |-> conn'.at, request |-> conn'.request, read |-> conn'.read,
                    items |-> conn'.items, tokens |-> conn'.tokens, added |-> conn'.added,
                    asked |-> conn'.asked, trying |-> conn'.trying,
                  attempt |-> conn'.attempt, refused |-> conn'.refused]
    BY <2>1, <2>2 DEF ConnShape, KeepsCount
  <2>4. ConnShape!1'
    BY <1>0, <1>4, <2>2, <2>3, ConnFields DEF KeepsCount
  <2> QED
    <3>1. /\ Live' /\ Batch' /\ conn'.at \notin {"read", "fallback", "sending"}
          /\ conn'.read = <<>> /\ conn'.items = <<>>
      BY <2>3 DEF Live, Batch
    <3>2. \A i \in 1 .. Len(conn'.read) : conn'.read[i] # None =>
             i <= Len(conn'.request) /\ conn'.read[i].key = conn'.request[i]
      BY <3>1
    <3> QED
      BY <2>4, <3>1, <3>2 DEF ConnShape
<1>5. CASE Subscribe
  <2>1. PICK i \in DOMAIN conn.request :
           conn' = [conn EXCEPT !.added = @ \cup {conn.request[i]}] /\ conn.at = "subscribe"
    BY <1>5 DEF Subscribe
  <2>2. conn.request[i] \in Keys
    BY <2>1 DEF ConnShape, ProgressAssumption
  <2> QED
    BY <2>1, <2>2 DEF ConnShape, Live, Batch
<1>6. CASE Subscribed
  BY <1>6, GotoShape DEF Subscribed
<1>7. CASE ReadHub
  <2>1. Asked \in Keys
    BY <1>7, AskedKey DEF ReadHub
  <2>2. CASE latest[Asked] # None
    <3>1. latest[Asked] \in Snapshots /\ latest[Asked].key = Asked
      BY <2>1, <2>2 DEF NumberInv, Numbered
    <3> QED
      BY <1>7, <2>2, <3>1, GotShape DEF ReadHub
  <2>3. CASE latest[Asked] = None
    BY <1>7, <2>3, GotoShape DEF ReadHub
  <2> QED
    BY <2>2, <2>3
<1>8. CASE ReadTask
  <2>1. Asked \in Keys
    BY <1>8, AskedKey DEF ReadTask
  <2>2. CASE owner[Asked] # 0
    <3>1. owner[Asked] \in Execs
      BY <2>1, <2>2 DEF HubInv, Shape, Owning, Execs
    <3>2. Snapshot(Asked, owner[Asked], 0) \in Snapshots
      BY <2>1, <3>1 DEF Snapshot, Snapshots, ProgressAssumption
    <3>3. Snapshot(Asked, owner[Asked], 0).key = Asked
      BY DEF Snapshot
    <3> QED
      BY <1>8, <2>2, <3>2, <3>3, GotShape DEF ReadTask
  <2>3. CASE owner[Asked] = 0
    BY <1>8, <2>3, GotShape DEF ReadTask
  <2> QED
    BY <2>2, <2>3
<1>9. CASE Register
  <2>1. conn'.items \in Seq(Snapshots)
    BY <1>9, RegisterItems
  <2>2. /\ conn.at = "read" /\ ~(Len(conn.read) < Len(conn.request))
        /\ conn'.at = "sending" /\ conn'.read = conn.read
        /\ conn'.request = conn.request /\ conn'.tokens = conn.tokens \cup conn.added
        /\ conn'.added = conn.added /\ conn'.asked = conn.asked /\ KeepsCount
        /\ conn' = [at |-> conn'.at, request |-> conn'.request, read |-> conn'.read,
                    items |-> conn'.items, tokens |-> conn'.tokens, added |-> conn'.added,
                    asked |-> conn'.asked, trying |-> conn'.trying,
                  attempt |-> conn'.attempt, refused |-> conn'.refused]
    BY <1>9 DEF Register, Unread, ConnShape, KeepsCount
  <2>3. Len(conn.read) = Len(conn.request)
    BY <2>2, ConnFields DEF ConnShape, ProgressAssumption
  <2>4. ConnShape!1'
    BY <2>1, <2>2, ConnFields DEF KeepsCount
  <2> QED
    BY <2>2, <2>3, <2>4 DEF ConnShape, Live, Batch
<1>10. CASE Complete
  <2>1. /\ conn' = [conn EXCEPT !.at = "flush", !.request = <<>>, !.read = <<>>, !.added = {}]
        /\ conn.items = <<>>
    BY <1>10 DEF Complete
  <2>2. /\ conn'.at = "flush" /\ conn'.read = <<>> /\ conn'.items = <<>>
        /\ conn'.request = <<>> /\ conn'.tokens = conn.tokens /\ conn'.added = {}
        /\ conn'.asked = conn.asked /\ KeepsCount
        /\ conn' = [at |-> conn'.at, request |-> conn'.request, read |-> conn'.read,
                    items |-> conn'.items, tokens |-> conn'.tokens, added |-> conn'.added,
                    asked |-> conn'.asked, trying |-> conn'.trying,
                  attempt |-> conn'.attempt, refused |-> conn'.refused]
    BY <2>1 DEF ConnShape, KeepsCount
  <2>3. ConnShape!1'
    BY <1>0, <2>2, ConnFields DEF KeepsCount
  <2> QED
    BY <2>2, <2>3, ConnFields DEF ConnShape, Live, Batch
<1>11. CASE SubscribeFails
  BY <1>11, GotoShape DEF SubscribeFails
<1>12. CASE SendFails
  <2>1. conn' = [conn EXCEPT !.at = "close", !.added = {}]
    BY <1>12 DEF SendFails
  <2>2. /\ conn'.at = "close" /\ conn'.read = conn.read /\ conn'.items = conn.items
        /\ conn'.request = conn.request /\ conn'.tokens = conn.tokens /\ conn'.added = {}
        /\ conn'.asked = conn.asked /\ KeepsCount
        /\ conn' = [at |-> conn'.at, request |-> conn'.request, read |-> conn'.read,
                    items |-> conn'.items, tokens |-> conn'.tokens, added |-> conn'.added,
                    asked |-> conn'.asked, trying |-> conn'.trying,
                    attempt |-> conn'.attempt, refused |-> conn'.refused]
    BY <2>1 DEF ConnShape, KeepsCount
  <2>3. ConnShape!1'
    BY <1>0, <2>2, ConnFields DEF KeepsCount
  <2> QED
    BY <2>2, <2>3, ConnFields DEF ConnShape, Live, Batch
<1>13. CASE RolledBack
  BY <1>13, GotoShape DEF RolledBack
\* Steps that release: what they count is typed by ConnInv.
<1>14. CASE Close \/ Rollback \/ Release \/ Retry \/ Leave
  <2>1. /\ conn'.at \in {"rollback", "release", "gone"} /\ conn'.asked = conn.asked
        /\ conn'.request \in {conn.request, <<>>} /\ conn'.read \in {conn.read, <<>>}
        /\ conn'.items \in {conn.items, <<>>}
        /\ \A i \in 1 .. Len(conn'.read) : conn'.read[i] # None =>
              i <= Len(conn'.request) /\ conn'.read[i].key = conn'.request[i]
        /\ conn' = [at |-> conn'.at, request |-> conn'.request, read |-> conn'.read,
                    items |-> conn'.items, tokens |-> conn'.tokens, added |-> conn'.added,
                    asked |-> conn'.asked, trying |-> conn'.trying,
                    attempt |-> conn'.attempt, refused |-> conn'.refused]
    <3>1. CASE Close
      <4>1. conn' = [conn EXCEPT !.at = "release", !.request = <<>>, !.read = <<>>, !.items = <<>>,
                                 !.trying = conn.tokens, !.attempt = 1]
        BY <3>1 DEF Close
      <4>2. /\ conn'.at = "release" /\ conn'.asked = conn.asked /\ conn'.request = <<>>
            /\ conn'.read = <<>> /\ conn'.items = <<>>
            /\ conn' = [at |-> conn'.at, request |-> conn'.request, read |-> conn'.read,
                        items |-> conn'.items, tokens |-> conn'.tokens, added |-> conn'.added,
                        asked |-> conn'.asked, trying |-> conn'.trying,
                        attempt |-> conn'.attempt, refused |-> conn'.refused]
        BY <4>1, ConnFields
      <4> QED
        BY <4>2
    <3>2. CASE Rollback
      BY <3>2 DEF Rollback, ConnShape
    <3>3. CASE Release
      BY <3>3 DEF Release, ConnShape
    <3>4. CASE Retry \/ Leave
      BY <3>4 DEF Retry, Leave, Tried, Goto, ConnShape
    <3> QED
      BY <1>14, <3>1, <3>2, <3>3, <3>4
  <2>2. /\ conn'.tokens \in SUBSET Keys /\ conn'.added \in SUBSET Keys
        /\ conn'.trying \in SUBSET Keys /\ conn'.attempt \in 0 .. MaxAttempts
        /\ conn'.refused \in [Keys -> 0 .. MaxAttempts]
    BY DEF ConnInv, Holding, Releasing
  <2>3. ConnShape!1'
    BY <1>0, <2>1, <2>2, ConnFields
  <2> QED
    BY <2>1, <2>3 DEF ConnShape, Live, Batch
<1> QED
  BY <1>1, <1>2, <1>3, <1>4, <1>5, <1>6, <1>7, <1>8, <1>9, <1>10, <1>11, <1>12, <1>13, <1>14
     DEF Connection

\* A connection that leaves does not come back.
LEMMA LeavingEnds ==
    ASSUME ConnShape, Leaving
    PROVE  ~Live'
<1>1. conn'.at \in {"rollback", "close", "release", "gone"}
  <2>1. CASE SubscribeFails \/ RolledBack \/ Disconnect
    BY <2>1 DEF SubscribeFails, RolledBack, Disconnect, Goto, ConnShape
  <2>2. CASE Rollback \/ SendFails
    BY <2>2 DEF Rollback, SendFails, ConnShape
  <2>3. CASE Close \/ Release \/ Retry \/ Leave
    BY <2>3 DEF Close, Release, Retry, Leave, Tried, Goto, ConnShape
  <2> QED
    BY <2>1, <2>2, <2>3 DEF Leaving
<1> QED
  BY <1>1 DEF Live, Batch

\* What empties the buffer or moves its barrier keeps it well formed.
LEMMA BufferMoves ==
    ASSUME ProgressAssumption, NEW b, WellFormed(b)
    PROVE  /\ WellFormed(BeginBatch(b)) /\ WellFormed(AbortBatch(b))
           /\ WellFormed(CloseBuffer(b)) /\ WellFormed([b EXCEPT !.queue = <<>>])
<1>1. /\ <<>> \in Seq(Snapshots) /\ Len(<<>>) = 0 /\ OnePerKey(<<>>) /\ ToSet(<<>>) = {}
  BY EmptySet DEF OnePerKey
<1>2. /\ b.capacity \in Capacities /\ b.capacity \in Nat \ {0} /\ b.closed \in BOOLEAN
      /\ b.batch \in BOOLEAN /\ b.queue \in Seq(Snapshots) /\ b.pending \in Seq(Snapshots)
      /\ b.mark \in [Keys -> Snapshots \cup {None}]
      /\ b.dropped \in [Keys -> Snapshots \cup {None}]
      /\ b = [capacity |-> b.capacity, closed |-> b.closed, batch |-> b.batch,
              queue |-> b.queue, pending |-> b.pending, mark |-> b.mark,
              dropped |-> b.dropped]
  BY DEF WellFormed, Buffers, ProgressAssumption
<1>3. WellFormed(BeginBatch(b))
  <2> DEFINE f == BeginBatch(b)
  <2>1. /\ f.capacity = b.capacity /\ f.closed = b.closed /\ f.batch = TRUE
        /\ f.queue = b.queue /\ f.pending = b.pending
        /\ f.mark = b.mark /\ f.dropped = b.dropped
        /\ f \in Buffers
    BY <1>1 DEF BeginBatch, WellFormed, Buffers
  <2> HIDE DEF f
  <2>2. WellFormed(f)
    BY <1>1, <1>2, <2>1 DEF WellFormed
  <2> QED
    BY <2>2 DEF f
<1>4. WellFormed(AbortBatch(b))
  <2> DEFINE f == AbortBatch(b)
  <2>1. /\ f.capacity = b.capacity /\ f.closed = b.closed /\ f.batch = FALSE
        /\ f.queue = b.queue /\ f.pending = <<>>
        /\ f.mark = b.mark /\ f.dropped = b.dropped
        /\ f \in Buffers
    BY <1>1 DEF AbortBatch, WellFormed, Buffers
  <2> HIDE DEF f
  <2>2. WellFormed(f)
    BY <1>1, <1>2, <2>1 DEF WellFormed
  <2> QED
    BY <2>2 DEF f
<1>5. WellFormed(CloseBuffer(b))
  <2>1. Clear \in [Keys -> Snapshots \cup {None}] /\ \A k \in Keys : Clear[k] = None
    BY DEF Clear
  <2>2. CloseBuffer(b) = [capacity |-> b.capacity, closed |-> TRUE, batch |-> FALSE,
                          queue |-> <<>>, pending |-> <<>>, mark |-> Clear,
                          dropped |-> Clear]
    BY DEF CloseBuffer
  <2> QED
    BY <1>1, <1>2, <2>1, <2>2 DEF WellFormed, Buffers
<1>6. WellFormed([b EXCEPT !.queue = <<>>])
  <2>1. [b EXCEPT !.queue = <<>>] =
           [capacity |-> b.capacity, closed |-> b.closed, batch |-> b.batch,
            queue |-> <<>>, pending |-> b.pending, mark |-> b.mark, dropped |-> b.dropped]
    BY DEF WellFormed, Buffers
  <2> DEFINE f == [b EXCEPT !.queue = <<>>]
  <2>2. /\ f.capacity = b.capacity /\ f.queue = <<>> /\ f.pending = b.pending
        /\ f.mark = b.mark /\ f.dropped = b.dropped
        /\ f \in Buffers
    BY <1>1, <1>2, <2>1 DEF Buffers
  <2> HIDE DEF f
  <2>3. WellFormed(f)
    BY <1>1, <1>2, <2>2 DEF WellFormed
  <2> QED
    BY <2>3 DEF f
<1> QED
  BY <1>3, <1>4, <1>5, <1>6

\* The fields of a buffer that well-formedness types.
LEMMA BufFields ==
    ASSUME ProgressAssumption, NEW b, WellFormed(b)
    PROVE  /\ b.capacity \in Nat \ {0} /\ b.queue \in Seq(Snapshots)
           /\ b.pending \in Seq(Snapshots)
           /\ b.mark \in [Keys -> Snapshots \cup {None}]
           /\ b.dropped \in [Keys -> Snapshots \cup {None}]
           /\ ToSet(b.queue) \subseteq Snapshots /\ ToSet(b.pending) \subseteq Snapshots
           /\ BeginBatch(b).mark = b.mark /\ BeginBatch(b).queue = b.queue
           /\ BeginBatch(b).pending = b.pending /\ BeginBatch(b).dropped = b.dropped
           /\ BeginBatch(b).closed = b.closed /\ BeginBatch(b).capacity = b.capacity
           /\ BeginBatch(b).batch = TRUE
           /\ AbortBatch(b).closed = b.closed
           /\ LET f == [b EXCEPT !.queue = <<>>] IN
              /\ f.mark = b.mark /\ f.queue = <<>> /\ f.pending = b.pending
              /\ f.dropped = b.dropped /\ f.closed = b.closed /\ f.capacity = b.capacity
              /\ f.batch = b.batch
<1>1. /\ b.capacity \in Nat \ {0} /\ b.queue \in Seq(Snapshots)
      /\ b.pending \in Seq(Snapshots)
      /\ b.mark \in [Keys -> Snapshots \cup {None}]
      /\ b.dropped \in [Keys -> Snapshots \cup {None}]
  BY DEF WellFormed, Buffers, ProgressAssumption
<1>2. ToSet(b.queue) \subseteq Snapshots /\ ToSet(b.pending) \subseteq Snapshots
  BY <1>1, SetOf
<1>3. b \in Buffers
  BY DEF WellFormed
<1> QED
  BY <1>1, <1>2, <1>3 DEF Buffers, BeginBatch, AbortBatch

\* What a call leaves of the buffer's shape.
LEMMA PublishShape ==
    ASSUME ProgressAssumption, NEW b, WellFormed(b), NEW s \in Snapshots, s.seq > 0
    PROVE  LET c == Publish(b, s) IN
           /\ WellFormed(c)
           /\ c.capacity = b.capacity /\ c.closed = b.closed /\ c.batch = b.batch
           /\ b.closed => c = b
           /\ ~b.closed /\ b.batch => c = OfferPending(b, s)
           /\ ~b.closed /\ ~b.batch => c = OfferQueue(b, s) /\ c.pending = b.pending
<1>1. b.closed \in BOOLEAN /\ b.batch \in BOOLEAN
  BY DEF WellFormed, Buffers
<1>2. CASE b.closed
  BY <1>2 DEF Publish
<1>3. CASE ~b.closed /\ b.batch
  <2> DEFINE c == OfferPending(b, s)
  <2>1. Publish(b, s) = c
    BY <1>3 DEF Publish
  <2>2. WellFormed(c) /\ c.capacity = b.capacity /\ c.closed = b.closed /\ c.batch = b.batch
    BY OfferPendingFacts
  <2> QED
    BY <1>3, <2>1, <2>2
<1>4. CASE ~b.closed /\ ~b.batch
  <2> DEFINE c == OfferQueue(b, s)
  <2>1. Publish(b, s) = c
    BY <1>4 DEF Publish
  <2>2. /\ WellFormed(c) /\ c.capacity = b.capacity /\ c.closed = b.closed
        /\ c.batch = b.batch /\ c.pending = b.pending
    BY OfferQueueFacts
  <2> QED
    BY <1>4, <2>1, <2>2
<1> QED
  BY <1>1, <1>2, <1>3, <1>4

LEMMA CompleteShape ==
    ASSUME ProgressAssumption, ConnShape, BufShape, Complete
    PROVE  /\ WellFormed(buf')
           /\ buf'.capacity = buf.capacity /\ buf'.closed = buf.closed
           /\ buf'.batch = FALSE /\ buf'.pending = <<>>
<1> DEFINE read == [k \in Keys |-> LastRead(k)]
           q == Fresh(buf.pending, read)
<1>1. WellFormed(buf) /\ Readings(read)
  BY LastReadings DEF BufShape
<1>2. buf' = FinishBatch(buf, read)
  BY DEF Complete
<1>3. q \in Seq(Snapshots)
  BY <1>1, FreshFacts
<1> HIDE DEF read
<1>4. PICK f : /\ f[0] = Opened(buf, read)
               /\ \A n \in Nat : n < Len(q) =>
                     f[n + 1] = OfferQueue(f[n], q[n + 1]) /\ q[n + 1] \in ToSet(buf.pending)
                     /\ q[n + 1] \in Snapshots /\ q[n + 1].seq > 0
               /\ \A n \in Nat : n <= Len(q) =>
                     /\ WellFormed(f[n])
                     /\ f[n].capacity = buf.capacity /\ f[n].closed = buf.closed
                     /\ f[n].batch = FALSE /\ f[n].pending = <<>>
               /\ FinishBatch(buf, read) = f[Len(q)]
  BY <1>1, FinishLoop
<1>5. Len(q) \in Nat /\ Len(q) <= Len(q)
  BY <1>3
<1> QED
  BY <1>2, <1>4, <1>5

LEMMA BufShapeStep ==
    ASSUME ProgressAssumption, ShapeInv, Connection
    PROVE  BufShape'
<1> USE DEF ShapeInv
<1>1. /\ WellFormed(buf)
      /\ Live => buf.closed = FALSE /\ buf.batch = Batch
      /\ Live /\ ~Batch => buf.pending = <<>>
      /\ conn \in [at : {"flush", "receive", "subscribe", "read", "fallback", "sending",
                         "rollback", "close", "release", "gone"},
                   request : Requests \cup {<<>>}, read : Seq(Snapshots \cup {None}),
                   items : Seq(Snapshots), tokens : SUBSET Keys, added : SUBSET Keys,
                   asked : 0 .. MaxRequests, trying : SUBSET Keys,
                   attempt : 0 .. MaxAttempts, refused : [Keys -> 0 .. MaxAttempts]]
  BY DEF BufShape, ConnShape
<1>2. CASE UNCHANGED buf /\ (Live' => Live) /\ (Live' => Batch' = Batch)
  <2>1. /\ WellFormed(buf')
        /\ Live' => buf'.closed = FALSE /\ buf'.batch = Batch'
        /\ Live' /\ ~Batch' => buf'.pending = <<>>
    BY <1>1, <1>2
  <2> QED
    BY <2>1 DEF BufShape
<1>3. CASE Send \/ Poll \/ Subscribe \/ Subscribed \/ ReadHub \/ ReadTask \/ Register
           \/ Disconnect
  <2>1. UNCHANGED buf
    BY <1>3 DEF Send, Poll, Subscribe, Subscribed, ReadHub, ReadTask, Register, Disconnect
  <2>2. \/ conn'.at = conn.at
        \/ conn.at = "receive" /\ conn'.at \in {"flush", "close"}
        \/ conn.at \in {"subscribe", "read", "fallback"}
              /\ conn'.at \in {"subscribe", "read", "fallback", "sending"}
    <3>1. CASE Send
      BY <1>1, <3>1 DEF Send
    <3>2. CASE Poll \/ Disconnect
      BY <1>1, <3>2 DEF Poll, Disconnect, Goto, Waiting
    <3>3. CASE Subscribe
      BY <1>1, <3>3 DEF Subscribe
    <3>4. CASE Subscribed \/ Register
      BY <1>1, <3>4 DEF Subscribed, Register, Goto
    <3>5. CASE ReadHub \/ ReadTask
      BY <1>1, <3>5 DEF ReadHub, ReadTask, Goto, Got
    <3> QED
      BY <1>3, <3>1, <3>2, <3>3, <3>4, <3>5
  <2>3. (Live' => Live) /\ (Live' => Batch' = Batch)
    BY <2>2 DEF Live, Batch
  <2> QED
    BY <1>2, <2>1, <2>3
<1>4. CASE Rollback \/ RolledBack \/ Release \/ Retry \/ Leave \/ (SendFails /\ UNCHANGED buf)
  <2>1. UNCHANGED buf
    BY <1>4 DEF Rollback, RolledBack, Release, Retry, Leave
  <2>2. ~Live'
    BY <1>4, LeavingEnds DEF Leaving
  <2> QED
    BY <1>2, <2>1, <2>2
<1>5. CASE Flush
  <2>1. buf' = [buf EXCEPT !.queue = <<>>] /\ conn.at = "flush" /\ conn'.at = "receive"
    BY <1>1, <1>5 DEF Flush
  <2>2. /\ WellFormed(buf') /\ buf'.closed = buf.closed /\ buf'.batch = buf.batch
        /\ buf'.pending = buf.pending
    BY <1>1, <2>1, BufferMoves, BufFields
  <2> QED
    BY <1>1, <2>1, <2>2 DEF BufShape, Live, Batch
<1>6. ASSUME NEW r \in Requests, Ask(r) PROVE BufShape'
  <2>1. buf' = BeginBatch(buf) /\ conn.at = "receive" /\ conn'.at = "subscribe"
    BY <1>1, <1>6 DEF Ask, Waiting
  <2>2. WellFormed(buf') /\ buf'.closed = buf.closed /\ buf'.batch = TRUE
    BY <1>1, <2>1, BufferMoves, BufFields
  <2> QED
    BY <1>1, <2>1, <2>2 DEF BufShape, Live, Batch
<1>7. CASE Complete
  <2>1. /\ WellFormed(buf') /\ buf'.closed = buf.closed
        /\ buf'.batch = FALSE /\ buf'.pending = <<>>
    BY <1>7, CompleteShape
  <2>2. conn.at = "sending" /\ conn'.at = "flush"
    BY <1>1, <1>7 DEF Complete
  <2>3. Live /\ Batch' = FALSE
    BY <2>2 DEF Live, Batch
  <2>4. buf'.closed = FALSE /\ buf'.batch = Batch'
    BY <1>1, <2>1, <2>3
  <2> QED
    BY <2>1, <2>4 DEF BufShape
<1>8. CASE SubscribeFails \/ (SendFails /\ buf' = AbortBatch(buf))
  <2>1. buf' = AbortBatch(buf) /\ conn'.at \in {"rollback", "close"}
    BY <1>1, <1>8 DEF SubscribeFails, SendFails, Goto
  <2>2. WellFormed(buf') /\ ~Live'
    BY <1>1, <2>1, BufferMoves DEF Live, Batch
  <2> QED
    BY <2>2 DEF BufShape
<1>9. CASE Close
  <2>1. buf' = CloseBuffer(buf) /\ conn'.at = "release"
    BY <1>1, <1>9 DEF Close
  <2>2. WellFormed(buf') /\ ~Live'
    BY <1>1, <2>1, BufferMoves DEF Live, Batch
  <2> QED
    BY <2>2 DEF BufShape
<1> QED
  BY <1>3, <1>4, <1>5, <1>6, <1>7, <1>8, <1>9 DEF Connection, SendFails

\* Before a call nothing but the hub and the publishers moves.
LEMMA QuietSteps ==
    ASSUME (\E k \in Keys : Admit(k)) \/ (\E p \in Publishers : Guard(p) \/ Commit(p))
    PROVE  UNCHANGED <<buf, conn, shown, seen, overtaken, subscribed>>
BY DEF Admit, Guard, Commit, client, history

\* Admissions and guards leave the hub and the calls under way as they are.
LEMMA NoNewCall ==
    ASSUME ProgressAssumption, HubInv,
           (\E k \in Keys : Admit(k)) \/ (\E p \in Publishers : Guard(p))
    PROVE  /\ latest' = latest
           /\ \A q \in Publishers : /\ pub'[q].at = "call" <=> pub[q].at = "call"
                                    /\ pub[q].at = "call" => pub'[q].call = pub[q].call
<1>1. ASSUME NEW k \in Keys, Admit(k)
      PROVE  /\ latest' = latest
             /\ \A q \in Publishers : /\ pub'[q].at = "call" <=> pub[q].at = "call"
                                      /\ pub[q].at = "call" => pub'[q].call = pub[q].call
  BY <1>1, AdmitPublishers DEF Admit
<1>2. ASSUME NEW p \in Publishers, Guard(p)
      PROVE  /\ latest' = latest
             /\ \A q \in Publishers : /\ pub'[q].at = "call" <=> pub[q].at = "call"
                                      /\ pub[q].at = "call" => pub'[q].call = pub[q].call
  <2>1. /\ \A q \in Publishers \ {p} : pub'[q] = pub[q]
        /\ pub'[p].at # "call" /\ pub[p].at = "idle" /\ latest' = latest
    <3>1. CASE Refused(p) \/ Raises(p)
      BY <1>2, <3>1 DEF Refused, Raises, End, Guard, HubInv, Shape
    <3>2. CASE Allowed(p)
      BY <1>2, <3>2 DEF Allowed, Guard, HubInv, Shape
    <3> QED
      BY <1>2, <3>1, <3>2 DEF Guard
  <2> QED
    BY <2>1
<1> QED
  BY <1>1, <1>2

\* A commit replaces the latest event of its key and calls with it, if at all.
LEMMA CommitCalls ==
    ASSUME ProgressAssumption, HubInv, NumberInv, NEW p \in Publishers, Commit(p)
    PROVE  LET k == Key(p) s == Event(p) IN
           /\ k \in Keys /\ s \in Snapshots /\ s.key = k /\ s.seq > 0
           /\ \A j \in Keys : latest'[j] = IF j = k THEN s ELSE latest[j]
           /\ \A q \in Publishers \ {p} : pub'[q] = pub[q]
           /\ pub[p].at # "call"
           /\ IF k \in subscribed THEN pub'[p].at = "call" /\ pub'[p].call = s
                                  ELSE pub'[p].at # "call"
           /\ latest[k] # None =>
                 s.exec > latest[k].exec \/ (s.exec = latest[k].exec /\ s.seq > latest[k].seq)
<1>1. p[1] \in 1 .. Len(execs)
  BY DEF Commit, HubInv, Born
<1>2. /\ Event(p).exec = p[1] /\ Key(p) \in Keys
      /\ Event(p) \in Snapshots /\ Event(p).key = Key(p) /\ Event(p).seq > 0
      /\ latest' = [latest EXCEPT ![Key(p)] = Event(p)]
      /\ latest[Key(p)] # None => latest[Key(p)].exec <= p[1]
  BY <1>1, EventOf, CommitNumbers, CommitKeepsHub
<1>3. \A j \in Keys : latest'[j] = IF j = Key(p) THEN Event(p) ELSE latest[j]
  BY <1>2 DEF HubInv, Shape
<1>4. /\ \A q \in Publishers \ {p} : pub'[q] = pub[q]
      /\ pub[p].at # "call"
      /\ IF Key(p) \in subscribed THEN pub'[p].at = "call" /\ pub'[p].call = Event(p)
                                  ELSE pub'[p].at # "call"
  <2>1. CASE Key(p) \in subscribed
    BY <2>1 DEF Commit, HubInv, Shape
  <2>2. CASE Key(p) \notin subscribed
    BY <2>2 DEF Commit, End, HubInv, Shape
  <2> QED
    BY <2>1, <2>2
<1>5. ASSUME latest[Key(p)] # None
      PROVE  \/ Event(p).exec > latest[Key(p)].exec
             \/ /\ Event(p).exec = latest[Key(p)].exec
                /\ Event(p).seq > latest[Key(p)].seq
  <2>1. latest[Key(p)] \in Snapshots
    BY <1>2, <1>5 DEF NumberInv, Numbered
  <2>2. latest[Key(p)].seq \in Nat /\ latest[Key(p)].exec \in Nat /\ p[1] \in Nat
    BY <1>1, <2>1 DEF Snapshots, Execs, HubInv, Shape
  <2>3. CASE latest[Key(p)].exec = p[1]
    <3>1. Event(p) = Snapshot(Key(p), p[1], latest[Key(p)].seq + 1)
      BY <1>5, <2>3 DEF Event
    <3> QED
      BY <1>2, <2>2, <2>3, <3>1 DEF Snapshot
  <2>4. CASE latest[Key(p)].exec # p[1]
    BY <1>2, <1>5, <2>2, <2>4
  <2> QED
    BY <2>3, <2>4
<1> QED
  BY <1>2, <1>3, <1>4, <1>5

LEMMA HandedFacts ==
    ASSUME ProgressAssumption, ViewShape, NEW s \in Snapshots, Handed(s)
    PROVE  /\ seen' \in [Keys -> 0 .. MaxExecs] /\ overtaken' \subseteq Keys
           /\ overtaken \subseteq overtaken'
           /\ \A k \in Keys : seen'[k] >= seen[k]
           /\ seen'[s.key] >= s.exec
           /\ s.key \notin overtaken' => s.exec >= seen[s.key]
<1>1. /\ s.key \in Keys /\ s.exec \in 1 .. MaxExecs /\ MaxExecs \in Nat
      /\ seen \in [Keys -> 0 .. MaxExecs] /\ overtaken \subseteq Keys
  BY DEF Snapshots, Execs, ViewShape, ProgressAssumption
<1>2. /\ seen' = [seen EXCEPT ![s.key] = IF s.exec > @ THEN s.exec ELSE @]
      /\ overtaken' = overtaken \cup (IF s.exec < seen[s.key] THEN {s.key} ELSE {})
  BY DEF Handed
<1>3. /\ seen' \in [Keys -> 0 .. MaxExecs]
      /\ \A k \in Keys : seen'[k] = IF k = s.key /\ s.exec > seen[k] THEN s.exec ELSE seen[k]
  BY <1>1, <1>2
<1>4. overtaken' \subseteq Keys /\ overtaken \subseteq overtaken'
  BY <1>1, <1>2
<1>5. s.key \notin overtaken' => s.exec >= seen[s.key]
  BY <1>1, <1>2
<1> QED
  BY <1>1, <1>3, <1>4, <1>5

\* A call hands its event to the buffer.
LEMMA CallFacts ==
    ASSUME ProgressAssumption, HubInv, ShapeInv, NEW p \in Publishers, Call(p)
    PROVE  LET s == pub[p].call IN
           /\ s \in Snapshots /\ s.seq > 0 /\ pub[p].at = "call"
           /\ buf' = Publish(buf, s)
           /\ UNCHANGED <<conn, shown, latest, subscribed, failed>>
           /\ \A q \in Publishers \ {p} : pub'[q] = pub[q]
           /\ pub'[p].at # "call"
           /\ IF buf.closed THEN UNCHANGED <<seen, overtaken>> ELSE Handed(s)
<1>1. pub[p].call \in Snapshots /\ pub[p].call.seq > 0 /\ pub[p].at = "call"
  BY DEF Call, ShapeInv, NumberInv, Publishes
<1>2. pub'[p].at # "call" /\ \A q \in Publishers \ {p} : pub'[q] = pub[q]
  BY DEF Call, End, HubInv, Shape
<1> QED
  BY <1>1, <1>2 DEF Call, client, history

\* What the connection reads of the key asked for.
LEMMA ReadFacts ==
    ASSUME ProgressAssumption, HubInv, ShapeInv, ReadHub \/ ReadTask
    PROVE  /\ Asked \in Keys
           /\ \/ \E s \in Snapshots : /\ s.key = Asked /\ Got(s) /\ Handed(s)
                                      /\ \/ ReadHub /\ s = latest[Asked]
                                         \/ ReadTask /\ s.seq = 0
              \/ /\ UNCHANGED <<seen, overtaken>>
                 /\ \/ ReadHub /\ latest[Asked] = None /\ Goto("fallback")
                    \/ ReadTask /\ Got(None)
           /\ UNCHANGED <<buf, shown, latest, subscribed, pub, failed>>
<1>1. Asked \in Keys
  BY AskedKey DEF ReadHub, ReadTask, ShapeInv
<1>2. CASE ReadHub
  <2>1. CASE latest[Asked] # None
    <3>1. latest[Asked] \in Snapshots /\ latest[Asked].key = Asked
      BY <1>1, <2>1 DEF ShapeInv, NumberInv, Numbered
    <3> QED
      BY <1>1, <1>2, <2>1, <3>1 DEF ReadHub
  <2>2. CASE latest[Asked] = None
    BY <1>1, <1>2, <2>2 DEF ReadHub, history
  <2> QED
    BY <2>1, <2>2
<1>3. CASE ReadTask
  <2>1. CASE owner[Asked] # 0
    <3>1. owner[Asked] \in Execs
      BY <1>1, <2>1 DEF HubInv, Shape, Owning, Execs
    <3> DEFINE s == Snapshot(Asked, owner[Asked], 0)
    <3>2. s \in Snapshots /\ s.key = Asked /\ s.seq = 0
      BY <1>1, <3>1 DEF Snapshot, Snapshots, ProgressAssumption
    <3>3. Got(s) /\ Handed(s)
      BY <1>3, <2>1 DEF ReadTask
    <3> HIDE DEF s
    <3> QED
      BY <1>1, <1>3, <3>2, <3>3 DEF ReadTask
  <2>2. CASE owner[Asked] = 0
    BY <1>1, <1>3, <2>2 DEF ReadTask, history
  <2> QED
    BY <2>1, <2>2
<1> QED
  BY <1>2, <1>3

LEMMA ViewShapeStep ==
    ASSUME ProgressAssumption, HubInv, ShapeInv, Next
    PROVE  ViewShape'
<1> USE DEF ShapeInv
<1>1. ASSUME NEW k \in Keys, Admit(k) PROVE ViewShape'
  BY <1>1, QuietSteps DEF ViewShape, Admit
<1>2. ASSUME NEW p \in Publishers, Publishing(p) PROVE ViewShape'
  <2>1. CASE Guard(p) \/ Commit(p)
    <3>1. failed' \subseteq Execs
      BY <2>1 DEF Guard, Commit, Refused, Raises, Allowed, ViewShape, Publishers
    <3> QED
      BY <2>1, <3>1, QuietSteps DEF ViewShape
  <2>2. CASE Call(p)
    <3>1. /\ UNCHANGED <<shown, subscribed, failed>>
          /\ pub[p].call \in Snapshots
          /\ UNCHANGED <<seen, overtaken>> \/ Handed(pub[p].call)
      BY <2>2, CallFacts
    <3>2. seen' \in [Keys -> 0 .. MaxExecs] /\ overtaken' \subseteq Keys
      BY <3>1, HandedFacts DEF ViewShape
    <3> QED
      BY <3>1, <3>2 DEF ViewShape
  <2> QED
    BY <1>2, <2>1, <2>2 DEF Publishing
<1>3. CASE ReadHub \/ ReadTask
  <2>1. /\ UNCHANGED <<shown, subscribed, failed>>
        /\ UNCHANGED <<seen, overtaken>> \/ \E s \in Snapshots : Handed(s)
    BY <1>3, ReadFacts
  <2>2. seen' \in [Keys -> 0 .. MaxExecs] /\ overtaken' \subseteq Keys
    BY <2>1, HandedFacts DEF ViewShape
  <2> QED
    BY <2>1, <2>2 DEF ViewShape
<1>4. CASE Send
  <2>1. Head(conn.items) \in Snapshots
    BY <1>4 DEF Send, ConnShape
  <2>2. Head(conn.items).key \in Keys
    BY <2>1 DEF Snapshots
  <2>3. /\ shown' = [shown EXCEPT ![Head(conn.items).key] = Head(conn.items)]
        /\ UNCHANGED <<subscribed, seen, overtaken, failed>>
    BY <1>4 DEF Send, history
  <2> QED
    BY <2>1, <2>2, <2>3 DEF ViewShape
<1>5. CASE Close
  BY <1>5 DEF Close, ViewShape, Clear, ProgressAssumption
<1>6. CASE Complete
  <2>1. buf.pending \in Seq(Snapshots)
    BY DEF BufShape, WellFormed, Buffers
  <2>2. \A t \in ToSet(buf.pending) : t.key \in Keys
    <3>1. ToSet(buf.pending) \subseteq Snapshots
      BY <2>1, SetOf
    <3> QED
      BY <3>1 DEF Snapshots
  <2> QED
    BY <1>6, <2>2 DEF Complete, ViewShape
<1>7. CASE Subscribe
  <2>1. PICK i \in DOMAIN conn.request : subscribed' = subscribed \cup {conn.request[i]}
    BY <1>7 DEF Subscribe
  <2>2. conn.request[i] \in Keys
    BY <2>1 DEF ConnShape, ProgressAssumption
  <2> QED
    BY <1>7, <2>1, <2>2 DEF Subscribe, ViewShape, history
<1>8. CASE Rollback \/ RolledBack \/ Release \/ Retry \/ Leave
  BY <1>8 DEF Rollback, RolledBack, Release, Retry, Leave, ViewShape, history
<1>9. CASE Flush \/ Poll \/ (\E r \in Requests : Ask(r)) \/ Subscribed \/ Register
           \/ SubscribeFails \/ SendFails \/ Disconnect
  BY <1>9 DEF Flush, Poll, Ask, Subscribed, Register, SubscribeFails, SendFails, Disconnect,
     ViewShape, history
<1> QED
  BY <1>1, <1>2, <1>3, <1>4, <1>5, <1>6, <1>7, <1>8, <1>9 DEF Next, Connection

LEMMA ShapeInit == ASSUME ProgressAssumption PROVE Init => ShapeInv
<1> SUFFICES ASSUME Init PROVE ShapeInv
  OBVIOUS
<1>1. NumberInv
  <2>1. \A p \in Publishers : pub[p].at = "idle" /\ pub[p].left = 0 /\ pub[p].call = None
    BY DEF Init, IdleThread
  <2>2. \A p \in Publishers : Publishes(p) /\ Left(p) = 0
    BY <2>1 DEF Publishes, Left, ProgressAssumption
  <2>3. \A e \in Execs : LeftOf(e) = 0
    BY <2>2 DEF LeftOf, Publishers
  <2>4. \A k \in Keys : Numbered(k)
    BY DEF Init, Clear, Numbered
  <2> QED
    BY <2>2, <2>3, <2>4 DEF NumberInv, ProgressAssumption
<1>2. <<>> \in Seq(Snapshots) /\ <<>> \in Seq(Snapshots \cup {None}) /\ Len(<<>>) = 0
  OBVIOUS
<1>3. ConnShape
  <2>1. conn = [at |-> "flush", request |-> <<>>, read |-> <<>>, items |-> <<>>,
                tokens |-> {}, added |-> {}, asked |-> 0,
                trying |-> {}, attempt |-> 0, refused |-> [k \in Keys |-> 0]]
    BY DEF Init
  <2>2. 0 \in 0 .. MaxAttempts
    BY DEF ProgressAssumption
  <2> QED
    BY <1>2, <2>1, <2>2 DEF ConnShape, Live, Batch, ProgressAssumption
<1>4. BufShape
  <2>1. PICK c \in Capacities :
           buf = [capacity |-> c, closed |-> FALSE, batch |-> FALSE,
                  queue |-> <<>>, pending |-> <<>>, mark |-> Clear, dropped |-> Clear]
    BY DEF Init
  <2>2. /\ c \in Nat /\ c >= 0
        /\ Clear \in [Keys -> Snapshots \cup {None}] /\ \A k \in Keys : Clear[k] = None
    BY <2>1 DEF Clear, ProgressAssumption
  <2>3. buf \in Buffers
    BY <1>2, <2>1, <2>2 DEF Buffers
  <2>4. OnePerKey(<<>>) /\ ToSet(<<>>) = {}
    BY EmptySet DEF OnePerKey
  <2>5. /\ buf.queue = <<>> /\ buf.pending = <<>> /\ buf.mark = Clear /\ buf.dropped = Clear
        /\ buf.capacity = c /\ buf.closed = FALSE /\ buf.batch = FALSE
    BY <2>1
  <2>6. WellFormed(buf)
    BY <1>2, <2>2, <2>3, <2>4, <2>5 DEF WellFormed
  <2>7. Batch = FALSE
    BY DEF Init, Batch
  <2> QED
    BY <2>5, <2>6, <2>7 DEF BufShape
<1>5. ViewShape
  BY DEF Init, ViewShape, Clear, ProgressAssumption
<1> QED
  BY <1>1, <1>3, <1>4, <1>5, ConnInit DEF ShapeInv

LEMMA CallKeepsBufShape ==
    ASSUME ProgressAssumption, HubInv, ShapeInv, NEW p \in Publishers, Call(p)
    PROVE  BufShape'
<1>1. /\ pub[p].call \in Snapshots /\ pub[p].call.seq > 0
      /\ buf' = Publish(buf, pub[p].call) /\ conn' = conn
  BY CallFacts
<1>2. WellFormed(buf)
  BY DEF ShapeInv, BufShape
<1>3. /\ WellFormed(buf') /\ buf'.closed = buf.closed /\ buf'.batch = buf.batch
      /\ buf.closed => buf' = buf
      /\ ~buf.closed /\ ~buf.batch => buf'.pending = buf.pending
  BY <1>1, <1>2, PublishShape
<1>4. Live' = Live /\ Batch' = Batch
  BY <1>1 DEF Live, Batch
<1> QED
  BY <1>3, <1>4 DEF ShapeInv, BufShape

LEMMA ShapeStep ==
    ASSUME ProgressAssumption, HubInv, ShapeInv, [Next]_vars
    PROVE  ShapeInv'
<1>1. NumberInv' /\ ConnInv'
  BY NumberStep, ConnStep DEF ShapeInv
<1>2. ASSUME UNCHANGED <<buf, conn>> PROVE ConnShape' /\ BufShape'
  <2>1. ConnShape'
    BY <1>2 DEF ShapeInv, ConnShape, Live, Batch
  <2>2. Live' = Live /\ Batch' = Batch
    BY <1>2 DEF Live, Batch
  <2> QED
    BY <1>2, <2>1, <2>2 DEF ShapeInv, BufShape
<1>3. CASE UNCHANGED vars
  BY <1>1, <1>2, <1>3 DEF vars, ShapeInv, ViewShape
<1>4. CASE Next
  <2>1. ViewShape'
    BY <1>4, ViewShapeStep
  <2>2. ConnShape' /\ BufShape'
    <3>1. CASE Connection
      BY <1>1, <3>1, ConnShapeStep, BufShapeStep
    <3>2. ASSUME NEW p \in Publishers, Call(p) PROVE ConnShape' /\ BufShape'
      <4>1. conn' = conn
        BY <3>2, CallFacts
      <4> QED
        BY <3>2, <4>1, CallKeepsBufShape DEF ShapeInv, ConnShape, Live, Batch
    <3>3. ASSUME (\E k \in Keys : Admit(k)) \/ (\E p \in Publishers : Guard(p) \/ Commit(p))
          PROVE  ConnShape' /\ BufShape'
      BY <1>2, <3>3, QuietSteps DEF ShapeInv
    <3> QED
      BY <1>4, <3>1, <3>2, <3>3 DEF Next, Publishing
  <2> QED
    BY <1>1, <2>1, <2>2 DEF ShapeInv
<1> QED
  BY <1>3, <1>4

\* The hub, the threads, the buffer and the connection hold values of their types; in
\* particular an execution's events stay within the numbers its publications allow, and
\* neither of the buffer's queues outgrows its capacity.
THEOREM ProgressTypes ==
    ASSUME ProgressAssumption
    PROVE  Spec => []TypeOK
<1>1. Init => HubInv /\ ShapeInv
  BY HubInit, ShapeInit
<1>2. HubInv /\ ShapeInv /\ [Next]_vars => HubInv' /\ ShapeInv'
  BY HubStep, ShapeStep
<1>3. HubInv /\ ShapeInv => TypeOK
  <2> SUFFICES ASSUME HubInv, ShapeInv PROVE TypeOK
    OBVIOUS
  <2>1. owner \in [Keys -> 0 .. MaxExecs]
    <3>1. \A k \in Keys : owner[k] \in 0 .. MaxExecs
      BY DEF HubInv, Shape, Owning, ProgressAssumption
    <3> QED
      BY <3>1 DEF HubInv, Shape
  <2>2. latest \in [Keys -> Snapshots \cup {None}]
    <3>1. \A k \in Keys : latest[k] \in Snapshots \cup {None}
      BY DEF ShapeInv, NumberInv, Numbered
    <3> QED
      BY <3>1 DEF HubInv, Shape
  <2>3. pub \in [Publishers -> [at : {"idle", "commit", "call"}, left : 0 .. MaxUpdates + 1,
                                call : Snapshots \cup {None}]]
    <3>1. ASSUME NEW p \in Publishers
          PROVE  pub[p] \in [at : {"idle", "commit", "call"}, left : 0 .. MaxUpdates + 1,
                             call : Snapshots \cup {None}]
      <4>1. pub[p].left \in 0 .. MaxUpdates + 1 /\ pub[p].call \in Snapshots \cup {None}
        BY DEF ShapeInv, NumberInv, Publishes
      <4>2. pub[p] = [at |-> pub[p].at, left |-> pub[p].left, call |-> pub[p].call]
            /\ pub[p].at \in {"idle", "commit", "call"}
        BY DEF HubInv, Shape
      <4> QED
        BY <4>1, <4>2
    <3> QED
      BY <3>1 DEF HubInv, Shape
  <2>4. execs \in Seq(Keys) /\ Len(execs) <= MaxExecs /\ lock \in [Keys -> Publishers \cup {None}]
    BY DEF HubInv, Shape
  <2> QED
    BY <2>1, <2>2, <2>3, <2>4 DEF ShapeInv, ConnShape, BufShape, ViewShape, WellFormed, TypeOK
<1> QED
  BY <1>1, <1>2, <1>3, PTL DEF Spec

-------------------------------------------------------------------------------
(* What the connection holds was published and handed to it.               *)

\* Only the overflow of what is held back lets go of an event.
LEMMA PendingDrops ==
    ASSUME ProgressAssumption, NEW b, WellFormed(b), NEW s \in Snapshots
    PROVE  \/ OfferPending(b, s).dropped = b.dropped
           \/ \E t \in ToSet(b.pending) :
                 /\ t.key # s.key /\ Overflows(b.pending, s, b.capacity)
                 /\ OfferPending(b, s).dropped = Drop(b.dropped, t)
<1>1. /\ b.capacity \in Nat \ {0} /\ b.pending \in Seq(Snapshots)
      /\ OnePerKey(b.pending) /\ Len(b.pending) <= b.capacity
  BY DEF WellFormed, Buffers, ProgressAssumption
<1>2. Overflows(b.pending, s, b.capacity) =>
         Head(b.pending) \in ToSet(b.pending) /\ Head(b.pending).key # s.key
  BY <1>1, PutFacts
<1>3. OfferPending(b, s).dropped = DroppedBy(b, b.pending, s)
  BY DEF OfferPending, WellFormed, Buffers
<1> QED
  BY <1>2, <1>3 DEF DroppedBy

\* What a call adds to the buffer is the event called with.
LEMMA PublishHolds ==
    ASSUME ProgressAssumption, NEW b, WellFormed(b), NEW s \in Snapshots, s.seq > 0,
           NEW G, s \in G, Holds(b, G)
    PROVE  Holds(Publish(b, s), G) /\ Holds(OfferQueue(b, s), G)
<1>1. /\ ToSet(b.queue) \subseteq Snapshots /\ ToSet(b.pending) \subseteq Snapshots
      /\ b.dropped \in [Keys -> Snapshots \cup {None}] /\ s.key \in Keys
  BY BufFields DEF Snapshots
<1>2. \A t \in ToSet(b.queue) : t \in G
  <2> SUFFICES ASSUME NEW t \in ToSet(b.queue) PROVE t \in G
    OBVIOUS
  <2>1. t.key \in Keys /\ b.mark[t.key] = t /\ t # None
    BY <1>1, NotNone DEF WellFormed, Snapshots
  <2> QED
    BY <2>1 DEF Holds
<1>3. ASSUME NEW t \in G, t \in Snapshots, NEW k \in Keys
      PROVE  Drop(b.dropped, t)[k] \in G \cup {None}
  <2>1. t.key \in Keys
    BY <1>3 DEF Snapshots
  <2>2. Drop(b.dropped, t)[k] \in {t, b.dropped[k]}
    BY <1>1, <1>3, <2>1, DropFacts
  <2> QED
    BY <1>3, <2>2 DEF Holds
<1>4. Holds(OfferQueue(b, s), G)
  <2> DEFINE c == OfferQueue(b, s)
             stale == b.mark[s.key] # None /\ StaleOrEqual(s, b.mark[s.key])
  <2>1. /\ c.pending = b.pending
        /\ stale => c = b
        /\ ~stale => c.mark[s.key] = s
        /\ \A k \in Keys : k # s.key => c.mark[k] = b.mark[k]
        /\ \/ c.dropped = b.dropped
           \/ \E t \in ToSet(b.queue) : c.dropped = Drop(b.dropped, t)
    BY OfferQueueFacts
  <2> HIDE DEF c, stale
  <2>2. CASE c = b
    BY <2>2 DEF c
  <2>3. CASE c # b
    <3>1. \A k \in Keys : c.mark[k] \in G \cup {None}
      BY <2>1, <2>3 DEF Holds
    <3>2. \A k \in Keys : c.dropped[k] \in G \cup {None}
      BY <1>1, <1>2, <1>3, <2>1 DEF Holds
    <3>3. ToSet(c.pending) \subseteq G
      BY <2>1 DEF Holds
    <3>4. Holds(c, G)
      BY <3>1, <3>2, <3>3 DEF Holds
    <3> QED
      BY <3>4 DEF c
  <2> QED
    BY <2>2, <2>3
<1>5. Holds(OfferPending(b, s), G)
  <2> DEFINE c == OfferPending(b, s)
  <2>1. /\ c.mark = b.mark
        /\ \A t \in ToSet(c.pending) : t = s \/ t \in ToSet(b.pending)
        /\ \/ c.dropped = b.dropped
           \/ \E t \in ToSet(b.pending) : /\ t.key # s.key
                                          /\ Overflows(b.pending, s, b.capacity)
                                          /\ c.dropped = Drop(b.dropped, t)
    <3>1. c.mark = b.mark /\ \A t \in ToSet(c.pending) : t = s \/ t \in ToSet(b.pending)
      BY OfferPendingFacts
    <3>2. \/ c.dropped = b.dropped
          \/ \E t \in ToSet(b.pending) : /\ t.key # s.key
                                         /\ Overflows(b.pending, s, b.capacity)
                                         /\ c.dropped = Drop(b.dropped, t)
      BY PendingDrops
    <3> QED
      BY <3>1, <3>2
  <2> HIDE DEF c
  <2>2. \A k \in Keys : c.mark[k] \in G \cup {None}
    BY <2>1 DEF Holds
  <2>3. \A k \in Keys : c.dropped[k] \in G \cup {None}
    BY <1>1, <1>3, <2>1 DEF Holds
  <2>4. ToSet(c.pending) \subseteq G
    BY <2>1 DEF Holds
  <2>5. Holds(c, G)
    BY <2>2, <2>3, <2>4 DEF Holds
  <2> QED
    BY <2>5 DEF c
<1>6. Publish(b, s) \in {b, OfferPending(b, s), OfferQueue(b, s)}
  BY PublishShape DEF WellFormed, Buffers
<1> QED
  BY <1>4, <1>5, <1>6

LEMMA FinishHolds ==
    ASSUME ProgressAssumption, NEW b, WellFormed(b), NEW read, Readings(read), NEW G,
           Holds(b, G), \A k \in Keys : read[k] \in G \cup {None}
    PROVE  Holds(FinishBatch(b, read), G)
<1> DEFINE I == {c \in Buffers : Holds(c, G)}
<1>1. Opened(b, read) \in I
  <2> DEFINE o == Opened(b, read)
  <2>1. /\ WellFormed(o) /\ o.pending = <<>> /\ o.dropped = b.dropped
        /\ \A k \in Keys :
              /\ k \notin KeysIn(o.queue) /\ read[k] # None => o.mark[k] = read[k]
              /\ k \in KeysIn(o.queue) \/ read[k] = None => o.mark[k] = b.mark[k]
    BY OpenedFacts
  <2> HIDE DEF o
  <2>2. Holds(o, G)
    BY <2>1, EmptySet DEF Holds
  <2> QED
    BY <2>1, <2>2 DEF o, WellFormed
<1>2. ASSUME NEW c \in I, NEW t \in ToSet(b.pending), WellFormed(c) PROVE OfferQueue(c, t) \in I
  <2>1. t \in Snapshots /\ t.seq > 0 /\ t \in G
    BY BufFields DEF WellFormed, Holds
  <2>2. WellFormed(OfferQueue(c, t))
    BY <1>2, <2>1, OfferQueueFacts
  <2>3. Holds(OfferQueue(c, t), G)
    BY <1>2, <2>1, PublishHolds
  <2> QED
    BY <2>2, <2>3 DEF WellFormed
<1> HIDE DEF I
<1>3. FinishBatch(b, read) \in I
  BY <1>1, <1>2, FinishKeeps
<1> QED
  BY <1>3 DEF I

LEMMA SnapshotFields ==
    ASSUME ProgressAssumption, NEW s \in Snapshots
    PROVE  s.key \in Keys /\ s.exec \in Nat /\ s.exec > 0 /\ s.exec \in Execs /\ s.seq \in Nat
BY DEF Snapshots, Execs, ProgressAssumption

LEMMA FollowsTransitive ==
    ASSUME ProgressAssumption, NEW r \in Snapshots, NEW s \in Snapshots, NEW t \in Snapshots,
           Follows(r, s), Follows(s, t)
    PROVE  Follows(r, t)
<1>1. r # None /\ s # None /\ t # None
  BY NotNone
<1> QED
  BY <1>1, SnapshotFields DEF Follows

\* The hub goes forward.
LEMMA PublishedStays ==
    ASSUME ProgressAssumption, HubInv, NumberInv, Next
    PROVE  /\ Published \subseteq Published'
           /\ \A k \in Keys : latest[k] # None => latest'[k] # None
<1>1. CASE latest' = latest
  BY <1>1 DEF Published
<1>2. ASSUME NEW p \in Publishers, Commit(p)
      PROVE  /\ Published \subseteq Published'
             /\ \A k \in Keys : latest[k] # None => latest'[k] # None
  <2> DEFINE k == Key(p)
             s == Event(p)
  <2>1. /\ k \in Keys /\ s \in Snapshots
        /\ \A j \in Keys : latest'[j] = IF j = k THEN s ELSE latest[j]
        /\ latest[k] # None =>
              s.exec > latest[k].exec \/ (s.exec = latest[k].exec /\ s.seq > latest[k].seq)
    BY <1>2, CommitCalls
  <2> HIDE DEF k, s
  <2>2. s # None /\ \A j \in Keys : latest[j] # None => latest[j] \in Snapshots
    BY <2>1, NotNone DEF NumberInv, Numbered
  <2>3. latest[k] # None => Follows(s, latest[k])
    BY <2>1, <2>2, SnapshotFields DEF Follows
  <2>4. ASSUME NEW x \in Published PROVE x \in Published'
    <3>1. x \in Snapshots /\ x.key \in Keys
      BY SnapshotFields DEF Published
    <3>2. CASE x.key = k /\ x.seq > 0
      <4>1. latest[k] # None /\ Follows(latest[k], x)
        BY <3>2 DEF Published
      <4>2. Follows(s, x)
        BY <2>1, <2>2, <2>3, <3>1, <4>1, FollowsTransitive
      <4>3. latest'[x.key] = s
        BY <2>1, <3>1, <3>2
      <4> QED
        BY <2>2, <3>1, <4>2, <4>3 DEF Published
    <3>3. CASE x.key # k \/ ~(x.seq > 0)
      BY <2>1, <3>1, <3>3 DEF Published
    <3> QED
      BY <3>2, <3>3
  <2> QED
    BY <2>1, <2>2, <2>4
<1>3. ASSUME ~(\E p \in Publishers : Commit(p)) PROVE latest' = latest
  <2>1. CASE Connection
    BY <2>1, ConnectionLeavesHub DEF hub
  <2>2. CASE ~Connection
    BY <1>3, <2>2 DEF Next, Publishing, Admit, Guard, Call
  <2> QED
    BY <2>1, <2>2
<1> QED
  BY <1>1, <1>2, <1>3

\* As long as the connection lives its history only grows.
LEMMA HistoryGrows ==
    ASSUME ProgressAssumption, HubInv, ShapeInv, Next, Live'
    PROVE  /\ Live /\ overtaken \subseteq overtaken'
           /\ \A k \in Keys : seen'[k] >= seen[k]
<1>1. /\ conn.at \in {"flush", "receive", "subscribe", "read", "fallback", "sending",
                      "rollback", "close", "release", "gone"}
      /\ DOMAIN conn = {"at", "request", "read", "items", "tokens", "added", "asked",
                       "trying", "attempt", "refused"}
      /\ \A k \in Keys : seen[k] \in Nat
  BY DEF ShapeInv, ConnShape, ViewShape, ProgressAssumption
<1>2. ASSUME UNCHANGED <<seen, overtaken>>
      PROVE  overtaken \subseteq overtaken' /\ \A k \in Keys : seen'[k] >= seen[k]
  BY <1>1, <1>2
<1>3. CASE (\E k \in Keys : Admit(k)) \/ (\E p \in Publishers : Guard(p) \/ Commit(p))
  BY <1>2, <1>3, QuietSteps DEF Live, Batch
<1>4. ASSUME NEW p \in Publishers, Call(p)
      PROVE  /\ Live /\ overtaken \subseteq overtaken'
             /\ \A k \in Keys : seen'[k] >= seen[k]
  <2>1. /\ conn' = conn /\ pub[p].call \in Snapshots
        /\ UNCHANGED <<seen, overtaken>> \/ Handed(pub[p].call)
    BY <1>4, CallFacts
  <2>2. overtaken \subseteq overtaken' /\ \A k \in Keys : seen'[k] >= seen[k]
    <3>1. CASE Handed(pub[p].call)
      BY <2>1, <3>1, HandedFacts DEF ShapeInv
    <3> QED
      BY <1>2, <2>1, <3>1
  <2> QED
    BY <2>1, <2>2 DEF Live, Batch
<1>5. CASE ReadHub \/ ReadTask
  <2>1. conn.at \in {"read", "fallback"}
    BY <1>5 DEF ReadHub, ReadTask
  <2>2. UNCHANGED <<seen, overtaken>> \/ \E s \in Snapshots : Handed(s)
    BY <1>5, ReadFacts
  <2>3. overtaken \subseteq overtaken' /\ \A k \in Keys : seen'[k] >= seen[k]
    <3>1. ASSUME NEW s \in Snapshots, Handed(s)
          PROVE  overtaken \subseteq overtaken' /\ \A k \in Keys : seen'[k] >= seen[k]
      BY <3>1, HandedFacts DEF ShapeInv
    <3> QED
      BY <1>2, <2>2, <3>1
  <2> QED
    BY <2>1, <2>3 DEF Live, Batch
<1>6. CASE Complete
  BY <1>1, <1>6 DEF Complete, Live, Batch
<1>7. CASE Flush \/ Send \/ Poll \/ (\E r \in Requests : Ask(r)) \/ Subscribe \/ Subscribed
           \/ Register
  <2>1. /\ UNCHANGED <<seen, overtaken>>
        /\ conn.at \in {"flush", "receive", "sending", "subscribe", "read"}
    BY <1>7 DEF Flush, Send, Poll, Ask, Subscribe, Subscribed, Register, Waiting, history
  <2> QED
    BY <1>2, <2>1 DEF Live, Batch
<1>8. ASSUME Leaving PROVE FALSE
  BY <1>8, LeavingEnds DEF ShapeInv
<1> QED
  BY <1>3, <1>4, <1>5, <1>6, <1>7, <1>8 DEF Next, Publishing, Connection, Leaving

LEMMA HadStays ==
    ASSUME ProgressAssumption, HubInv, ShapeInv, Next, Live'
    PROVE  Had \subseteq Had' /\ Had \subseteq Snapshots
<1>1. Published \subseteq Published'
  BY PublishedStays DEF ShapeInv
<1>2. \A k \in Keys : seen'[k] >= seen[k] /\ seen[k] \in Nat /\ seen'[k] \in Nat
  <2>1. seen' \in [Keys -> 0 .. MaxExecs]
    BY ShapeStep DEF ShapeInv, ViewShape
  <2> QED
    BY <2>1, HistoryGrows DEF ShapeInv, ViewShape, ProgressAssumption
<1>3. \A x \in Published : x.key \in Keys /\ x.exec \in Nat /\ x \in Snapshots
  BY SnapshotFields DEF Published
<1> QED
  BY <1>1, <1>2, <1>3 DEF Had

\* The last readings are readings.
LEMMA LastReadIn ==
    ASSUME ProgressAssumption, ConnShape, NEW G,
           \A i \in 1 .. Len(conn.read) : conn.read[i] \in G \cup {None}
    PROVE  \A k \in Keys : [j \in Keys |-> LastRead(j)][k] \in G \cup {None}
<1> SUFFICES ASSUME NEW k \in Keys PROVE LastRead(k) \in G \cup {None}
  OBVIOUS
<1>1. CASE LastRead(k) = None
  BY <1>1
<1>2. CASE LastRead(k) # None
  BY <1>2, LastReadFacts
<1> QED
  BY <1>1, <1>2

LEMMA HoldsMore ==
    ASSUME NEW b, NEW G, NEW H, Holds(b, G), G \subseteq H
    PROVE  Holds(b, H)
BY DEF Holds

LEMMA KnownStep ==
    ASSUME ProgressAssumption, HubInv, ShapeInv, KnownInv, Next
    PROVE  KnownInv'
<1>1. Published \subseteq Published'
  BY PublishedStays DEF ShapeInv
<1>2. \A p \in Publishers : pub'[p].at = "call" => pub'[p].call \in Published'
  <2>1. ASSUME (\E k \in Keys : Admit(k)) \/ (\E p \in Publishers : Guard(p))
        PROVE  <1>2!:
    BY <1>1, <2>1, NoNewCall DEF KnownInv
  <2>2. ASSUME NEW p \in Publishers, Commit(p)
        PROVE  <1>2!:
    <3> DEFINE s == Event(p)
    <3>1. /\ s.key \in Keys /\ s \in Snapshots /\ latest'[s.key] = s
          /\ \A q \in Publishers \ {p} : pub'[q] = pub[q]
          /\ pub'[p].at = "call" => pub'[p].call = s
      BY <2>2, CommitCalls DEF ShapeInv
    <3> HIDE DEF s
    <3>2. s \in Published'
      BY <3>1, NotNone, SnapshotFields DEF Published, Follows
    <3> QED
      BY <1>1, <3>1, <3>2 DEF KnownInv
  <2>3. ASSUME NEW p \in Publishers, Call(p)
        PROVE  <1>2!:
    BY <1>1, <2>3, CallFacts DEF KnownInv
  <2>4. CASE Connection
    BY <1>1, <2>4, ConnectionLeavesHub DEF hub, KnownInv
  <2> QED
    BY <2>1, <2>2, <2>3, <2>4 DEF Next, Publishing
<1>3. ASSUME Live'
      PROVE  /\ Holds(buf', Had')
             /\ \A i \in 1 .. Len(conn'.read) : conn'.read[i] \in Had' \cup {None}
  <2>1. /\ Live /\ Had \subseteq Had' /\ Had \subseteq Snapshots
        /\ Holds(buf, Had)
        /\ \A i \in 1 .. Len(conn.read) : conn.read[i] \in Had \cup {None}
        /\ WellFormed(buf) /\ ShapeInv'
    BY <1>3, HistoryGrows, HadStays, ShapeStep DEF KnownInv, ShapeInv, BufShape
  <2>2. ASSUME \/ buf' = buf
               \/ \E r \in Requests : Ask(r)
               \/ Flush
        PROVE  Holds(buf', Had')
    <3>1. Holds(buf', Had)
      <4>1. CASE buf' = buf
        BY <2>1, <4>1
      <4>2. CASE \E r \in Requests : Ask(r)
        <5>1. buf' = BeginBatch(buf)
          BY <4>2 DEF Ask
        <5>2. buf'.mark = buf.mark /\ buf'.pending = buf.pending /\ buf'.dropped = buf.dropped
          BY <2>1, <5>1, BufFields
        <5> QED
          BY <2>1, <5>2 DEF Holds
      <4>3. CASE Flush
        <5>1. buf'.mark = buf.mark /\ buf'.pending = buf.pending /\ buf'.dropped = buf.dropped
          BY <2>1, <4>3, BufFields DEF Flush
        <5> QED
          BY <2>1, <5>1 DEF Holds
      <4> QED
        BY <2>2, <4>1, <4>2, <4>3
    <3> QED
      BY <2>1, <3>1, HoldsMore
  <2>3. ASSUME conn'.read = conn.read \/ conn'.read = <<>>
        PROVE  \A i \in 1 .. Len(conn'.read) : conn'.read[i] \in Had' \cup {None}
    BY <2>1, <2>3
  <2>4. CASE (\E k \in Keys : Admit(k)) \/ (\E p \in Publishers : Guard(p) \/ Commit(p))
    BY <2>2, <2>3, <2>4, QuietSteps
  <2>5. ASSUME NEW p \in Publishers, Call(p)
        PROVE  /\ Holds(buf', Had')
               /\ \A i \in 1 .. Len(conn'.read) : conn'.read[i] \in Had' \cup {None}
    <3>1. /\ pub[p].call \in Snapshots /\ pub[p].call.seq > 0
          /\ buf' = Publish(buf, pub[p].call) /\ conn' = conn
          /\ ~buf.closed => Handed(pub[p].call)
          /\ pub[p].at = "call"
      BY <2>5, CallFacts
    <3>2. pub[p].call \in Published'
      BY <1>1, <3>1 DEF KnownInv
    <3>3. pub[p].call \in Had'
      <4>1. Handed(pub[p].call)
        BY <2>1, <3>1 DEF ShapeInv, BufShape
      <4>2. seen'[pub[p].call.key] >= pub[p].call.exec
        BY <3>1, <4>1, HandedFacts DEF ShapeInv
      <4>3. pub[p].call.key \in Keys /\ pub[p].call.exec \in Nat
        BY <3>1, SnapshotFields
      <4>4. seen'[pub[p].call.key] \in Nat
        BY <2>1, <4>3 DEF ShapeInv, ViewShape, ProgressAssumption
      <4> QED
        BY <3>2, <4>2, <4>3, <4>4 DEF Had
    <3>4. Holds(buf, Had')
      BY <2>1, HoldsMore
    <3> HIDE DEF Had
    <3>5. Holds(buf', Had')
      BY <2>1, <3>1, <3>3, <3>4, PublishHolds
    <3> QED
      BY <2>3, <3>1, <3>5
  <2>6. CASE ReadHub \/ ReadTask
    <3>1. buf' = buf
      BY <2>6, ReadFacts
    <3>2. \A i \in 1 .. Len(conn'.read) : conn'.read[i] \in Had' \cup {None}
      <4>1. ASSUME NEW s \in Had' \cup {None}, Got(s) PROVE <3>2!:
        <5>1. conn.read \in Seq(Snapshots \cup {None}) /\ conn'.read = Append(conn.read, s)
          BY <4>1 DEF Got, ShapeInv, ConnShape
        <5>2. Len(conn'.read) = Len(conn.read) + 1 /\ Len(conn.read) \in Nat
              /\ \A i \in 1 .. Len(conn'.read) :
                    conn'.read[i] = IF i = Len(conn.read) + 1 THEN s ELSE conn.read[i]
          BY <5>1
        <5> QED
          BY <2>1, <4>1, <5>2
      <4>2. CASE ~(Got(None) \/ Goto("fallback"))
        <5>1. PICK s \in Snapshots : /\ s.key = Asked /\ Got(s) /\ Handed(s) /\ Asked \in Keys
                                     /\ \/ ReadHub /\ s = latest[Asked]
                                        \/ ReadTask /\ s.seq = 0
                                     /\ latest' = latest
          BY <2>6, <4>2, ReadFacts
        <5>2. s.exec \in Nat /\ s.seq \in Nat /\ s # None
          BY SnapshotFields, NotNone
        <5>3. s \in Published'
          BY <5>1, <5>2 DEF Published, Follows
        <5>4. seen'[s.key] >= s.exec /\ seen'[s.key] \in Nat
          BY <2>1, <5>1, HandedFacts DEF ShapeInv, ViewShape, ProgressAssumption
        <5>5. s \in Had'
          BY <5>2, <5>3, <5>4 DEF Had
        <5> QED
          BY <4>1, <5>1, <5>5
      <4>3. CASE Goto("fallback")
        BY <2>3, <4>3 DEF Goto, ShapeInv, ConnShape
      <4> QED
        BY <4>1, <4>2, <4>3
    <3> QED
      BY <2>2, <3>1, <3>2
  <2>7. CASE Complete
    <3> DEFINE read == [k \in Keys |-> LastRead(k)]
    <3>1. buf' = FinishBatch(buf, read) /\ conn'.read = <<>>
      BY <2>7 DEF Complete, ShapeInv, ConnShape
    <3>2. Readings(read)
      BY LastReadings DEF ShapeInv
    <3>3. \A k \in Keys : read[k] \in Had \cup {None}
      BY <2>1, LastReadIn DEF ShapeInv
    <3> HIDE DEF read
    <3>4. Holds(buf', Had)
      BY <2>1, <3>1, <3>2, <3>3, FinishHolds
    <3> QED
      BY <2>1, <2>3, <3>1, <3>4, HoldsMore
  <2>8. CASE Send \/ Poll \/ Subscribe \/ Subscribed \/ Register
    <3>1. buf' = buf /\ conn'.read = conn.read
      BY <2>8 DEF Send, Poll, Subscribe, Subscribed, Register, Goto, ShapeInv, ConnShape
    <3> QED
      BY <2>2, <2>3, <3>1
  <2>9. CASE Flush \/ \E r \in Requests : Ask(r)
    <3>1. conn'.read = conn.read
      BY <2>9 DEF Flush, Ask, ShapeInv, ConnShape
    <3> QED
      BY <2>2, <2>3, <2>9, <3>1
  <2>10. ASSUME Leaving PROVE FALSE
    BY <2>10, <1>3, LeavingEnds DEF ShapeInv
  <2> QED
    BY <2>4, <2>5, <2>6, <2>7, <2>8, <2>9, <2>10 DEF Next, Publishing, Connection, Leaving
<1> QED
  BY <1>2, <1>3 DEF KnownInv

\* A key's watermark after the barrier is the one it opened with, or the one event of
\* the key that waited behind it and is newer.
LEMMA FinishMarks ==
    ASSUME ProgressAssumption, NEW b, WellFormed(b), NEW read, Readings(read)
    PROVE  LET c == FinishBatch(b, read)
               o == Opened(b, read)
               q == Fresh(b.pending, read)
           IN  /\ WellFormed(c)
               /\ \A k \in Keys :
                     \/ c.mark[k] = o.mark[k]
                     \/ \E t \in ToSet(q) : /\ t.key = k /\ c.mark[k] = t
                                            /\ o.mark[k] = None \/ ~StaleOrEqual(t, o.mark[k])
               /\ \A t \in ToSet(q) : \/ c.mark[t.key] = t
                                      \/ /\ c.mark[t.key] = o.mark[t.key]
                                         /\ o.mark[t.key] # None
                                         /\ StaleOrEqual(t, o.mark[t.key])
<1> DEFINE q == Fresh(b.pending, read)
           o == Opened(b, read)
<1>1. PICK f : /\ f[0] = Opened(b, read)
               /\ \A n \in Nat : n < Len(q) =>
                     f[n + 1] = OfferQueue(f[n], q[n + 1]) /\ q[n + 1] \in ToSet(b.pending)
                     /\ q[n + 1] \in Snapshots /\ q[n + 1].seq > 0
               /\ \A n \in Nat : n <= Len(q) =>
                     /\ WellFormed(f[n])
                     /\ f[n].capacity = b.capacity /\ f[n].closed = b.closed
                     /\ f[n].batch = FALSE /\ f[n].pending = <<>>
               /\ FinishBatch(b, read) = f[Len(q)]
  BY FinishLoop
<1>2. /\ q \in Seq(Snapshots) /\ OnePerKey(q) /\ Len(q) \in Nat
      /\ \A i \in 1 .. Len(q) : q[i].key \in Keys
  <2>1. q \in Seq(Snapshots) /\ OnePerKey(q)
    BY FreshFacts
  <2> HIDE DEF q
  <2> QED
    BY <2>1, SnapshotFields
<1> HIDE DEF q
<1> DEFINE Stale(t) == o.mark[t.key] # None /\ StaleOrEqual(t, o.mark[t.key])
           Offered(n) ==
               /\ \A k \in Keys : (\A i \in 1 .. n : q[i].key # k) => f[n].mark[k] = o.mark[k]
               /\ \A i \in 1 .. n : /\ Stale(q[i]) => f[n].mark[q[i].key] = o.mark[q[i].key]
                                    /\ ~Stale(q[i]) => f[n].mark[q[i].key] = q[i]
           N == {n \in Nat : n <= Len(q) => Offered(n)}
<1>3. 0 \in N
  BY <1>1
<1> HIDE DEF o
<1>4. ASSUME NEW n \in Nat, n \in N PROVE n + 1 \in N
  <2> SUFFICES ASSUME n + 1 <= Len(q) PROVE Offered(n + 1)
    OBVIOUS
  <2>1. n < Len(q) /\ n <= Len(q) /\ Offered(n)
    BY <1>2, <1>4
  <2> DEFINE t == q[n + 1]
  <2>2. /\ f[n + 1] = OfferQueue(f[n], t) /\ t \in Snapshots /\ t.seq > 0
        /\ WellFormed(f[n]) /\ t.key \in Keys
    BY <1>1, <1>2, <2>1
  <2>3. f[n].mark[t.key] = o.mark[t.key]
    <3>1. \A i \in 1 .. n : q[i].key # t.key
      BY <1>2, <2>1 DEF OnePerKey
    <3> QED
      BY <2>1, <2>2, <3>1
  <2>4. \A i \in 1 .. n : q[i].key # t.key /\ q[i].key \in Keys
    BY <1>2, <2>1 DEF OnePerKey
  <2> HIDE DEF t
  <2>5. /\ Stale(t) => f[n + 1] = f[n]
        /\ ~Stale(t) => f[n + 1].mark[t.key] = t
        /\ \A k \in Keys : k # t.key => f[n + 1].mark[k] = f[n].mark[k]
    BY <2>2, <2>3, OfferQueueFacts
  <2>6. \A i \in 1 .. n + 1 : i \in 1 .. n \/ (i = n + 1 /\ q[i] = t)
    BY DEF t
  <2>7. ASSUME NEW k \in Keys, \A i \in 1 .. n + 1 : q[i].key # k
        PROVE  f[n + 1].mark[k] = o.mark[k]
    <3>1. (\A i \in 1 .. n : q[i].key # k) /\ k # t.key
      BY <2>7 DEF t
    <3> QED
      BY <2>1, <2>5, <3>1
  <2>8. ASSUME NEW i \in 1 .. n + 1
        PROVE  /\ Stale(q[i]) => f[n + 1].mark[q[i].key] = o.mark[q[i].key]
               /\ ~Stale(q[i]) => f[n + 1].mark[q[i].key] = q[i]
    <3>1. CASE i \in 1 .. n
      <4>1. f[n + 1].mark[q[i].key] = f[n].mark[q[i].key]
        BY <2>4, <2>5, <3>1
      <4> QED
        BY <2>1, <3>1, <4>1
    <3>2. CASE i = n + 1 /\ q[i] = t
      BY <2>3, <2>5, <3>2
    <3> QED
      BY <2>6, <3>1, <3>2
  <2> QED
    BY <2>7, <2>8
<1>5. Len(q) \in N
  <2> HIDE DEF N
  <2> QED
    BY <1>2, <1>3, <1>4, NatSet
<1> DEFINE c == FinishBatch(b, read)
<1>6. Offered(Len(q)) /\ c = f[Len(q)] /\ WellFormed(c)
  BY <1>1, <1>2, <1>5
<1> HIDE DEF c
<1>7. \A t \in ToSet(q) : /\ \E i \in 1 .. Len(q) : q[i] = t
                          /\ Stale(t) => c.mark[t.key] = o.mark[t.key]
                          /\ ~Stale(t) => c.mark[t.key] = t
  BY <1>2, <1>6, SetOf
<1>8. ASSUME NEW k \in Keys, c.mark[k] # o.mark[k]
      PROVE  \E t \in ToSet(q) : t.key = k /\ c.mark[k] = t /\ ~Stale(t)
  <2>1. PICK i \in 1 .. Len(q) : q[i].key = k
    BY <1>6, <1>8
  <2>2. q[i] \in ToSet(q)
    BY <1>2, SetOf
  <2> QED
    BY <1>7, <1>8, <2>1, <2>2
<1> QED
  BY <1>6, <1>7, <1>8 DEF c, o, q

-------------------------------------------------------------------------------
(* The order in which the client is sent what the hub publishes.           *)

LEMMA AheadThrough ==
    ASSUME ProgressAssumption, NEW r \in Snapshots, NEW s \in Snapshots \cup {None},
           NEW t \in Snapshots \cup {None}, Follows(r, s), Ahead(s, t)
    PROVE  Ahead(r, t) /\ Follows(r, t)
<1>1. CASE t = None
  BY <1>1 DEF Ahead, Follows
<1>2. CASE t # None
  <2>1. r # None /\ s # None /\ Follows(s, t) /\ s \in Snapshots /\ t \in Snapshots
    BY <1>2, NotNone DEF Ahead
  <2>2. Follows(r, t)
    BY <2>1, FollowsTransitive
  <2> QED
    BY <2>1, <2>2 DEF Ahead
<1> QED
  BY <1>1, <1>2

LEMMA SelfFollows ==
    ASSUME ProgressAssumption, NEW s \in Snapshots \cup {None}
    PROVE  Follows(s, s) /\ Ahead(s, s)
BY SnapshotFields DEF Follows, Ahead

\* Where neither what is sent, nor what was read, nor a watermark moves.
LEMMA OrderKept ==
    ASSUME NEW k \in Keys, Ordered(k), UNCHANGED shown,
           conn'.read = conn.read, conn'.items = conn.items, buf'.mark = buf.mark,
           \A t \in ToSet(buf'.pending) : t.key = k =>
              t \in ToSet(buf.pending) \/ t.exec >= ExecOf(buf.mark[k]),
           conn'.at = "sending" <=> conn.at = "sending",
           conn' = conn \/ conn'.at # "fallback"
    PROVE  Ordered(k)'
<1>1. LastRead(k)' = LastRead(k)
  BY DEF LastRead
<1>2. Top(k)' = Top(k)
  BY <1>1 DEF Top
<1>3. InOrder(k)'
  BY <1>2 DEF Ordered, InOrder
<1>4. ReadsInOrder(k)'
  BY DEF Ordered, ReadsInOrder
<1>5. Unpublished(k)'
  BY DEF Ordered, Unpublished, Asked
<1> QED
  BY <1>3, <1>4, <1>5 DEF Ordered

LEMMA CallKeepsOrder ==
    ASSUME ProgressAssumption, HubInv, ShapeInv, KnownInv, NEW p \in Publishers, Call(p), Live,
           NEW k \in Keys \ overtaken', Ordered(k)
    PROVE  Ordered(k)'
<1> DEFINE s == pub[p].call
<1>1. /\ s \in Snapshots /\ s.seq > 0 /\ buf' = Publish(buf, s) /\ Handed(s)
      /\ UNCHANGED <<conn, shown>>
  BY CallFacts DEF ShapeInv, BufShape
<1>2. WellFormed(buf) /\ buf.closed = FALSE /\ buf.batch = Batch
  BY DEF ShapeInv, BufShape
<1>3. s.key \in Keys /\ s.exec \in Nat /\ s.exec > 0 /\ s.seq \in Nat /\ s # None
  BY <1>1, SnapshotFields, NotNone
<1>4. buf.mark[k] # None => buf.mark[k] \in Snapshots /\ buf.mark[k].exec <= seen[k]
  <2>1. buf.mark[k] \in Had \cup {None}
    BY DEF KnownInv, Holds
  <2>2. buf.mark[k] # None => buf.mark[k].key = k
    BY <1>2 DEF WellFormed
  <2> QED
    BY <2>1, <2>2 DEF Had, Published
<1>5. s.key = k => s.exec >= ExecOf(buf.mark[k])
  <2>1. s.key = k => s.exec >= seen[k] /\ seen[k] \in Nat
    BY <1>1, HandedFacts DEF ShapeInv, ViewShape, ProgressAssumption
  <2> QED
    BY <1>3, <1>4, <2>1, SnapshotFields DEF ExecOf
<1>6. CASE Batch
  <2>1. buf' = OfferPending(buf, s)
    BY <1>1, <1>2, <1>6, PublishShape
  <2>2. buf'.mark = buf.mark /\ \A t \in ToSet(buf'.pending) : t = s \/ t \in ToSet(buf.pending)
    <3> DEFINE c == OfferPending(buf, s)
    <3>1. c.mark = buf.mark /\ \A t \in ToSet(c.pending) : t = s \/ t \in ToSet(buf.pending)
      BY <1>1, <1>2, OfferPendingFacts
    <3> QED
      BY <2>1, <3>1
  <2> HIDE DEF s
  <2> QED
    BY <1>1, <1>5, <2>2, OrderKept
<1>7. CASE ~Batch
  <2>1. buf' = OfferQueue(buf, s)
    BY <1>1, <1>2, <1>7, PublishShape
  <2>2. /\ (buf.mark[s.key] # None /\ StaleOrEqual(s, buf.mark[s.key])) => buf' = buf
        /\ ~(buf.mark[s.key] # None /\ StaleOrEqual(s, buf.mark[s.key])) => buf'.mark[s.key] = s
        /\ \A j \in Keys : j # s.key => buf'.mark[j] = buf.mark[j]
    BY <1>1, <1>2, <2>1, OfferQueueFacts
  <2>3. Follows(buf'.mark[k], buf.mark[k]) /\ buf'.mark[k] \in Snapshots \cup {None}
        /\ (buf.mark[k] # None => buf'.mark[k] # None)
    <3>1. CASE buf'.mark[k] = buf.mark[k]
      BY <1>4, <3>1, SelfFollows
    <3>2. CASE buf'.mark[k] # buf.mark[k]
      <4>1. s.key = k /\ buf'.mark[k] = s
        BY <2>2, <3>2
      <4>2. buf.mark[k] # None => s.exec >= buf.mark[k].exec /\ ~StaleOrEqual(s, buf.mark[k])
        BY <1>5, <2>2, <3>2, <4>1 DEF ExecOf
      <4> QED
        BY <1>1, <1>3, <1>4, <4>1, <4>2, SnapshotFields DEF Follows, StaleOrEqual
    <3> QED
      BY <3>1, <3>2
  <2>4. Top(k) = buf.mark[k] /\ Top(k)' = buf'.mark[k]
    BY <1>1, <1>7 DEF Top, Batch
  <2>5. /\ conn.read = <<>> /\ buf'.pending = <<>>
        /\ conn.items \in Seq(Snapshots) /\ shown[k] \in Snapshots \cup {None}
    <3>1. buf'.pending = buf.pending
      BY <1>1, <1>2, <2>1, OfferQueueFacts
    <3> QED
      BY <1>7, <3>1 DEF ShapeInv, ConnShape, BufShape, ViewShape
  <2> HIDE DEF s
  <2>6. ASSUME NEW x \in Snapshots \cup {None}, Ahead(buf.mark[k], x)
        PROVE  Ahead(buf'.mark[k], x)
    <3>1. CASE x = None
      BY <3>1 DEF Ahead
    <3>2. CASE x # None
      <4>1. buf.mark[k] # None /\ buf'.mark[k] \in Snapshots
        BY <2>3, <2>6, <3>2 DEF Ahead
      <4>2. buf.mark[k] \in Snapshots \cup {None}
        BY <1>4
      <4> QED
        BY <2>3, <2>6, <4>1, <4>2, AheadThrough
    <3> QED
      BY <3>1, <3>2
  <2>7. InOrder(k)'
    <3>1. Ahead(buf'.mark[k], shown[k])
      BY <2>4, <2>5, <2>6 DEF Ordered, InOrder
    <3>2. ASSUME NEW i \in 1 .. Len(conn.items), conn.items[i].key = k
          PROVE  Ahead(buf'.mark[k], conn.items[i]) /\ Follows(conn.items[i], shown[k])
      <4>1. conn.items[i] \in Snapshots
        BY <2>5
      <4> QED
        BY <2>4, <2>6, <3>2, <4>1 DEF Ordered, InOrder
    <3> QED
      BY <1>1, <2>4, <3>1, <3>2 DEF Ordered, InOrder
  <2>8. ReadsInOrder(k)'
    BY <1>1, <2>5, EmptySet DEF ReadsInOrder
  <2>9. Unpublished(k)'
    BY <1>1, <1>7 DEF Unpublished, Batch
  <2> QED
    BY <2>7, <2>8, <2>9 DEF Ordered
<1> QED
  BY <1>6, <1>7

LEMMA FlushKeepsOrder ==
    ASSUME ProgressAssumption, ShapeInv, Flush, NEW k \in Keys, Ordered(k)
    PROVE  Ordered(k)'
<1>1. /\ WellFormed(buf) /\ buf.queue \in Seq(Snapshots) /\ shown[k] \in Snapshots \cup {None}
      /\ buf.mark[k] \in Snapshots \cup {None}
  BY DEF ShapeInv, BufShape, ViewShape, WellFormed, Buffers
<1>2. /\ conn.at = "flush" /\ conn'.at = "receive" /\ conn'.items = buf.queue
      /\ conn'.read = conn.read /\ buf' = [buf EXCEPT !.queue = <<>>] /\ shown' = shown
  BY DEF Flush, ShapeInv, ConnShape
<1>3. buf'.mark = buf.mark /\ buf'.pending = buf.pending
  BY <1>1, <1>2, BufFields
<1>4. Top(k)' = buf.mark[k] /\ Top(k) = buf.mark[k]
  BY <1>2, <1>3 DEF Top
<1>5. ASSUME NEW i \in 1 .. Len(buf.queue), buf.queue[i].key = k
      PROVE  /\ Ahead(buf.mark[k], buf.queue[i]) /\ Follows(buf.queue[i], shown[k])
             /\ buf.queue[i] = buf.mark[k]
  <2>1. buf.queue[i] \in ToSet(buf.queue) /\ buf.queue[i] \in Snapshots
    BY <1>1, SetOf
  <2>2. buf.queue[i] = buf.mark[k]
    BY <1>1, <1>5, <2>1 DEF WellFormed
  <2>3. Ahead(buf.mark[k], shown[k])
    BY <1>4 DEF Ordered, InOrder
  <2> QED
    BY <1>1, <2>1, <2>2, <2>3, SelfFollows DEF Ahead, Follows
<1>6. InOrder(k)'
  <2>1. Ahead(buf.mark[k], shown[k])
    BY <1>4 DEF Ordered, InOrder
  <2>2. \A i, j \in 1 .. Len(buf.queue) :
           buf.queue[i].key = k /\ buf.queue[j].key = k => Follows(buf.queue[j], buf.queue[i])
    BY <1>1, <1>5, SelfFollows
  <2> QED
    BY <1>2, <1>4, <1>5, <2>1, <2>2 DEF InOrder
<1>7. ReadsInOrder(k)' /\ Unpublished(k)'
  BY <1>2, <1>3 DEF Ordered, ReadsInOrder, Unpublished
<1> QED
  BY <1>6, <1>7 DEF Ordered

LEMMA SendKeepsOrder ==
    ASSUME ProgressAssumption, ShapeInv, Send, NEW k \in Keys, Ordered(k)
    PROVE  Ordered(k)' /\ Follows(shown'[k], shown[k])
<1> DEFINE s == Head(conn.items)
<1>1. /\ conn.items \in Seq(Snapshots) /\ conn.items # <<>>
      /\ conn'.at = conn.at /\ conn'.read = conn.read /\ conn'.request = conn.request
      /\ conn'.items = Tail(conn.items) /\ buf' = buf /\ conn.at # "fallback"
      /\ shown' = [shown EXCEPT ![s.key] = s] /\ shown \in [Keys -> Snapshots \cup {None}]
  BY DEF Send, ShapeInv, ConnShape, ViewShape
<1>2. /\ s = conn.items[1] /\ s \in Snapshots /\ 1 \in 1 .. Len(conn.items)
      /\ conn'.items \in Seq(Snapshots) /\ Len(conn'.items) = Len(conn.items) - 1
      /\ \A i \in 1 .. Len(conn'.items) :
            i + 1 \in 1 .. Len(conn.items) /\ conn'.items[i] = conn.items[i + 1]
  BY <1>1
<1>3. s.key \in Keys
  BY <1>2, SnapshotFields
<1> HIDE DEF s
<1>4. shown'[k] = IF k = s.key THEN s ELSE shown[k]
  BY <1>1, <1>3
<1>5. Top(k)' = Top(k)
  BY <1>1 DEF Top, LastRead
<1>6. Ahead(Top(k), shown'[k]) /\ Follows(shown'[k], shown[k])
  BY <1>1, <1>2, <1>4, SelfFollows DEF Ordered, InOrder
<1>7. ASSUME NEW i \in 1 .. Len(conn'.items), conn'.items[i].key = k
      PROVE  Ahead(Top(k), conn'.items[i]) /\ Follows(conn'.items[i], shown'[k])
  BY <1>2, <1>4, <1>7 DEF Ordered, InOrder
<1>8. ASSUME NEW i \in 1 .. Len(conn'.items), NEW j \in 1 .. Len(conn'.items), i < j,
             conn'.items[i].key = k, conn'.items[j].key = k
      PROVE  Follows(conn'.items[j], conn'.items[i])
  <2>1. i + 1 \in 1 .. Len(conn.items) /\ conn'.items[i] = conn.items[i + 1]
    BY <1>2
  <2>2. j + 1 \in 1 .. Len(conn.items) /\ conn'.items[j] = conn.items[j + 1]
    BY <1>2
  <2>3. i + 1 < j + 1
    BY <1>8
  <2> QED
    BY <1>8, <2>1, <2>2, <2>3 DEF Ordered, InOrder
<1>9. InOrder(k)'
  BY <1>5, <1>6, <1>7, <1>8 DEF InOrder
<1>10. ReadsInOrder(k)' /\ Unpublished(k)'
  BY <1>1 DEF Ordered, ReadsInOrder, Unpublished
<1> QED
  BY <1>6, <1>9, <1>10 DEF Ordered

LEMMA GotFields ==
    ASSUME ConnShape, NEW s, Got(s), s \in Snapshots \cup {None}
    PROVE  /\ conn'.at = "read" /\ conn'.items = conn.items /\ conn'.request = conn.request
           /\ conn'.tokens = conn.tokens /\ conn'.added = conn.added
           /\ Len(conn.read) \in Nat /\ Len(conn'.read) = Len(conn.read) + 1
           /\ \A i \in 1 .. Len(conn.read) : i \in 1 .. Len(conn'.read)
                                             /\ conn'.read[i] = conn.read[i]
           /\ \A i \in 1 .. Len(conn'.read) :
                 i \in 1 .. Len(conn.read) \/ (i = Len(conn.read) + 1 /\ conn'.read[i] = s)
           /\ conn'.read[Len(conn.read) + 1] = s
<1>1. /\ conn.read \in Seq(Snapshots \cup {None}) /\ conn'.read = Append(conn.read, s)
      /\ conn'.at = "read" /\ conn'.items = conn.items /\ conn'.request = conn.request
      /\ conn'.tokens = conn.tokens /\ conn'.added = conn.added
  BY DEF Got, ConnShape
<1>2. /\ Len(conn.read) \in Nat /\ Len(conn'.read) = Len(conn.read) + 1
      /\ \A i \in 1 .. Len(conn.read) : conn'.read[i] = conn.read[i]
      /\ conn'.read[Len(conn.read) + 1] = s
  BY <1>1
<1> QED
  BY <1>1, <1>2

\* What is read of k is ahead of what the connection has of it.
LEMMA ReadingFollows ==
    ASSUME ProgressAssumption, HubInv, ShapeInv, KnownInv, NEW k \in Keys \ overtaken',
           Ordered(k), NEW s \in Snapshots, s.key = k, Handed(s), Asked = k,
           \/ ReadHub /\ s = latest[k]
           \/ ReadTask /\ s.seq = 0
    PROVE  /\ Follows(s, buf.mark[k])
           /\ \A i \in 1 .. Len(conn.read) :
                 conn.read[i] # None /\ conn.read[i].key = k => Follows(s, conn.read[i])
<1>1. s.exec >= seen[k] /\ seen[k] \in Nat /\ s.exec \in Nat /\ s.seq \in Nat
  BY HandedFacts, SnapshotFields DEF ShapeInv, ViewShape, ProgressAssumption
<1>2. conn.at = "fallback" \/ ReadHub
  BY DEF ReadTask
<1>3. Live
  BY DEF ReadHub, ReadTask, Live, Batch
<1>4. ASSUME NEW x \in Had, x.key = k, ReadTask => x.seq = 0
      PROVE  Follows(s, x)
  <2>1. x \in Snapshots /\ x.exec \in Nat /\ x.seq \in Nat /\ x.exec <= s.exec
    BY <1>1, <1>4, SnapshotFields DEF Had, Published
  <2>2. CASE x.seq > 0
    <3>1. s = latest[k] /\ Follows(latest[k], x)
      BY <1>4, <2>2 DEF Had, Published
    <3> QED
      BY <3>1
  <2>3. CASE x.seq = 0
    BY <1>1, <2>1, <2>3 DEF Follows
  <2> QED
    BY <2>1, <2>2, <2>3
<1>5. Follows(s, buf.mark[k])
  <2>1. buf.mark[k] \in Had \cup {None} /\ (buf.mark[k] # None => buf.mark[k].key = k)
    BY <1>3 DEF KnownInv, Holds, ShapeInv, BufShape, WellFormed
  <2>2. CASE buf.mark[k] = None
    BY <2>2 DEF Follows
  <2>3. CASE buf.mark[k] # None
    <3>1. ReadTask => buf.mark[k].seq = 0
      BY <2>3 DEF ReadTask, Ordered, Unpublished
    <3> QED
      BY <1>4, <2>1, <2>3, <3>1
  <2> QED
    BY <2>2, <2>3
<1>6. ASSUME NEW i \in 1 .. Len(conn.read), conn.read[i] # None, conn.read[i].key = k
      PROVE  Follows(s, conn.read[i])
  <2>1. conn.read[i] \in Had
    BY <1>3, <1>6 DEF KnownInv
  <2>2. ReadTask => conn.read[i].seq = 0
    BY <1>6 DEF ReadTask, Ordered, Unpublished
  <2> QED
    BY <1>4, <1>6, <2>1, <2>2
<1> QED
  BY <1>5, <1>6

LEMMA ReadKeepsOrder ==
    ASSUME ProgressAssumption, HubInv, ShapeInv, KnownInv, ReadHub \/ ReadTask,
           NEW k \in Keys \ overtaken', Ordered(k)
    PROVE  Ordered(k)'
<1>1. /\ conn.at \in {"read", "fallback"} /\ buf' = buf /\ shown' = shown /\ Asked \in Keys
      /\ ConnShape
  BY ReadFacts DEF ReadHub, ReadTask, ShapeInv
<1>2. Live
  BY <1>1 DEF Live, Batch
<1>3. Top(k) = buf.mark[k]
  BY <1>1 DEF Top
<1>4. ASSUME NEW s \in Snapshots \cup {None}, Got(s), s # None => s.key = Asked,
             s # None /\ Asked = k =>
                /\ Follows(s, buf.mark[k])
                /\ \A i \in 1 .. Len(conn.read) :
                      conn.read[i] # None /\ conn.read[i].key = k => Follows(s, conn.read[i])
      PROVE  Ordered(k)'
  <2>1. /\ conn'.at = "read" /\ conn'.items = conn.items
        /\ Len(conn.read) \in Nat /\ Len(conn'.read) = Len(conn.read) + 1
        /\ \A i \in 1 .. Len(conn.read) : conn'.read[i] = conn.read[i]
        /\ \A i \in 1 .. Len(conn'.read) :
              i \in 1 .. Len(conn.read) \/ (i = Len(conn.read) + 1 /\ conn'.read[i] = s)
    BY <1>1, <1>4, GotFields
  <2>2. Top(k)' = buf.mark[k]
    BY <1>1, <2>1 DEF Top
  <2>3. InOrder(k)'
    BY <1>1, <1>3, <2>1, <2>2 DEF Ordered, InOrder
  <2>4. ASSUME NEW i \in 1 .. Len(conn'.read), conn'.read[i] # None, conn'.read[i].key = k
        PROVE  Follows(conn'.read[i], buf.mark[k])
    <3>1. CASE i \in 1 .. Len(conn.read)
      BY <2>1, <2>4, <3>1 DEF Ordered, ReadsInOrder
    <3>2. CASE conn'.read[i] = s
      BY <1>4, <2>4, <3>2
    <3> QED
      BY <2>1, <3>1, <3>2
  <2>5. ASSUME NEW i \in 1 .. Len(conn'.read), NEW j \in 1 .. Len(conn'.read), i < j,
               conn'.read[i] # None, conn'.read[i].key = k,
               conn'.read[j] # None, conn'.read[j].key = k
        PROVE  Follows(conn'.read[j], conn'.read[i])
    <3>1. i \in 1 .. Len(conn.read)
      BY <2>1, <2>5
    <3>2. CASE j \in 1 .. Len(conn.read)
      BY <2>1, <2>5, <3>1, <3>2 DEF Ordered, ReadsInOrder
    <3>3. CASE conn'.read[j] = s
      BY <1>4, <2>1, <2>5, <3>1, <3>3
    <3> QED
      BY <2>1, <3>2, <3>3
  <2>6. ReadsInOrder(k)'
    BY <1>1, <2>4, <2>5 DEF Ordered, ReadsInOrder
  <2>7. Unpublished(k)'
    BY <2>1 DEF Unpublished
  <2> QED
    BY <2>3, <2>6, <2>7 DEF Ordered
<1>5. ASSUME Goto("fallback"), latest[Asked] = None PROVE Ordered(k)'
  <2>1. /\ conn'.at = "fallback" /\ conn'.items = conn.items /\ conn'.read = conn.read
        /\ conn'.request = conn.request
    BY <1>1, <1>5 DEF Goto, ConnShape
  <2>2. Top(k)' = buf.mark[k]
    BY <1>1, <2>1 DEF Top
  <2>3. InOrder(k)' /\ ReadsInOrder(k)'
    BY <1>1, <1>3, <2>1, <2>2 DEF Ordered, InOrder, ReadsInOrder
  <2>4. \A x \in Had : x.key = Asked => x.seq = 0
    <3> SUFFICES ASSUME NEW x \in Had, x.key = Asked PROVE x.seq = 0
      OBVIOUS
    <3>1. x \in Snapshots /\ ~(x.seq > 0)
      BY <1>5 DEF Had, Published
    <3> QED
      BY <3>1, SnapshotFields
  <2>5. Asked' = Asked
    BY <2>1 DEF Asked
  <2>6. ASSUME Asked = k, buf.mark[k] # None PROVE buf.mark[k].seq = 0
    <3>1. buf.mark[k] \in Had /\ buf.mark[k].key = k
      BY <1>2, <2>6 DEF KnownInv, Holds, ShapeInv, BufShape, WellFormed
    <3> QED
      BY <2>4, <2>6, <3>1
  <2>7. ASSUME Asked = k, NEW i \in 1 .. Len(conn.read), conn.read[i] # None,
               conn.read[i].key = k
        PROVE  conn.read[i].seq = 0
    <3>1. conn.read[i] \in Had
      BY <1>2, <2>7 DEF KnownInv
    <3> QED
      BY <2>4, <2>7, <3>1
  <2>8. Unpublished(k)'
    BY <1>1, <2>1, <2>5, <2>6, <2>7 DEF Unpublished
  <2> QED
    BY <2>3, <2>8 DEF Ordered
<1>6. CASE \E s \in Snapshots : /\ s.key = Asked /\ Got(s) /\ Handed(s)
                                /\ \/ ReadHub /\ s = latest[Asked]
                                   \/ ReadTask /\ s.seq = 0
  <2>1. PICK s \in Snapshots : /\ s.key = Asked /\ Got(s) /\ Handed(s)
                               /\ \/ ReadHub /\ s = latest[Asked]
                                  \/ ReadTask /\ s.seq = 0
    BY <1>6
  <2>2. ASSUME Asked = k
        PROVE  /\ Follows(s, buf.mark[k])
               /\ \A i \in 1 .. Len(conn.read) :
                     conn.read[i] # None /\ conn.read[i].key = k => Follows(s, conn.read[i])
    BY <2>1, <2>2, ReadingFollows
  <2> QED
    BY <1>4, <2>1, <2>2
<1>7. CASE Got(None)
  BY <1>4, <1>7
<1> QED
  BY <1>5, <1>6, <1>7, ReadFacts

\* The items of an answer are what was read, in the order of the readings.
LEMMA RegisterOrder ==
    ASSUME ConnShape, Register
    PROVE  /\ conn.at = "read" /\ conn'.at = "sending" /\ conn'.read = conn.read
           /\ conn'.request = conn.request /\ conn'.tokens = conn.tokens \cup conn.added
           /\ conn'.added = conn.added
           /\ \E h : Along(conn'.items, conn.read, Len(conn.read), ToSet(conn.read) \ {None}, h)
<1>1. conn.read \in Seq(Snapshots \cup {None})
  BY DEF ConnShape
<1>2. /\ conn.at = "read" /\ conn'.at = "sending" /\ conn'.read = conn.read
      /\ conn'.request = conn.request /\ conn'.tokens = conn.tokens \cup conn.added
      /\ conn'.added = conn.added
      /\ conn'.items = Keep(conn.read, ToSet(conn.read) \ {None})
  BY DEF Register, ConnShape
<1> QED
  BY <1>1, <1>2, KeepAlong

LEMMA RegisterKeepsOrder ==
    ASSUME ProgressAssumption, HubInv, ShapeInv, Register, NEW k \in Keys, Ordered(k)
    PROVE  Ordered(k)'
<1>1. /\ conn.at = "read" /\ conn'.at = "sending" /\ conn'.read = conn.read
      /\ buf' = buf /\ shown' = shown /\ ConnShape
      /\ conn.read \in Seq(Snapshots \cup {None})
      /\ buf.mark[k] \in Snapshots \cup {None} /\ shown[k] \in Snapshots \cup {None}
      /\ conn'.items \in Seq(Snapshots)
  BY RegisterOrder, RegisterItems
     DEF Register, ShapeInv, ConnShape, BufShape, ViewShape, WellFormed, Buffers
<1>2. PICK h : Along(conn'.items, conn.read, Len(conn.read), ToSet(conn.read) \ {None}, h)
  BY <1>1, RegisterOrder
<1>3. /\ \A i \in 1 .. Len(conn'.items) : /\ h[i] \in 1 .. Len(conn.read)
                                          /\ conn'.items[i] = conn.read[h[i]]
                                          /\ conn.read[h[i]] # None
      /\ \A i, j \in 1 .. Len(conn'.items) : i < j => h[i] < h[j]
  BY <1>2 DEF Along
<1>4. Ahead(buf.mark[k], shown[k])
  BY <1>1 DEF Ordered, InOrder, Top
<1>5. ASSUME NEW i \in 1 .. Len(conn'.items), conn'.items[i].key = k
      PROVE  Follows(conn'.items[i], shown[k])
  <2>1. conn'.items[i] \in Snapshots /\ Follows(conn'.items[i], buf.mark[k])
    BY <1>1, <1>3, <1>5 DEF Ordered, ReadsInOrder
  <2> QED
    BY <1>1, <1>4, <2>1, AheadThrough
<1>6. ASSUME NEW i \in 1 .. Len(conn'.items), NEW j \in 1 .. Len(conn'.items), i < j,
             conn'.items[i].key = k, conn'.items[j].key = k
      PROVE  Follows(conn'.items[j], conn'.items[i])
  <2>1. /\ h[i] \in 1 .. Len(conn.read) /\ h[j] \in 1 .. Len(conn.read) /\ h[i] < h[j]
        /\ conn'.items[i] = conn.read[h[i]] /\ conn.read[h[i]] # None
        /\ conn'.items[j] = conn.read[h[j]] /\ conn.read[h[j]] # None
    BY <1>3, <1>6
  <2> QED
    BY <1>6, <2>1 DEF Ordered, ReadsInOrder
<1>7. LastRead(k)' = LastRead(k)
  BY <1>1 DEF LastRead
<1>8. InOrder(k)'
  <2>1. CASE LastRead(k) = None
    <3>1. Top(k)' = buf.mark[k]
      BY <1>1, <1>7, <2>1 DEF Top
    <3>2. \A i \in 1 .. Len(conn'.items) : conn'.items[i].key # k
      BY <1>1, <1>3, <2>1, LastReadFacts
    <3> QED
      BY <1>1, <1>4, <3>1, <3>2 DEF InOrder
  <2>2. CASE LastRead(k) # None
    <3>1. PICK n \in 1 .. Len(conn.read) :
             /\ conn.read[n] = LastRead(k) /\ conn.read[n].key = k
             /\ conn.read[n] \in Snapshots
             /\ \A j \in n + 1 .. Len(conn.read) :
                   conn.read[j] # None => conn.read[j].key # k
      BY <1>1, <2>2, LastReadFacts
    <3>2. Top(k)' = LastRead(k)
      BY <1>1, <1>7, <2>2 DEF Top
    <3>3. Follows(LastRead(k), buf.mark[k]) /\ LastRead(k) \in Snapshots
      BY <2>2, <3>1 DEF Ordered, ReadsInOrder
    <3>4. Ahead(LastRead(k), shown[k])
      BY <1>1, <1>4, <3>3, AheadThrough
    <3>5. ASSUME NEW i \in 1 .. Len(conn'.items), conn'.items[i].key = k
          PROVE  Ahead(LastRead(k), conn'.items[i])
      <4>1. /\ h[i] \in 1 .. Len(conn.read) /\ conn'.items[i] = conn.read[h[i]]
            /\ conn.read[h[i]] # None
        BY <1>3
      <4>2. h[i] <= n
        BY <1>1, <3>1, <3>5, <4>1
      <4>3. CASE h[i] = n
        BY <3>1, <3>3, <4>1, <4>3, SelfFollows
      <4>4. CASE h[i] < n
        BY <2>2, <3>1, <3>5, <4>1, <4>4 DEF Ordered, ReadsInOrder, Ahead
      <4> QED
        BY <1>1, <4>1, <4>2, <4>3, <4>4
    <3> QED
      BY <1>1, <1>5, <1>6, <3>2, <3>4, <3>5 DEF InOrder
  <2> QED
    BY <2>1, <2>2
<1>9. ReadsInOrder(k)' /\ Unpublished(k)'
  BY <1>1 DEF Ordered, ReadsInOrder, Unpublished
<1> QED
  BY <1>8, <1>9 DEF Ordered

\* The barrier opens with a watermark that is ahead of what was sent last, and of the
\* same execution.
LEMMA OpenedTop ==
    ASSUME ProgressAssumption, ShapeInv, conn.at = "sending", NEW k \in Keys
    PROVE  LET o == Opened(buf, [j \in Keys |-> LastRead(j)]) IN
           /\ o.mark[k] \in Snapshots \cup {None}
           /\ Top(k) \in Snapshots \cup {None}
           /\ Follows(o.mark[k], Top(k))
           /\ o.mark[k] = None <=> Top(k) = None
           /\ ExecOf(o.mark[k]) = ExecOf(Top(k))
<1> DEFINE read == [j \in Keys |-> LastRead(j)]
           o == Opened(buf, read)
<1>1. WellFormed(buf) /\ Readings(read) /\ read[k] = LastRead(k)
  BY LastReadings DEF ShapeInv, BufShape
<1>2. buf.mark[k] \in Snapshots \cup {None} /\ LastRead(k) \in Snapshots \cup {None}
  BY <1>1 DEF WellFormed, Buffers, Readings
<1> HIDE DEF read
<1>3. /\ k \notin KeysIn(o.queue) /\ read[k] # None => o.mark[k] = read[k]
      /\ k \in KeysIn(o.queue) \/ read[k] = None => o.mark[k] = buf.mark[k]
  BY <1>1, OpenedFacts
<1>4. k \in KeysIn(o.queue) /\ read[k] # None =>
         /\ buf.mark[k] \in Snapshots
         /\ buf.mark[k].exec = read[k].exec /\ buf.mark[k].seq > read[k].seq
  <2> SUFFICES ASSUME k \in KeysIn(o.queue), read[k] # None
               PROVE  /\ buf.mark[k] \in Snapshots
                      /\ buf.mark[k].exec = read[k].exec /\ buf.mark[k].seq > read[k].seq
    OBVIOUS
  <2>1. PICK t \in ToSet(o.queue) : t.key = k
    BY DEF KeysIn
  <2>2. /\ t \in ToSet(buf.queue)
        /\ t.exec = read[k].exec /\ t.seq > read[k].seq
    BY <1>1, <2>1, OpenedQueue
  <2>3. t = buf.mark[k] /\ t \in Snapshots
    BY <1>1, <2>1, <2>2, BufFields DEF WellFormed
  <2> QED
    BY <2>2, <2>3
<1> HIDE DEF o
<1>5. Top(k) = IF read[k] # None THEN read[k] ELSE buf.mark[k]
  BY <1>1 DEF Top
<1>6. o.mark[k] = Top(k) \/ (k \in KeysIn(o.queue) /\ read[k] # None)
  BY <1>3, <1>5
<1>7. /\ o.mark[k] \in Snapshots \cup {None}
      /\ Top(k) \in Snapshots \cup {None}
      /\ Follows(o.mark[k], Top(k))
      /\ o.mark[k] = None <=> Top(k) = None
      /\ ExecOf(o.mark[k]) = ExecOf(Top(k))
  <2>1. CASE o.mark[k] = Top(k)
    <3>1. Top(k) \in Snapshots \cup {None}
      BY <1>1, <1>2, <1>5
    <3> QED
      BY <2>1, <3>1, SelfFollows
  <2>2. CASE k \in KeysIn(o.queue) /\ read[k] # None
    <3>1. /\ o.mark[k] = buf.mark[k] /\ Top(k) = read[k] /\ read[k] \in Snapshots
          /\ buf.mark[k] \in Snapshots
          /\ buf.mark[k].exec = read[k].exec /\ buf.mark[k].seq > read[k].seq
      BY <1>1, <1>2, <1>3, <1>4, <1>5, <2>2
    <3>2. buf.mark[k] # None /\ read[k] # None
      BY <3>1, NotNone
    <3>3. Follows(buf.mark[k], read[k])
      BY <3>1, SnapshotFields DEF Follows
    <3>4. ExecOf(buf.mark[k]) = ExecOf(read[k])
      BY <3>1, <3>2 DEF ExecOf
    <3> QED
      BY <3>1, <3>2, <3>3, <3>4
  <2> QED
    BY <1>6, <2>1, <2>2
<1> QED
  BY <1>7 DEF o, read

LEMMA CompleteKeepsOrder ==
    ASSUME ProgressAssumption, ShapeInv, Complete, NEW k \in Keys \ overtaken', Ordered(k)
    PROVE  Ordered(k)'
<1> DEFINE read == [j \in Keys |-> LastRead(j)]
           o == Opened(buf, read)
           q == Fresh(buf.pending, read)
<1>1. /\ conn.at = "sending" /\ conn'.at = "flush" /\ conn.items = <<>> /\ conn'.items = <<>>
      /\ conn'.read = <<>> /\ shown' = shown /\ buf' = FinishBatch(buf, read)
      /\ shown[k] \in Snapshots \cup {None}
  BY DEF Complete, ShapeInv, ConnShape, ViewShape
<1>2. WellFormed(buf) /\ Readings(read) /\ read[k] = LastRead(k)
  BY LastReadings DEF ShapeInv, BufShape
<1>3. /\ o.mark[k] \in Snapshots \cup {None}
      /\ Top(k) \in Snapshots \cup {None}
      /\ Follows(o.mark[k], Top(k))
      /\ o.mark[k] = None <=> Top(k) = None
      /\ ExecOf(o.mark[k]) = ExecOf(Top(k))
  BY <1>1, OpenedTop
<1>4. \A t \in ToSet(q) : t \in ToSet(buf.pending) /\ t \in Snapshots
  <2>1. ToSet(buf.pending) \subseteq Snapshots
    BY <1>2, BufFields
  <2>2. \A t \in ToSet(q) : t \in ToSet(buf.pending)
    BY <1>2, FreshFacts
  <2> QED
    BY <2>1, <2>2
<1>5. \A t \in ToSet(buf.pending) : t.key = k => ~(ExecOf(LastRead(k)) > t.exec)
  BY DEF Complete
<1> HIDE DEF read
<1>6. /\ buf'.mark[k] = o.mark[k]
      \/ \E t \in ToSet(q) : /\ t.key = k /\ buf'.mark[k] = t
                             /\ o.mark[k] = None \/ ~StaleOrEqual(t, o.mark[k])
  BY <1>1, <1>2, FinishMarks
<1> HIDE DEF o, q
<1>7. ASSUME NEW t \in ToSet(q), t.key = k, o.mark[k] = None \/ ~StaleOrEqual(t, o.mark[k])
      PROVE  Follows(t, o.mark[k])
  <2>1. t \in ToSet(buf.pending) /\ t \in Snapshots /\ t.exec \in Nat /\ t.seq \in Nat
    BY <1>4, SnapshotFields
  <2>2. CASE o.mark[k] = None
    BY <2>2 DEF Follows
  <2>3. CASE o.mark[k] # None
    <3>1. /\ o.mark[k] \in Snapshots /\ o.mark[k].exec \in Nat /\ o.mark[k].seq \in Nat
          /\ Top(k) # None /\ o.mark[k].exec = Top(k).exec
      BY <1>3, <2>3, SnapshotFields DEF ExecOf
    <3>2. t.exec >= o.mark[k].exec
      <4>1. CASE LastRead(k) # None
        <5>1. Top(k) = LastRead(k)
          BY <1>1, <4>1 DEF Top
        <5> QED
          BY <1>5, <1>7, <2>1, <3>1, <4>1, <5>1 DEF ExecOf
      <4>2. CASE LastRead(k) = None
        <5>1. Top(k) = buf.mark[k]
          BY <4>2 DEF Top
        <5> QED
          BY <1>7, <2>1, <3>1, <5>1 DEF Ordered, ReadsInOrder, ExecOf
      <4> QED
        BY <4>1, <4>2
    <3> QED
      BY <1>7, <2>1, <2>3, <3>1, <3>2 DEF Follows, StaleOrEqual
  <2> QED
    BY <2>2, <2>3
<1>8. Ahead(buf'.mark[k], shown[k])
  <2>1. Ahead(Top(k), shown[k])
    BY DEF Ordered, InOrder
  <2>2. CASE Top(k) = None
    BY <2>1, <2>2 DEF Ahead
  <2>3. CASE Top(k) # None
    <3>1. o.mark[k] \in Snapshots
      BY <1>3, <2>3
    <3>2. Ahead(o.mark[k], shown[k])
      BY <1>1, <1>3, <2>1, <3>1, AheadThrough
    <3>3. ASSUME NEW t \in ToSet(q), t.key = k, buf'.mark[k] = t, ~StaleOrEqual(t, o.mark[k])
          PROVE  Ahead(buf'.mark[k], shown[k])
      <4>1. Follows(t, o.mark[k]) /\ t \in Snapshots
        BY <1>4, <1>7, <3>3
      <4> QED
        BY <1>1, <3>1, <3>2, <3>3, <4>1, AheadThrough
    <3>4. o.mark[k] # None
      BY <1>3, <2>3
    <3> QED
      BY <1>6, <3>2, <3>3, <3>4
  <2> QED
    BY <2>2, <2>3
<1>9. Top(k)' = buf'.mark[k]
  BY <1>1 DEF Top
<1>10. InOrder(k)'
  BY <1>1, <1>8, <1>9 DEF InOrder
<1>11. buf'.pending = <<>>
  BY CompleteShape DEF ShapeInv
<1>12. ReadsInOrder(k)' /\ Unpublished(k)'
  BY <1>1, <1>11, EmptySet DEF ReadsInOrder, Unpublished
<1> QED
  BY <1>10, <1>12 DEF Ordered

LEMMA BeginBatchKeepsOrder ==
    ASSUME ProgressAssumption, ShapeInv, NEW r \in Requests, Ask(r), NEW k \in Keys, Ordered(k)
    PROVE  Ordered(k)'
<1>1. /\ conn.at = "receive" /\ conn'.at = "subscribe" /\ conn'.read = conn.read
      /\ conn'.items = conn.items /\ shown' = shown /\ buf' = BeginBatch(buf)
  BY DEF Ask, Waiting, ShapeInv, ConnShape
<1>2. buf'.mark = buf.mark /\ buf'.pending = buf.pending
  BY <1>1, BufFields DEF ShapeInv, BufShape
<1> QED
  BY <1>1, <1>2, OrderKept

LEMMA WalkKeepsOrder ==
    ASSUME ShapeInv, Poll \/ Subscribe \/ Subscribed, NEW k \in Keys, Ordered(k)
    PROVE  Ordered(k)'
<1>1. buf' = buf /\ shown' = shown
  BY DEF Poll, Subscribe, Subscribed
<1>2. CASE Poll
  <2>1. /\ conn'.at = "flush" /\ conn.at = "receive" /\ conn'.read = conn.read
        /\ conn'.items = conn.items
    BY <1>2 DEF Poll, Goto, Waiting, ShapeInv, ConnShape
  <2> QED
    BY <1>1, <2>1, OrderKept
<1>3. CASE Subscribe
  <2>1. /\ conn'.at = "subscribe" /\ conn.at = "subscribe" /\ conn'.read = conn.read
        /\ conn'.items = conn.items
    BY <1>3 DEF Subscribe, ShapeInv, ConnShape
  <2> QED
    BY <1>1, <2>1, OrderKept
<1>4. CASE Subscribed
  <2>1. /\ conn'.at = "read" /\ conn.at = "subscribe" /\ conn'.read = conn.read
        /\ conn'.items = conn.items
    BY <1>4 DEF Subscribed, Goto, ShapeInv, ConnShape
  <2> QED
    BY <1>1, <2>1, OrderKept
<1> QED
  BY <1>2, <1>3, <1>4

LEMMA OrderStep ==
    ASSUME ProgressAssumption, HubInv, ShapeInv, KnownInv, OrderInv, Next
    PROVE  OrderInv'
<1> SUFFICES ASSUME Live', NEW k \in Keys \ overtaken'
             PROVE  Ordered(k)'
  BY DEF OrderInv
<1>1. Live /\ k \in Keys \ overtaken
  BY HistoryGrows
<1>2. Ordered(k)
  BY <1>1 DEF OrderInv
<1>3. CASE (\E j \in Keys : Admit(j)) \/ (\E p \in Publishers : Guard(p) \/ Commit(p))
  <2>1. UNCHANGED <<buf, conn, shown>>
    BY <1>3, QuietSteps
  <2> QED
    BY <1>2, <2>1, OrderKept
<1>4. CASE \E p \in Publishers : Call(p)
  BY <1>1, <1>2, <1>4, CallKeepsOrder
<1>5. CASE Flush
  BY <1>2, <1>5, FlushKeepsOrder
<1>6. CASE Send
  BY <1>2, <1>6, SendKeepsOrder
<1>7. CASE Poll \/ Subscribe \/ Subscribed
  BY <1>2, <1>7, WalkKeepsOrder
<1>8. CASE \E r \in Requests : Ask(r)
  BY <1>2, <1>8, BeginBatchKeepsOrder
<1>9. CASE ReadHub \/ ReadTask
  BY <1>2, <1>9, ReadKeepsOrder
<1>10. CASE Register
  BY <1>2, <1>10, RegisterKeepsOrder
<1>11. CASE Complete
  BY <1>2, <1>11, CompleteKeepsOrder
<1>12. CASE Leaving
  BY <1>12, LeavingEnds DEF ShapeInv
<1> QED
  BY <1>3, <1>4, <1>5, <1>6, <1>7, <1>8, <1>9, <1>10, <1>11, <1>12
  DEF Next, Publishing, Connection, Leaving

ConnectionInv == HubInv /\ ShapeInv /\ KnownInv /\ OrderInv

LEMMA ConnectionInit == ASSUME ProgressAssumption PROVE Init => ConnectionInv
<1> SUFFICES ASSUME Init PROVE ConnectionInv
  OBVIOUS
<1>1. HubInv /\ ShapeInv
  BY HubInit, ShapeInit
<1>2. /\ conn.at = "flush" /\ conn.read = <<>> /\ conn.items = <<>>
      /\ buf.mark = Clear /\ buf.dropped = Clear /\ buf.pending = <<>> /\ shown = Clear
      /\ \A p \in Publishers : pub[p].at = "idle"
  BY DEF Init, IdleThread
<1>3. KnownInv
  BY <1>2, EmptySet DEF KnownInv, Holds, Clear
<1>4. ASSUME NEW k \in Keys PROVE Ordered(k)
  <2>1. buf.mark[k] = None /\ shown[k] = None
    BY <1>2 DEF Clear
  <2> QED
    BY <1>2, <2>1, EmptySet DEF Ordered, InOrder, ReadsInOrder, Unpublished, Ahead, Follows
<1> QED
  BY <1>1, <1>3, <1>4 DEF ConnectionInv, OrderInv

LEMMA ConnectionStep ==
    ASSUME ProgressAssumption, ConnectionInv, [Next]_vars
    PROVE  ConnectionInv'
<1>1. HubInv' /\ ShapeInv'
  BY HubStep, ShapeStep DEF ConnectionInv
<1>2. CASE Next
  BY <1>1, <1>2, KnownStep, OrderStep DEF ConnectionInv
<1>3. CASE UNCHANGED vars
  <2>1. KnownInv'
    BY <1>3 DEF ConnectionInv, vars, KnownInv, Holds, Had, Published, Live, Batch
  <2>2. UNCHANGED <<buf, conn, shown, overtaken>>
    BY <1>3 DEF vars
  <2>3. OrderInv'
    BY <2>2, OrderKept DEF ConnectionInv, OrderInv, Live, Batch
  <2> QED
    BY <1>1, <2>1, <2>3 DEF ConnectionInv
<1> QED
  BY <1>2, <1>3

\* Whatever a connection holds was published, of an execution it was handed, and the
\* events of a key pass in order from a publication through the barrier, the queue and
\* what is being sent to the client.
THEOREM ConnectionInvariant == ASSUME ProgressAssumption PROVE Spec => []ConnectionInv
<1>1. Init => ConnectionInv
  BY ConnectionInit
<1>2. ConnectionInv /\ [Next]_vars => ConnectionInv'
  BY ConnectionStep
<1> QED
  BY <1>1, <1>2, PTL DEF Spec

LEMMA StepForward ==
    ASSUME ProgressAssumption, ConnectionInv, [Next]_vars, NEW k \in Keys \ overtaken
    PROVE  Follows(shown'[k], shown[k])
<1>1. shown[k] \in Snapshots \cup {None}
  BY DEF ConnectionInv, ShapeInv, ViewShape
<1>2. CASE shown' = shown
  BY <1>1, <1>2, SelfFollows
<1>3. CASE Send
  <2>1. Live
    BY <1>3 DEF Send, Live, Batch
  <2>2. Ordered(k)
    BY <2>1 DEF ConnectionInv, OrderInv
  <2> QED
    BY <1>3, <2>2, SendKeepsOrder DEF ConnectionInv
<1>4. CASE Close
  BY <1>4 DEF Close, Clear, Follows
<1>5. CASE (\E j \in Keys : Admit(j)) \/ (\E p \in Publishers : Publishing(p)) \/ UNCHANGED vars
  BY <1>2, <1>5 DEF Admit, Publishing, Guard, Commit, Call, client, vars
<1>6. CASE \/ Flush \/ Poll \/ (\E r \in Requests : Ask(r)) \/ Subscribe \/ Subscribed
           \/ ReadHub \/ ReadTask \/ Register \/ Complete
           \/ SubscribeFails \/ Rollback \/ RolledBack \/ SendFails \/ Disconnect
           \/ Release \/ Retry \/ Leave
  BY <1>2, <1>6 DEF Flush, Poll, Ask, Subscribe, Subscribed, ReadHub, ReadTask, Register, Complete,
                    SubscribeFails, Rollback, RolledBack, SendFails, Disconnect, Release,
                    Retry, Leave
<1> QED
  BY <1>3, <1>4, <1>5, <1>6 DEF Next, Connection

\* What the client is sent of a key never goes back, however calls, readings, flushes and
\* barriers are interleaved, unless the connection itself was handed an older execution
\* after a newer one.
THEOREM SentNeverBack ==
    ASSUME ProgressAssumption
    PROVE  Spec => SentForward
<1>1. ConnectionInv /\ [Next]_vars
        => [\A k \in Keys \ overtaken : Follows(shown'[k], shown[k])]_vars
  BY StepForward
<1> QED
  BY <1>1, ConnectionInvariant, PTL DEF Spec, SentForward

-------------------------------------------------------------------------------
(* The latest event of a key reaches the client, or was dropped.           *)

Newest(x, G) == \A y \in G : y.key = x.key /\ y.seq > 0 => Follows(x, y)

LEMMA Equal ==
    ASSUME ProgressAssumption, NEW s \in Snapshots, NEW t \in Snapshots, s.key = t.key,
           Follows(s, t), s.exec <= t.exec, s.exec = t.exec => s.seq <= t.seq
    PROVE  s = t
<1>1. s.exec = t.exec /\ s.seq = t.seq
  BY SnapshotFields, NotNone DEF Follows
<1> QED
  BY <1>1 DEF Snapshots

\* The newest event of a key, once dropped, stays the dropped one.
LEMMA DropNewest ==
    ASSUME ProgressAssumption, NEW d \in [Keys -> Snapshots \cup {None}], NEW t \in Snapshots,
           NEW x \in Snapshots,
           d[x.key] # None => d[x.key].key = x.key
    PROVE  /\ d[x.key] = x /\ (t.key = x.key => Follows(x, t)) => Drop(d, t)[x.key] = x
           /\ t = x /\ Follows(x, d[x.key]) => Drop(d, t)[x.key] = x
<1>1. /\ x.key \in Keys /\ t.key \in Keys
      /\ x.exec \in Nat /\ x.seq \in Nat /\ t.exec \in Nat /\ t.seq \in Nat
      /\ x # None /\ t # None
  BY SnapshotFields, NotNone
<1>2. ASSUME d[x.key] = x, t.key = x.key => Follows(x, t) PROVE Drop(d, t)[x.key] = x
  <2>1. CASE t.key # x.key
    BY <1>1, <1>2, <2>1, DropFacts
  <2>2. CASE t.key = x.key
    <3>1. ~Newer(t, x)
      BY <1>1, <1>2, <2>2 DEF Follows, Newer
    <3> QED
      BY <1>1, <1>2, <2>2, <3>1, DropFacts
  <2> QED
    BY <2>1, <2>2
<1>3. ASSUME t = x, Follows(x, d[x.key]) PROVE Drop(d, t)[x.key] = x
  <2>1. Drop(d, x)[x.key] = IF d[x.key] = None \/ Newer(x, d[x.key]) THEN x ELSE d[x.key]
    BY DropFacts
  <2>2. CASE d[x.key] = None \/ Newer(x, d[x.key])
    BY <1>3, <2>1, <2>2
  <2>3. CASE d[x.key] # None /\ ~Newer(x, d[x.key])
    <3>1. d[x.key] \in Snapshots /\ d[x.key].exec \in Nat /\ d[x.key].seq \in Nat
      BY <1>1, <2>3, SnapshotFields
    <3>2. x.exec <= d[x.key].exec /\ (x.exec = d[x.key].exec => x.seq <= d[x.key].seq)
      BY <1>1, <2>3, <3>1 DEF Newer
    <3>3. x = d[x.key]
      BY <1>3, <2>3, <3>1, <3>2, Equal
    <3> QED
      BY <1>3, <2>1, <2>3, <3>3
  <2> QED
    BY <2>2, <2>3
<1> QED
  BY <1>2, <1>3

LEMMA OfferReaches ==
    ASSUME ProgressAssumption, NEW b, WellFormed(b), NEW G, G \subseteq Snapshots, Holds(b, G),
           NEW s \in G, s.seq > 0, NEW x \in Snapshots, x.seq > 0, Newest(x, G),
           NEW sent \in BOOLEAN
    PROVE  /\ b.dropped[x.key] = x => OfferQueue(b, s).dropped[x.key] = x
           /\ Kept(b, x.key, x, sent) => Kept(OfferQueue(b, s), x.key, x, sent)
<1> DEFINE c == OfferQueue(b, s)
           k == x.key
           stale == b.mark[s.key] # None /\ StaleOrEqual(s, b.mark[s.key])
<1>0. s \in Snapshots /\ s.key \in Keys /\ k \in Keys
  BY SnapshotFields
<1>1. /\ stale => c = b
      /\ ~stale => c.mark[s.key] = s /\ s \in ToSet(c.queue)
      /\ \A j \in Keys : j # s.key => c.mark[j] = b.mark[j]
  BY <1>0, OfferQueueFacts
<1>10. \A t \in ToSet(c.queue) : t = s \/ t \in ToSet(b.queue)
  BY <1>0, OfferQueueFacts
<1>11. \A t \in ToSet(b.queue) : t.key # s.key =>
          t \in ToSet(c.queue) \/ c.dropped = Drop(b.dropped, t)
  BY <1>0, OfferQueueFacts
<1>12. c.dropped = b.dropped \/ \E t \in ToSet(b.queue) : c.dropped = Drop(b.dropped, t)
  BY <1>0, OfferQueueFacts
<1> HIDE DEF c
<1>2. /\ b.dropped \in [Keys -> Snapshots \cup {None}]
      /\ b.dropped[k] # None => b.dropped[k].key = k /\ b.dropped[k].seq > 0
      /\ b.dropped[k] \in G \cup {None}
  BY <1>0, BufFields DEF WellFormed, Holds
<1>3. \A t \in ToSet(b.queue) : t \in Snapshots /\ (t.key = k => Follows(x, t))
  <2> SUFFICES ASSUME NEW t \in ToSet(b.queue)
               PROVE  t \in Snapshots /\ (t.key = k => Follows(x, t))
    OBVIOUS
  <2>1. t \in Snapshots /\ t.key \in Keys
    BY BufFields, SnapshotFields
  <2>2. b.mark[t.key] = t /\ t.seq > 0
    BY DEF WellFormed
  <2>3. t \in G
    BY <2>1, <2>2, NotNone DEF Holds
  <2> QED
    BY <2>1, <2>2, <2>3 DEF Newest
<1>4. Follows(x, b.dropped[k])
  BY <1>2 DEF Newest, Follows
<1>5. ASSUME b.dropped[k] = x PROVE c.dropped[k] = x
  <2>1. CASE c.dropped = b.dropped
    BY <1>5, <2>1
  <2>2. ASSUME NEW t \in ToSet(b.queue), c.dropped = Drop(b.dropped, t) PROVE c.dropped[k] = x
    BY <1>2, <1>3, <1>5, <2>2, DropNewest
  <2> QED
    BY <1>12, <2>1, <2>2
<1>6. ASSUME Kept(b, k, x, sent) PROVE Kept(c, k, x, sent)
  <2> SUFFICES ASSUME c.mark[k] = x
               PROVE  x \in ToSet(c.queue) \/ (k \notin KeysIn(c.queue) /\ sent) \/ c.dropped[k] = x
    BY DEF Kept
  <2>1. CASE stale
    BY <1>1, <1>6, <2>1 DEF Kept
  <2>2. CASE ~stale /\ s.key = k
    BY <1>1, <2>2
  <2>3. CASE ~stale /\ s.key # k
    <3>1. b.mark[k] = x
      BY <1>0, <1>1, <2>3
    <3>2. CASE x \in ToSet(b.queue)
      <4>1. x \in ToSet(c.queue) \/ c.dropped = Drop(b.dropped, x)
        BY <1>11, <2>3, <3>2
      <4> QED
        BY <1>2, <1>4, <4>1, DropNewest
    <3>3. CASE k \notin KeysIn(b.queue) /\ sent
      <4>1. k \notin KeysIn(c.queue)
        BY <1>10, <2>3, <3>3 DEF KeysIn
      <4> QED
        BY <3>3, <4>1
    <3>4. CASE b.dropped[k] = x
      BY <1>5, <3>4
    <3> QED
      BY <1>6, <3>1, <3>2, <3>3, <3>4 DEF Kept
  <2> QED
    BY <2>1, <2>2, <2>3
<1> QED
  BY <1>5, <1>6 DEF c

LEMMA AsideReaches ==
    ASSUME ProgressAssumption, NEW b, WellFormed(b), NEW G, G \subseteq Snapshots, Holds(b, G),
           NEW s \in G, s.seq > 0, NEW x \in Snapshots, x.seq > 0, Newest(x, G)
    PROVE  LET c == OfferPending(b, s) IN
           /\ b.dropped[x.key] = x => c.dropped[x.key] = x
           /\ s = x => x \in ToSet(c.pending)
           /\ x \in ToSet(b.pending) /\ (s.key = x.key => s.exec >= x.exec) =>
                 x \in ToSet(c.pending) \/ c.dropped[x.key] = x
<1> DEFINE c == OfferPending(b, s)
           k == x.key
<1>0. /\ s \in Snapshots /\ s.key \in Keys /\ k \in Keys
      /\ s.exec \in Nat /\ s.seq \in Nat /\ x.exec \in Nat /\ x.seq \in Nat
      /\ x # None /\ s # None
  BY SnapshotFields, NotNone
<1>1. s \in ToSet(c.pending) \/ \E t \in ToSet(b.pending) : t.key = s.key /\ StaleOrEqual(s, t)
  BY <1>0, OfferPendingFacts
<1>2. \A t \in ToSet(b.pending) : t.key = s.key /\ StaleOrEqual(s, t) => t \in ToSet(c.pending)
  BY <1>0, OfferPendingFacts
<1>3. \A t \in ToSet(b.pending) : t.key # s.key =>
         t \in ToSet(c.pending) \/ c.dropped = Drop(b.dropped, t)
  BY <1>0, OfferPendingFacts
<1>4. c.dropped = b.dropped \/ \E t \in ToSet(b.pending) : c.dropped = Drop(b.dropped, t)
  BY <1>0, OfferPendingFacts
<1> HIDE DEF c
<1>5. /\ b.dropped \in [Keys -> Snapshots \cup {None}]
      /\ b.dropped[k] # None => b.dropped[k].key = k /\ b.dropped[k].seq > 0
      /\ b.dropped[k] \in G \cup {None}
  BY <1>0, BufFields DEF WellFormed, Holds
<1>6. \A t \in ToSet(b.pending) :
         t \in G /\ t \in Snapshots /\ t.seq > 0 /\ (t.key = k => Follows(x, t))
  BY DEF Holds, WellFormed, Newest
<1>7. Follows(x, b.dropped[k])
  BY <1>5 DEF Newest, Follows
<1>8. ASSUME b.dropped[k] = x PROVE c.dropped[k] = x
  <2>1. CASE c.dropped = b.dropped
    BY <1>8, <2>1
  <2>2. ASSUME NEW t \in ToSet(b.pending), c.dropped = Drop(b.dropped, t) PROVE c.dropped[k] = x
    BY <1>5, <1>6, <1>8, <2>2, DropNewest
  <2> QED
    BY <1>4, <2>1, <2>2
<1>9. ASSUME s = x PROVE x \in ToSet(c.pending)
  <2>1. ASSUME NEW t \in ToSet(b.pending), t.key = s.key, StaleOrEqual(s, t)
        PROVE  x \in ToSet(c.pending)
    <3>1. t \in Snapshots /\ Follows(x, t) /\ t \in ToSet(c.pending)
      BY <1>2, <1>6, <1>9, <2>1
    <3>2. x.exec <= t.exec /\ (x.exec = t.exec => x.seq <= t.seq)
      BY <1>0, <1>9, <2>1 DEF StaleOrEqual
    <3>3. x = t
      BY <1>9, <2>1, <3>1, <3>2, Equal
    <3> QED
      BY <3>1, <3>3
  <2> QED
    BY <1>1, <1>9, <2>1
<1>10. ASSUME x \in ToSet(b.pending), s.key = x.key => s.exec >= x.exec
       PROVE  x \in ToSet(c.pending) \/ c.dropped[k] = x
  <2>1. CASE s.key = k
    <3>1. Follows(x, s)
      BY <2>1 DEF Newest
    <3>2. StaleOrEqual(s, x)
      BY <1>0, <1>10, <2>1, <3>1 DEF Follows, StaleOrEqual
    <3> QED
      BY <1>2, <1>10, <2>1, <3>2
  <2>2. CASE s.key # k
    <3>1. x \in ToSet(c.pending) \/ c.dropped = Drop(b.dropped, x)
      BY <1>3, <1>10, <2>2
    <3> QED
      BY <1>5, <1>7, <3>1, DropNewest
  <2> QED
    BY <2>1, <2>2
<1> QED
  BY <1>8, <1>9, <1>10 DEF c

LEMMA LatestNewest ==
    ASSUME ProgressAssumption, HubInv, NumberInv, NEW k \in Keys, latest[k] # None
    PROVE  /\ latest[k] \in Snapshots /\ latest[k].key = k /\ latest[k].seq > 0
           /\ Newest(latest[k], Published) /\ Newest(latest[k], Had)
           /\ latest[k] \in Published
<1>1. latest[k] \in Snapshots /\ latest[k].key = k /\ latest[k].seq > 0
  BY DEF NumberInv, Numbered
<1>2. Newest(latest[k], Published)
  BY <1>1 DEF Newest, Published
<1>3. Newest(latest[k], Had)
  BY <1>2 DEF Newest, Had
<1>4. latest[k] \in Published
  BY <1>1, SelfFollows DEF Published
<1> QED
  BY <1>1, <1>2, <1>3, <1>4

-------------------------------------------------------------------------------
(* An entry is dropped only if there are more keys than fit.               *)

LEMMA Overfull ==
    ASSUME NEW q \in Seq(Snapshots), OnePerKey(q), NEW M, IsFiniteSet(M), KeysIn(q) \subseteq M,
           NEW k \in M, k \notin KeysIn(q), NEW c \in Nat, Len(q) >= c
    PROVE  Cardinality(M) > c
<1> DEFINE n == Len(q)
           f == [i \in 1 .. n + 1 |-> IF i = n + 1 THEN k ELSE q[i].key]
<1>1. n \in Nat /\ \A i \in 1 .. n : q[i] \in ToSet(q)
  BY DEF ToSet
<1>2. \A i \in 1 .. n : q[i].key \in KeysIn(q) /\ q[i].key \in M /\ q[i].key # k
  BY <1>1 DEF KeysIn
<1>3. f \in [1 .. n + 1 -> M]
  BY <1>1, <1>2
<1>4. ASSUME NEW i \in 1 .. n + 1, NEW j \in 1 .. n + 1, f[i] = f[j] PROVE i = j
  <2>1. CASE i = n + 1 /\ j # n + 1
    BY <1>1, <1>2, <1>4, <2>1
  <2>2. CASE i # n + 1 /\ j = n + 1
    BY <1>1, <1>2, <1>4, <2>2
  <2>3. CASE i # n + 1 /\ j # n + 1
    <3>1. i \in 1 .. n /\ j \in 1 .. n /\ q[i].key = q[j].key
      BY <1>1, <1>4, <2>3
    <3> QED
      BY <3>1 DEF OnePerKey
  <2> QED
    BY <2>1, <2>2, <2>3
<1> HIDE DEF f
<1>5. f \in Injection(1 .. n + 1, M)
  BY <1>3, <1>4, Fun_IsInj
<1>6. Cardinality(1 .. n + 1) <= Cardinality(M)
  BY <1>5, FS_Injection
<1>7. Cardinality(1 .. n + 1) = n + 1
  BY <1>1, FS_Interval
<1>8. Cardinality(M) \in Nat
  BY FS_CardinalityType
<1> QED
  BY <1>1, <1>6, <1>7, <1>8

LEMMA FitsMore ==
    ASSUME ProgressAssumption, NEW b, WellFormed(b), NEW L, NEW M, IsFiniteSet(M), L \subseteq M,
           Fits(b, L)
    PROVE  Fits(b, M)
<1>1. Cardinality(L) <= Cardinality(M) /\ Cardinality(L) \in Nat /\ Cardinality(M) \in Nat
  BY FS_Subset, FS_CardinalityType
<1>2. b.capacity \in Nat
  BY BufFields
<1> QED
  BY <1>1, <1>2 DEF Fits

LEMMA OfferFits ==
    ASSUME ProgressAssumption, NEW b, WellFormed(b), NEW s \in Snapshots, s.seq > 0,
           NEW M, IsFiniteSet(M), Fits(b, M), s.key \in M
    PROVE  Fits(OfferQueue(b, s), M) /\ Fits(OfferPending(b, s), M)
<1>1. /\ b.capacity \in Nat /\ b.queue \in Seq(Snapshots) /\ b.pending \in Seq(Snapshots)
      /\ OnePerKey(b.queue) /\ OnePerKey(b.pending)
      /\ KeysIn(b.queue) \subseteq M /\ KeysIn(b.pending) \subseteq M
  BY BufFields DEF WellFormed, Fits
<1>2. /\ Overflows(b.queue, s, b.capacity) => Cardinality(M) > b.capacity
      /\ Overflows(b.pending, s, b.capacity) => Cardinality(M) > b.capacity
  BY <1>1, Overfull DEF Overflows
<1>3. Fits(OfferQueue(b, s), M)
  <2> DEFINE c == OfferQueue(b, s)
  <2>1. c.capacity = b.capacity /\ c.pending = b.pending
    BY OfferQueueFacts
  <2>2. \A t \in ToSet(c.queue) : t = s \/ t \in ToSet(b.queue)
    BY OfferQueueFacts
  <2>3. c.dropped = b.dropped \/ Overflows(b.queue, s, b.capacity)
    BY OfferQueueFacts
  <2> HIDE DEF c
  <2>4. Fits(c, M)
    BY <1>1, <1>2, <2>1, <2>2, <2>3 DEF Fits, KeysIn
  <2> QED
    BY <2>4 DEF c
<1>4. Fits(OfferPending(b, s), M)
  <2> DEFINE c == OfferPending(b, s)
  <2>1. c.capacity = b.capacity /\ c.queue = b.queue
    BY OfferPendingFacts
  <2>2. \A t \in ToSet(c.pending) : t = s \/ t \in ToSet(b.pending)
    BY OfferPendingFacts
  <2>3. c.dropped = b.dropped \/ Overflows(b.pending, s, b.capacity)
    BY OfferPendingFacts
  <2> HIDE DEF c
  <2>4. Fits(c, M)
    BY <1>1, <1>2, <2>1, <2>2, <2>3 DEF Fits, KeysIn
  <2> QED
    BY <2>4 DEF c
<1> QED
  BY <1>3, <1>4

LEMMA FinishFits ==
    ASSUME ProgressAssumption, NEW b, WellFormed(b), NEW read, Readings(read),
           NEW M, IsFiniteSet(M), Fits(b, M)
    PROVE  Fits(FinishBatch(b, read), M)
<1> DEFINE I == {c \in Buffers : Fits(c, M)}
<1>1. Opened(b, read) \in I
  <2> DEFINE o == Opened(b, read)
  <2>1. /\ WellFormed(o) /\ o.capacity = b.capacity
        /\ o.pending = <<>> /\ o.dropped = b.dropped
    BY OpenedFacts
  <2>2. \A t : t \in ToSet(o.queue) => t \in ToSet(b.queue)
    BY OpenedQueue
  <2> HIDE DEF o
  <2>3. o \in Buffers
    BY <2>1 DEF WellFormed
  <2>4. Fits(o, M)
    BY <2>1, <2>2, EmptySet DEF Fits, KeysIn
  <2> QED
    BY <2>3, <2>4 DEF o
<1>2. ASSUME NEW c \in I, NEW t \in ToSet(b.pending), WellFormed(c) PROVE OfferQueue(c, t) \in I
  <2>1. t \in Snapshots /\ t.seq > 0 /\ t.key \in M
    <3>1. t \in Snapshots
      BY BufFields
    <3>2. t.key \in KeysIn(b.pending)
      BY DEF KeysIn
    <3> QED
      BY <3>1, <3>2 DEF WellFormed, Fits
  <2>2. WellFormed(OfferQueue(c, t))
    BY <1>2, <2>1, OfferQueueFacts
  <2>3. Fits(OfferQueue(c, t), M)
    BY <1>2, <2>1, OfferFits
  <2> QED
    BY <2>2, <2>3 DEF WellFormed
<1> HIDE DEF I
<1>3. FinishBatch(b, read) \in I
  BY <1>1, <1>2, FinishKeeps
<1> QED
  BY <1>3 DEF I

LEMMA FinishReaches ==
    ASSUME ProgressAssumption, NEW b, WellFormed(b), NEW read, Readings(read),
           NEW G, G \subseteq Snapshots, Holds(b, G), \A k \in Keys : read[k] \in G \cup {None},
           NEW x \in Snapshots, x.seq > 0, Newest(x, G), NEW sent \in BOOLEAN
    PROVE  /\ b.dropped[x.key] = x => FinishBatch(b, read).dropped[x.key] = x
           /\ Kept(Opened(b, read), x.key, x, sent) => Kept(FinishBatch(b, read), x.key, x, sent)
<1> DEFINE D == {c \in Buffers : Holds(c, G) /\ (b.dropped[x.key] = x => c.dropped[x.key] = x)}
           K == {c \in Buffers : Holds(c, G)
                     /\ (Kept(Opened(b, read), x.key, x, sent) => Kept(c, x.key, x, sent))}
           o == Opened(b, read)
<1>1. /\ o.pending = <<>> /\ o.dropped = b.dropped /\ WellFormed(o)
      /\ \A k \in Keys :
            /\ k \notin KeysIn(o.queue) /\ read[k] # None => o.mark[k] = read[k]
            /\ k \in KeysIn(o.queue) \/ read[k] = None => o.mark[k] = b.mark[k]
  BY OpenedFacts
<1>2. o \in Buffers /\ Holds(o, G)
  <2> HIDE DEF o
  <2> QED
    BY <1>1, EmptySet DEF Holds, WellFormed
<1>3. o \in D /\ o \in K
  BY <1>1, <1>2
<1> HIDE DEF o
<1>4. ASSUME NEW c, c \in Buffers, Holds(c, G), WellFormed(c), NEW t \in ToSet(b.pending)
      PROVE  /\ OfferQueue(c, t) \in Buffers /\ Holds(OfferQueue(c, t), G)
             /\ c.dropped[x.key] = x => OfferQueue(c, t).dropped[x.key] = x
             /\ Kept(c, x.key, x, sent) => Kept(OfferQueue(c, t), x.key, x, sent)
  <2>1. t \in Snapshots /\ t.seq > 0 /\ t \in G
    BY DEF WellFormed, Holds
  <2>2. WellFormed(OfferQueue(c, t))
    BY <1>4, <2>1, OfferQueueFacts
  <2>3. Holds(OfferQueue(c, t), G)
    BY <1>4, <2>1, PublishHolds
  <2>4. /\ c.dropped[x.key] = x => OfferQueue(c, t).dropped[x.key] = x
        /\ Kept(c, x.key, x, sent) => Kept(OfferQueue(c, t), x.key, x, sent)
    BY <1>4, <2>1, OfferReaches
  <2> QED
    BY <2>2, <2>3, <2>4 DEF WellFormed
<1>5. \A c \in D : \A t \in ToSet(b.pending) : WellFormed(c) => OfferQueue(c, t) \in D
  BY <1>4
<1>6. \A c \in K : \A t \in ToSet(b.pending) : WellFormed(c) => OfferQueue(c, t) \in K
  BY <1>4
<1>7. FinishBatch(b, read) \in D /\ FinishBatch(b, read) \in K
  <2> HIDE DEF D, K
  <2> QED
    BY <1>3, <1>5, <1>6, FinishKeeps DEF o
<1> QED
  BY <1>7

LEMMA RequestKeys ==
    ASSUME ProgressAssumption, ConnShape
    PROVE  conn.request \in Seq(Keys)
<1>1. conn.request \in Requests \cup {<<>>}
  BY DEF ConnShape
<1>2. <<>> \in Seq(Keys)
  OBVIOUS
<1> QED
  BY <1>1, <1>2 DEF ProgressAssumption

LEMMA SubscriptionKept ==
    ASSUME ProgressAssumption, SubscriptionInv, Live,
           UNCHANGED subscribed, Mine' = Mine, Fits(buf', Mine),
           conn'.added = conn.added \/ conn'.added = {},
           conn'.request = conn.request \/ conn'.added = {},
           conn'.request = conn.request \/ conn'.at \notin {"read", "fallback", "sending"},
           conn'.at = "sending" => conn'.added \subseteq conn'.tokens,
           conn'.at \in {"read", "fallback", "sending"} =>
              \A i \in 1 .. Len(conn.request) : conn.request[i] \in Mine,
           \A p \in Publishers : pub'[p].at = "call" =>
              pub'[p].call.key \in Mine
    PROVE  SubscriptionInv'
<1>1. /\ subscribed = Mine /\ IsFiniteSet(Mine)
      /\ \A k \in conn.added : \E i \in 1 .. Len(conn.request) : conn.request[i] = k
  BY DEF SubscriptionInv
<1>2. \A k \in conn'.added : \E i \in 1 .. Len(conn'.request) : conn'.request[i] = k
  BY <1>1
<1>3. conn'.at \in {"read", "fallback", "sending"} =>
         \A i \in 1 .. Len(conn'.request) : conn'.request[i] \in Mine
  OBVIOUS
<1>4. subscribed' = Mine' /\ IsFiniteSet(Mine') /\ Fits(buf', Mine')
  BY <1>1
<1>5. /\ \A i \in 1 .. Len(conn'.request) :
            conn'.at \in {"read", "fallback", "sending"} => conn'.request[i] \in Mine'
      /\ \A p \in Publishers : pub'[p].at = "call" => pub'[p].call.key \in Mine'
  BY <1>3
<1> QED
  BY <1>2, <1>4, <1>5 DEF SubscriptionInv

LEMMA PublishingKeepsSubscriptions ==
    ASSUME ProgressAssumption, HubInv, ShapeInv, SubscriptionInv, Live,
           (\E k \in Keys : Admit(k)) \/ (\E p \in Publishers : Publishing(p))
    PROVE  SubscriptionInv'
<1>1. /\ subscribed = Mine /\ IsFiniteSet(Mine) /\ Fits(buf, Mine)
      /\ \A p \in Publishers : pub[p].at = "call" => pub[p].call.key \in Mine
      /\ conn.at = "sending" => conn.added \subseteq conn.tokens
      /\ conn.at \in {"read", "fallback", "sending"} =>
              \A i \in 1 .. Len(conn.request) : conn.request[i] \in Mine
  BY DEF SubscriptionInv
<1>2. conn' = conn /\ subscribed' = subscribed
  BY DEF Admit, Publishing, Guard, Commit, Call, client
<1>3. Mine' = Mine
  BY <1>2 DEF Mine
<1>4. CASE (\E k \in Keys : Admit(k)) \/ (\E p \in Publishers : Guard(p))
  <2>1. buf' = buf /\ \A p \in Publishers : pub'[p].at = "call" => pub'[p].call.key \in Mine
    BY <1>1, <1>4, QuietSteps, NoNewCall
  <2> QED
    BY <1>1, <1>2, <1>3, <2>1, SubscriptionKept
<1>5. ASSUME NEW p \in Publishers, Commit(p) PROVE SubscriptionInv'
  <2> DEFINE k == Key(p)
             s == Event(p)
  <2>1. /\ s.key = k /\ \A q \in Publishers \ {p} : pub'[q] = pub[q]
        /\ IF k \in subscribed THEN pub'[p].at = "call" /\ pub'[p].call = s
                               ELSE pub'[p].at # "call"
    BY <1>5, CommitCalls DEF ShapeInv
  <2> HIDE DEF s, k
  <2>2. buf' = buf /\ \A q \in Publishers : pub'[q].at = "call" => pub'[q].call.key \in Mine
    BY <1>1, <1>5, <2>1, QuietSteps
  <2> QED
    BY <1>1, <1>2, <1>3, <2>2, SubscriptionKept
<1>6. ASSUME NEW p \in Publishers, Call(p) PROVE SubscriptionInv'
  <2> DEFINE s == pub[p].call
  <2>1. /\ s \in Snapshots /\ s.seq > 0 /\ pub[p].at = "call" /\ buf' = Publish(buf, s)
        /\ \A q \in Publishers \ {p} : pub'[q] = pub[q]
        /\ pub'[p].at # "call"
    BY <1>6, CallFacts
  <2>2. s.key \in Mine /\ WellFormed(buf) /\ buf.closed = FALSE /\ buf.batch \in BOOLEAN
    BY <1>1, <2>1 DEF ShapeInv, BufShape, WellFormed, Buffers
  <2>3. Fits(buf', Mine)
    BY <1>1, <2>1, <2>2, OfferFits DEF Publish
  <2>4. \A q \in Publishers : pub'[q].at = "call" => pub'[q].call.key \in Mine
    BY <1>1, <2>1
  <2> QED
    BY <1>1, <1>2, <1>3, <2>3, <2>4, SubscriptionKept
<1> QED
  BY <1>4, <1>5, <1>6 DEF Publishing

LEMMA SubscribeKeepsSubscriptions ==
    ASSUME ProgressAssumption, ShapeInv, SubscriptionInv, Live, Subscribe
    PROVE  SubscriptionInv'
<1>1. /\ subscribed = Mine /\ IsFiniteSet(Mine) /\ Fits(buf, Mine)
      /\ \A k \in conn.added : \E i \in 1 .. Len(conn.request) : conn.request[i] = k
      /\ \A p \in Publishers : pub[p].at = "call" => pub[p].call.key \in Mine
  BY DEF SubscriptionInv
<1>2. PICK i \in DOMAIN conn.request :
         /\ subscribed' = subscribed \cup {conn.request[i]}
         /\ conn' = [conn EXCEPT !.added = @ \cup {conn.request[i]}]
  BY DEF Subscribe
<1> DEFINE k == conn.request[i]
<1>3. /\ conn'.added = conn.added \cup {k} /\ conn'.tokens = conn.tokens
      /\ conn'.request = conn.request /\ conn'.at = "subscribe"
      /\ buf' = buf /\ pub' = pub /\ i \in 1 .. Len(conn.request)
  <2>1. conn.request \in Seq(Keys)
    BY RequestKeys DEF ShapeInv
  <2> QED
    BY <1>2, <2>1 DEF Subscribe, ShapeInv, ConnShape
<1> HIDE DEF k
<1>4. Mine' = Mine \cup {k}
  BY <1>3 DEF Mine
<1>5. IsFiniteSet(Mine') /\ subscribed' = Mine'
  BY <1>1, <1>2, <1>4, FS_AddElement DEF k
<1>6. Fits(buf', Mine')
  BY <1>1, <1>3, <1>4, <1>5, FitsMore DEF ShapeInv, BufShape
<1>7. \A j \in conn'.added : \E n \in 1 .. Len(conn'.request) : conn'.request[n] = j
  BY <1>1, <1>3 DEF k
<1>8. \A p \in Publishers : pub'[p].at = "call" => pub'[p].call.key \in Mine'
  BY <1>1, <1>3, <1>4
<1> QED
  BY <1>3, <1>5, <1>6, <1>7, <1>8 DEF SubscriptionInv

LEMMA WalkKeepsSubscriptions ==
    ASSUME ProgressAssumption, ShapeInv, SubscriptionInv, Live,
           \/ Flush \/ Send \/ Poll \/ (\E r \in Requests : Ask(r)) \/ Subscribed
           \/ ReadHub \/ ReadTask
    PROVE  SubscriptionInv'
<1>1. /\ subscribed = Mine /\ IsFiniteSet(Mine) /\ Fits(buf, Mine)
      /\ \A k \in conn.added : \E i \in 1 .. Len(conn.request) : conn.request[i] = k
      /\ \A p \in Publishers : pub[p].at = "call" => pub[p].call.key \in Mine
      /\ conn.at = "sending" => conn.added \subseteq conn.tokens
      /\ conn.at \in {"read", "fallback", "sending"} =>
              \A i \in 1 .. Len(conn.request) : conn.request[i] \in Mine
  BY DEF SubscriptionInv
<1>2. subscribed' = subscribed /\ pub' = pub
  BY DEF Flush, Send, Poll, Ask, Subscribed, ReadHub, ReadTask
<1>3. conn'.added = conn.added /\ conn'.tokens = conn.tokens
  <2>1. CASE Poll \/ Subscribed
    BY <2>1, ConnFields DEF Poll, Subscribed, Goto, ShapeInv
  <2>2. CASE Flush \/ Send \/ \E r \in Requests : Ask(r)
    BY <2>2, ConnFields DEF Flush, Send, Ask, ShapeInv
  <2>3. CASE ReadHub \/ ReadTask
    BY <2>3, ConnFields DEF ReadHub, ReadTask, Goto, Got, ShapeInv
  <2> QED
    BY <2>1, <2>2, <2>3
<1>4. Mine' = Mine
  BY <1>3 DEF Mine
<1>5. Fits(buf', Mine)
  <2>1. CASE Flush
    <3>1. buf' = [buf EXCEPT !.queue = <<>>]
      BY <2>1 DEF Flush
    <3>2. /\ buf'.queue = <<>> /\ buf'.pending = buf.pending /\ buf'.dropped = buf.dropped
          /\ buf'.capacity = buf.capacity
      BY <3>1, BufFields DEF ShapeInv, BufShape
    <3> QED
      BY <1>1, <3>2, EmptySet DEF Fits, KeysIn
  <2>2. CASE \E r \in Requests : Ask(r)
    <3>1. buf' = BeginBatch(buf)
      BY <2>2 DEF Ask
    <3>2. /\ buf'.queue = buf.queue /\ buf'.pending = buf.pending /\ buf'.dropped = buf.dropped
          /\ buf'.capacity = buf.capacity
      BY <3>1, BufFields DEF ShapeInv, BufShape
    <3> QED
      BY <1>1, <3>2 DEF Fits
  <2>3. CASE Send \/ Poll \/ Subscribed \/ ReadHub \/ ReadTask
    BY <1>1, <2>3 DEF Send, Poll, Subscribed, ReadHub, ReadTask
  <2> QED
    BY <2>1, <2>2, <2>3
<1>6. CASE Flush \/ Send \/ Poll \/ ReadHub \/ ReadTask
  <2>1. /\ conn'.request = conn.request
        /\ conn'.at \in {"read", "fallback", "sending"} =>
              conn.at \in {"read", "fallback", "sending"}
        /\ conn'.at = "sending" => conn.at = "sending"
    <3>1. CASE Flush \/ Send \/ Poll
      BY <3>1, ConnFields DEF Flush, Send, Poll, Goto, ShapeInv
    <3>2. CASE ReadHub \/ ReadTask
      BY <3>2, ConnFields DEF ReadHub, ReadTask, Goto, Got, ShapeInv
    <3> QED
      BY <1>6, <3>1, <3>2
  <2> QED
    BY <1>1, <1>2, <1>3, <1>4, <1>5, <2>1, SubscriptionKept
<1>7. CASE \E r \in Requests : Ask(r)
  <2>1. conn'.at = "subscribe" /\ conn'.added = {}
    BY <1>7 DEF Ask, Waiting, ShapeInv, ConnShape, Live, Batch
  <2> QED
    BY <1>1, <1>2, <1>3, <1>4, <1>5, <2>1, SubscriptionKept
<1>8. CASE Subscribed
  <2>1. conn'.at = "read" /\ conn'.request = conn.request
    BY <1>8 DEF Subscribed, Goto, ShapeInv, ConnShape
  <2>2. \A i \in 1 .. Len(conn.request) : conn.request[i] \in Mine
    <3>1. conn.request \in Seq(Keys)
      BY RequestKeys DEF ShapeInv
    <3> QED
      BY <1>8, <3>1 DEF Subscribed, Mine
  <2> QED
    BY <1>1, <1>2, <1>3, <1>4, <1>5, <2>1, <2>2, SubscriptionKept
<1> QED
  BY <1>6, <1>7, <1>8

LEMMA AnswerKeepsSubscriptions ==
    ASSUME ProgressAssumption, ShapeInv, SubscriptionInv, Live, Register \/ Complete
    PROVE  SubscriptionInv'
<1>1. /\ subscribed = Mine /\ IsFiniteSet(Mine) /\ Fits(buf, Mine)
      /\ \A p \in Publishers : pub[p].at = "call" => pub[p].call.key \in Mine
      /\ conn.at = "sending" => conn.added \subseteq conn.tokens
      /\ conn.at \in {"read", "fallback", "sending"} =>
              \A i \in 1 .. Len(conn.request) : conn.request[i] \in Mine
  BY DEF SubscriptionInv
<1>2. subscribed' = subscribed /\ pub' = pub
  BY DEF Register, Complete
<1>3. CASE Register
  <2>1. /\ conn'.added = conn.added /\ conn'.tokens = conn.tokens \cup conn.added
        /\ conn'.request = conn.request /\ conn.at = "read" /\ buf' = buf
    BY <1>3 DEF Register, ShapeInv, ConnShape
  <2>2. Mine' = Mine
    BY <2>1 DEF Mine
  <2> QED
    BY <1>1, <1>2, <2>1, <2>2, SubscriptionKept
<1>4. CASE Complete
  <2> DEFINE read == [k \in Keys |-> LastRead(k)]
  <2>1. /\ conn'.added = {} /\ conn'.tokens = conn.tokens /\ conn'.at = "flush"
        /\ conn.at = "sending" /\ buf' = FinishBatch(buf, read)
    BY <1>4 DEF Complete, ShapeInv, ConnShape
  <2>2. Mine' = Mine
    BY <1>1, <2>1 DEF Mine
  <2>3. Readings(read) /\ WellFormed(buf)
    BY LastReadings DEF ShapeInv, BufShape
  <2> HIDE DEF read
  <2>4. Fits(buf', Mine)
    BY <1>1, <2>1, <2>3, FinishFits
  <2> QED
    BY <1>1, <1>2, <2>1, <2>2, <2>4, SubscriptionKept
<1> QED
  BY <1>3, <1>4

LEMMA SubscriptionStep ==
    ASSUME ProgressAssumption, HubInv, ShapeInv, SubscriptionInv, Next
    PROVE  SubscriptionInv'
<1> SUFFICES ASSUME Live' PROVE SubscriptionInv'
  BY DEF SubscriptionInv
<1>1. Live
  BY HistoryGrows
<1>2. CASE (\E k \in Keys : Admit(k)) \/ (\E p \in Publishers : Publishing(p))
  BY <1>1, <1>2, PublishingKeepsSubscriptions
<1>3. CASE Subscribe
  BY <1>1, <1>3, SubscribeKeepsSubscriptions
<1>4. CASE \/ Flush \/ Send \/ Poll \/ (\E r \in Requests : Ask(r)) \/ Subscribed
           \/ ReadHub \/ ReadTask
  BY <1>1, <1>4, WalkKeepsSubscriptions
<1>5. CASE Register \/ Complete
  BY <1>1, <1>5, AnswerKeepsSubscriptions
<1>6. CASE Leaving
  BY <1>6, LeavingEnds DEF ShapeInv
<1> QED
  BY <1>2, <1>3, <1>4, <1>5, <1>6 DEF Next, Connection, Leaving

LEMMA LastReadMoves ==
    ASSUME ProgressAssumption, ConnShape, NEW s \in Snapshots \cup {None}, Got(s), NEW k \in Keys
    PROVE  LastRead(k)' = IF s # None /\ s.key = k THEN s ELSE LastRead(k)
<1> DEFINE q == conn.read
           r == conn'.read
<1>1. /\ q \in Seq(Snapshots \cup {None}) /\ r \in Seq(Snapshots \cup {None})
      /\ Len(q) \in Nat /\ Len(r) = Len(q) + 1
      /\ \A i \in 1 .. Len(q) : r[i] = q[i]
      /\ r[Len(q) + 1] = s
  <2>1. r = Append(q, s) /\ q \in Seq(Snapshots \cup {None})
    BY DEF Got, ConnShape
  <2> HIDE DEF q, r
  <2> QED
    BY <2>1
<1>2. LastRead(k) = LastIn(q, k) /\ LastRead(k)' = LastIn(r, k)
  BY DEF LastRead, LastIn
<1> HIDE DEF q, r
<1>3. CASE s # None /\ s.key = k
  <2>1. Len(r) \in 1 .. Len(r) /\ r[Len(r)] # None /\ r[Len(r)].key = k
    BY <1>1, <1>3
  <2>2. LastIn(r, k) # None
    BY <1>1, <2>1, LastInFacts
  <2>3. PICK i \in 1 .. Len(r) :
           /\ r[i] = LastIn(r, k)
           /\ \A j \in i + 1 .. Len(r) : r[j] # None => r[j].key # k
    BY <1>1, <2>2, LastInFacts
  <2>4. i = Len(r)
    BY <1>1, <2>1, <2>3
  <2> QED
    BY <1>1, <1>2, <1>3, <2>3, <2>4
<1>4. CASE s = None \/ s.key # k
  <2>1. CASE LastIn(q, k) = None
    <3>1. \A i \in 1 .. Len(q) : q[i] # None => q[i].key # k
      BY <1>1, <2>1, LastInFacts
    <3>2. \A i \in 1 .. Len(r) : r[i] # None => r[i].key # k
      BY <1>1, <1>4, <3>1
    <3>3. LastIn(r, k) = None
      BY <1>1, <3>2, LastInFacts
    <3> QED
      BY <1>2, <1>4, <2>1, <3>3
  <2>2. CASE LastIn(q, k) # None
    <3>1. PICK i \in 1 .. Len(q) :
             /\ q[i] = LastIn(q, k) /\ q[i].key = k
             /\ \A j \in i + 1 .. Len(q) : q[j] # None => q[j].key # k
      BY <1>1, <2>2, LastInFacts
    <3>2. i \in 1 .. Len(r) /\ r[i] = q[i] /\ r[i] # None
      BY <1>1, <2>2, <3>1
    <3>3. LastIn(r, k) # None
      BY <1>1, <3>1, <3>2, LastInFacts
    <3>4. PICK m \in 1 .. Len(r) :
             /\ r[m] = LastIn(r, k) /\ r[m].key = k
             /\ \A j \in m + 1 .. Len(r) : r[j] # None => r[j].key # k
      BY <1>1, <3>3, LastInFacts
    <3>5. m # Len(q) + 1
      BY <1>1, <1>4, <3>3, <3>4
    <3>6. m \in 1 .. Len(q) /\ q[m] = r[m]
      BY <1>1, <3>4, <3>5
    <3>7. ~(i < m)
      BY <1>1, <3>1, <3>3, <3>4, <3>6
    <3>8. ~(m < i)
      BY <1>1, <3>1, <3>2, <3>4
    <3>9. m = i
      BY <3>6, <3>7, <3>8
    <3> QED
      BY <1>2, <1>4, <3>1, <3>2, <3>4, <3>9
  <2> QED
    BY <2>1, <2>2
<1> QED
  BY <1>3, <1>4

-------------------------------------------------------------------------------
(* The latest event, step by step.                                         *)

\* What the client has of a key once it is sent the first item is what it would have had.
LEMMA SendOne ==
    ASSUME NEW items \in Seq(Snapshots), items # <<>>, NEW k, NEW x, NEW s, NEW t,
           t = IF Head(items).key = k THEN Head(items) ELSE s,
           x.key = k, LastSent(items, s, k, x)
    PROVE  LastSent(Tail(items), t, k, x)
<1> DEFINE r == Tail(items)
<1>1. /\ Head(items) = items[1] /\ 1 \in 1 .. Len(items) /\ Len(r) = Len(items) - 1
      /\ Len(items) \in Nat
      /\ \A i \in 1 .. Len(r) : i + 1 \in 1 .. Len(items) /\ r[i] = items[i + 1]
  OBVIOUS
<1> HIDE DEF r
<1>2. ASSUME NEW i \in 1 .. Len(items), items[i] = x,
             \A j \in i + 1 .. Len(items) : items[j].key # k
      PROVE  LastSent(r, t, k, x)
  <2>1. CASE i = 1
    <3>1. \A j \in 1 .. Len(r) : r[j].key # k
      BY <1>1, <1>2, <2>1
    <3>2. t = x
      BY <1>1, <1>2, <2>1
    <3> QED
      BY <3>1, <3>2 DEF LastSent
  <2>2. CASE i > 1
    <3>1. i - 1 \in 1 .. Len(r) /\ r[i - 1] = x
      BY <1>1, <1>2, <2>2
    <3>2. \A j \in (i - 1) + 1 .. Len(r) : r[j].key # k
      BY <1>1, <1>2, <2>2
    <3> QED
      BY <3>1, <3>2 DEF LastSent
  <2> QED
    BY <2>1, <2>2
<1>3. ASSUME \A i \in 1 .. Len(items) : items[i].key # k, s = x PROVE LastSent(r, t, k, x)
  <2>1. \A j \in 1 .. Len(r) : r[j].key # k
    BY <1>1, <1>3
  <2> QED
    BY <1>1, <1>3, <2>1 DEF LastSent
<1> QED
  BY <1>2, <1>3 DEF LastSent, r

LEMMA ReachKept ==
    ASSUME NEW k \in Keys, Reaches(k), latest'[k] = latest[k], conn'.read = conn.read,
           latest[k] # None /\ OnItsWay(k) => OnItsWay(k)',
           buf'.mark[k] = buf.mark[k],
           Followed(k)' => Followed(k),
           conn'.at = "fallback" /\ Asked' = k => conn.at = "fallback" /\ Asked = k,
           conn.at = "sending" => conn'.at = "sending",
           latest[k] # None
              /\ Kept(buf, k, latest[k], LastSent(conn.items, shown[k], k, latest[k])) =>
                 Kept(buf', k, latest[k], LastSent(conn'.items, shown'[k], k, latest[k]))
    PROVE  Reaches(k)'
<1>1. LastRead(k)' = LastRead(k) /\ LastOf(k)' = LastOf(k)
  BY DEF LastRead, LastOf
<1> SUFFICES ASSUME latest[k] # None
             PROVE  /\ Followed(k)' => OnItsWay(k)' \/ LastOf(k)' = latest[k]
                    /\ conn'.at = "fallback" /\ Asked' = k => OnItsWay(k)'
                    /\ (conn'.at = "sending" => LastRead(k)' = None) =>
                          Kept(buf', k, latest[k], LastSent(conn'.items, shown'[k], k, latest[k]))
  BY DEF Reaches
<1>2. /\ Followed(k) => OnItsWay(k) \/ LastOf(k) = latest[k]
      /\ conn.at = "fallback" /\ Asked = k => OnItsWay(k)
      /\ (conn.at = "sending" => LastRead(k) = None) =>
            Kept(buf, k, latest[k], LastSent(conn.items, shown[k], k, latest[k]))
  BY DEF Reaches
<1> QED
  BY <1>1, <1>2

LEMMA QuietReaches ==
    ASSUME ProgressAssumption, HubInv, NEW k \in Keys, Reaches(k),
           (\E j \in Keys : Admit(j)) \/ (\E p \in Publishers : Guard(p))
    PROVE  Reaches(k)'
<1>1. UNCHANGED <<buf, conn, shown>>
  BY QuietSteps
<1>2. /\ latest' = latest
      /\ \A q \in Publishers : /\ pub'[q].at = "call" <=> pub[q].at = "call"
                               /\ pub[q].at = "call" => pub'[q].call = pub[q].call
  BY NoNewCall
<1>3. OnItsWay(k) => OnItsWay(k)'
  BY <1>1, <1>2 DEF OnItsWay
<1>4. (Followed(k)' <=> Followed(k)) /\ (Asked' = Asked)
  BY <1>1 DEF Followed, Asked
<1> QED
  BY <1>1, <1>2, <1>3, <1>4, ReachKept

LEMMA FollowedMine ==
    ASSUME ProgressAssumption, ConnShape, SubscriptionInv, Live, NEW k \in Keys,
           Followed(k) \/ (conn.at = "fallback" /\ Asked = k)
    PROVE  k \in Mine
<1>1. conn.at \in {"read", "fallback", "sending"} =>
         \A i \in 1 .. Len(conn.request) : conn.request[i] \in Mine
  BY DEF SubscriptionInv
<1>2. Len(conn.read) \in Nat /\ Len(conn.request) \in Nat
  BY RequestKeys DEF ConnShape
<1>3. CASE k \in conn.tokens
  BY <1>3 DEF Mine
<1>4. ASSUME NEW i \in 1 .. Len(conn.read), conn.request[i] = k PROVE k \in Mine
  <2>1. conn.read # <<>>
    BY <1>4
  <2>2. conn.at \in {"read", "fallback", "sending"}
    BY <2>1 DEF Live, Batch, ConnShape
  <2>3. Len(conn.read) <= Len(conn.request)
    BY <1>2, <2>2 DEF ConnShape
  <2> QED
    BY <1>1, <1>2, <1>4, <2>2, <2>3
<1>5. CASE conn.at = "fallback" /\ Asked = k
  <2>1. /\ Asked = conn.request[Len(conn.read) + 1]
        /\ Len(conn.read) + 1 \in 1 .. Len(conn.request)
    BY <1>5, AskedKey
  <2> QED
    BY <1>1, <1>5, <2>1
<1> QED
  BY <1>3, <1>4, <1>5 DEF Followed

LEMMA CommitReaches ==
    ASSUME ProgressAssumption, HubInv, ShapeInv, KnownInv, SubscriptionInv, Live,
           NEW p \in Publishers, Commit(p), NEW k \in Keys, Reaches(k)
    PROVE  Reaches(k)'
<1> DEFINE j == Key(p)
           s == Event(p)
<1>1. /\ j \in Keys /\ s \in Snapshots /\ s.key = j /\ s.seq > 0
      /\ \A i \in Keys : latest'[i] = IF i = j THEN s ELSE latest[i]
      /\ \A q \in Publishers \ {p} : pub'[q] = pub[q]
      /\ pub[p].at # "call"
      /\ IF j \in subscribed THEN pub'[p].at = "call" /\ pub'[p].call = s
                             ELSE pub'[p].at # "call"
      /\ latest[j] # None =>
            s.exec > latest[j].exec \/ (s.exec = latest[j].exec /\ s.seq > latest[j].seq)
  BY CommitCalls DEF ShapeInv
<1>2. UNCHANGED <<buf, conn, shown>>
  BY QuietSteps
<1>3. (Followed(k)' <=> Followed(k)) /\ Asked' = Asked
  BY <1>2 DEF Followed, Asked
<1> HIDE DEF j, s
<1>4. CASE k # j
  <2>1. latest'[k] = latest[k]
    BY <1>1, <1>4
  <2>2. OnItsWay(k) => OnItsWay(k)'
    BY <1>1, <1>2, <2>1 DEF OnItsWay
  <2> QED
    BY <1>2, <1>3, <2>1, <2>2, ReachKept
<1>5. CASE k = j
  <2>1. latest'[k] = s
    BY <1>1, <1>5
  <2>2. Followed(k) \/ (conn.at = "fallback" /\ Asked = k) => OnItsWay(k)'
    <3>1. subscribed = Mine
      BY DEF SubscriptionInv
    <3>2. k \in subscribed => pub'[p].at = "call" /\ pub'[p].call = latest'[k]
      BY <1>1, <1>5, <2>1
    <3> QED
      BY <3>1, <3>2, FollowedMine DEF OnItsWay, ShapeInv
  <2>3. buf.mark[k] # s
    <3>1. buf.mark[k] \in Published \cup {None}
      BY DEF KnownInv, Holds, Had
    <3>2. buf.mark[k] # None => buf.mark[k].key = k
      BY DEF ShapeInv, BufShape, WellFormed
    <3>3. ASSUME buf.mark[k] = s PROVE FALSE
      <4>1. s \in Published /\ s # None
        BY <1>1, <3>1, <3>3, NotNone
      <4>2. latest[j] # None /\ Follows(latest[j], s)
        BY <1>1, <4>1 DEF Published
      <4>3. latest[j] \in Snapshots
        BY <1>1, <4>2 DEF ShapeInv, NumberInv, Numbered
      <4> QED
        BY <1>1, <4>1, <4>2, <4>3, SnapshotFields DEF Follows
    <3> QED
      BY <3>3
  <2>4. Kept(buf', k, s, LastSent(conn'.items, shown'[k], k, s))
    BY <1>2, <2>3 DEF Kept
  <2> QED
    BY <1>2, <1>3, <2>1, <2>2, <2>4 DEF Reaches
<1> QED
  BY <1>4, <1>5

\* An event handed over after x, of a key that was not overtaken, is x or older.
LEMMA HandedAfter ==
    ASSUME ProgressAssumption, ViewShape, NEW s \in Snapshots, Handed(s), s.key \notin overtaken',
           NEW x \in Had, x.key = s.key, Newest(x, Published), s \in Published, s.seq > 0
    PROVE  s.exec = x.exec /\ s.seq <= x.seq
<1>1. s.exec >= seen[s.key] /\ seen[s.key] \in Nat
  BY HandedFacts, SnapshotFields DEF ViewShape, ProgressAssumption
<1>2. x \in Snapshots /\ x.exec <= seen[s.key] /\ Follows(x, s)
  BY DEF Had, Published, Newest
<1>3. /\ s.exec \in Nat /\ s.seq \in Nat /\ x.exec \in Nat /\ x.seq \in Nat
      /\ s # None /\ x # None
  BY <1>2, SnapshotFields, NotNone
<1> QED
  BY <1>1, <1>2, <1>3 DEF Follows

LEMMA CallReaches ==
    ASSUME ProgressAssumption, HubInv, ShapeInv, KnownInv, Live,
           NEW p \in Publishers, Call(p), NEW k \in Keys \ overtaken', Reaches(k)
    PROVE  Reaches(k)'
<1> DEFINE s == pub[p].call
           x == latest[k]
<1>1. /\ s \in Snapshots /\ s.seq > 0 /\ pub[p].at = "call" /\ buf' = Publish(buf, s)
      /\ UNCHANGED <<conn, shown, latest, subscribed, failed>>
      /\ \A q \in Publishers \ {p} : pub'[q] = pub[q]
      /\ pub'[p].at # "call"
      /\ IF buf.closed THEN UNCHANGED <<seen, overtaken>> ELSE Handed(s)
  BY CallFacts
<1>2. /\ WellFormed(buf) /\ buf.closed = FALSE /\ buf.batch = Batch
      /\ ~Batch => buf.pending = <<>> /\ conn.read = <<>> /\ conn.at # "fallback"
      /\ ~Batch => conn.at # "sending"
  BY DEF ShapeInv, BufShape, ConnShape, Live, Batch
<1>3. (Followed(k)' <=> Followed(k)) /\ Asked' = Asked
  BY <1>1 DEF Followed, Asked
<1>4. CASE latest[k] = None
  BY <1>1, <1>4 DEF Reaches
<1>5. CASE latest[k] # None
  <2>1. /\ x \in Snapshots /\ x.key = k /\ x.seq > 0 /\ x \in Published
        /\ Newest(x, Published) /\ x # None
    BY <1>5, LatestNewest DEF ShapeInv
  <2>2. /\ Published \subseteq Snapshots /\ s \in Published
        /\ Holds(buf, Had) /\ Holds(buf, Published)
    <3>1. Had \subseteq Published
      BY DEF Had
    <3> QED
      BY <1>1, <3>1, HoldsMore DEF KnownInv, Published
  <2>3. x \in Had /\ s.key = k => s.exec = x.exec /\ s.seq <= x.seq
    BY <1>1, <1>2, <2>1, <2>2, HandedAfter DEF ShapeInv
  <2>4. s.exec \in Nat /\ x.exec \in Nat /\ s.key \in Keys /\ s # None
    BY <1>1, <2>1, SnapshotFields, NotNone
  <2>5. \A q \in Publishers : pub[q].at = "call" /\ pub[q].call = x /\ q # p => OnItsWay(k)'
    BY <1>1 DEF OnItsWay
  <2> HIDE DEF s
  <2>6. CASE Batch
    <3> DEFINE c == OfferPending(buf, s)
    <3>1. buf' = c
      BY <1>1, <1>2, <2>6 DEF Publish
    <3>2. c.queue = buf.queue /\ c.mark = buf.mark
      BY <1>1, <1>2, OfferPendingFacts
    <3>3. /\ buf.dropped[k] = x => c.dropped[k] = x
          /\ s = x => x \in ToSet(c.pending)
          /\ x \in ToSet(buf.pending) /\ (s.key = k => s.exec >= x.exec) =>
                x \in ToSet(c.pending) \/ c.dropped[k] = x
      <4> HIDE DEF x
      <4> QED
        BY <1>1, <1>2, <2>1, <2>2, AsideReaches
    <3> HIDE DEF c
    <3>4. x \in ToSet(buf.pending) => x \in Had
      BY <2>2 DEF Holds
    <3>5. x \in ToSet(buf'.pending) \/ buf'.dropped[k] = x => OnItsWay(k)'
      BY <1>1 DEF OnItsWay
    <3>6. OnItsWay(k) => OnItsWay(k)'
      BY <2>3, <2>4, <2>5, <3>1, <3>3, <3>4, <3>5 DEF OnItsWay, s
    <3>7. \A sent \in BOOLEAN : Kept(buf, k, x, sent) => Kept(buf', k, x, sent)
      BY <3>1, <3>2, <3>3 DEF Kept
    <3>8. LastSent(conn.items, shown[k], k, latest[k]) \in BOOLEAN
      BY DEF LastSent
    <3> QED
      BY <1>1, <1>3, <3>1, <3>2, <3>6, <3>7, <3>8, ReachKept
  <2>7. CASE ~Batch
    <3> DEFINE c == OfferQueue(buf, s)
               stale == buf.mark[s.key] # None /\ StaleOrEqual(s, buf.mark[s.key])
    <3>1. buf' = c
      BY <1>1, <1>2, <2>7 DEF Publish
    <3>2. /\ stale => c = buf
          /\ ~stale => c.mark[s.key] = s /\ s \in ToSet(c.queue)
          /\ \A j \in Keys : j # s.key => c.mark[j] = buf.mark[j]
      BY <1>1, <1>2, OfferQueueFacts
    <3>3. /\ buf.dropped[k] = x => c.dropped[k] = x
          /\ \A sent \in BOOLEAN : Kept(buf, k, x, sent) => Kept(c, k, x, sent)
      <4> HIDE DEF x, c
      <4>1. ASSUME NEW sent \in BOOLEAN
            PROVE  /\ buf.dropped[x.key] = x => c.dropped[x.key] = x
                   /\ Kept(buf, x.key, x, sent) => Kept(c, x.key, x, sent)
        BY <1>1, <1>2, <2>1, <2>2, OfferReaches DEF c
      <4>2. TRUE \in BOOLEAN
        OBVIOUS
      <4> QED
        BY <2>1, <4>1, <4>2
    <3>4. buf.mark[k] # None => /\ buf.mark[k] \in Had /\ buf.mark[k] \in Published
                                /\ buf.mark[k] \in Snapshots /\ buf.mark[k].key = k
                                /\ buf.mark[k].exec \in Nat /\ buf.mark[k].seq \in Nat
      BY <1>2, <2>2, SnapshotFields DEF Holds, WellFormed
    <3> HIDE DEF c
    <3>5. ASSUME s = x PROVE c.mark[k] = x
      <4>1. CASE ~stale
        BY <2>1, <3>2, <3>5, <4>1
      <4>2. CASE stale
        <5>1. buf.mark[k] # None /\ x.exec = buf.mark[k].exec /\ x.seq <= buf.mark[k].seq
          BY <2>1, <3>5, <4>2 DEF StaleOrEqual
        <5>2. Follows(x, buf.mark[k])
          <6>1. x.seq \in Nat
            BY <2>1, SnapshotFields
          <6>2. buf.mark[k].seq > 0
            BY <2>1, <3>4, <5>1, <6>1
          <6> QED
            BY <2>1, <3>4, <5>1, <6>2 DEF Newest
        <5>3. x = buf.mark[k]
          BY <2>1, <3>4, <5>1, <5>2, Equal
        <5> QED
          BY <3>2, <4>2, <5>3
      <4> QED
        BY <4>1, <4>2
    <3>6. ASSUME buf.mark[k] = x PROVE c.mark[k] = x
      <4>1. CASE s.key # k
        BY <3>2, <3>6, <4>1
      <4>2. CASE s.key = k
        <5>1. s.exec = x.exec /\ s.seq <= x.seq
          BY <2>1, <2>3, <3>4, <3>6, <4>2
        <5>2. stale
          BY <2>1, <3>6, <4>2, <5>1 DEF StaleOrEqual
        <5> QED
          BY <3>2, <3>6, <5>2
      <4> QED
        BY <4>1, <4>2
    <3>7. buf'.dropped[k] = x => OnItsWay(k)'
      BY <1>1 DEF OnItsWay
    <3>8. LastOf(k) = buf.mark[k] /\ LastOf(k)' = buf'.mark[k]
      BY <1>1, <1>2, <2>7 DEF LastOf, LastRead
    <3>9. OnItsWay(k) \/ LastOf(k) = x => OnItsWay(k)' \/ LastOf(k)' = x
      BY <1>2, <2>5, <2>7, <3>1, <3>3, <3>5, <3>6, <3>7, <3>8, EmptySet DEF OnItsWay, s
    <3>10. LastSent(conn.items, shown[k], k, x) \in BOOLEAN
      BY DEF LastSent
    <3>11. Kept(buf, k, x, LastSent(conn.items, shown[k], k, x))
      BY <1>2, <1>5, <2>7 DEF Reaches
    <3>12. Kept(buf', k, x, LastSent(conn.items, shown[k], k, x))
      BY <3>1, <3>3, <3>10, <3>11
    <3>13. Followed(k) => OnItsWay(k) \/ LastOf(k) = x
      BY <1>5 DEF Reaches
    <3>14. conn'.at # "fallback"
      BY <1>1, <1>2, <2>7
    <3> QED
      BY <1>1, <1>3, <3>9, <3>12, <3>13, <3>14 DEF Reaches
  <2> QED
    BY <2>6, <2>7
<1> QED
  BY <1>4, <1>5

LEMMA FlushReaches ==
    ASSUME ProgressAssumption, ShapeInv, Flush, NEW k \in Keys, Reaches(k)
    PROVE  Reaches(k)'
<1>1. /\ conn.at = "flush" /\ conn'.at = "receive" /\ conn.items = <<>>
      /\ conn'.items = buf.queue /\ conn'.read = conn.read /\ conn'.request = conn.request
      /\ conn'.tokens = conn.tokens
      /\ UNCHANGED <<latest, pub, shown>> /\ buf' = [buf EXCEPT !.queue = <<>>]
  BY DEF Flush, ShapeInv, ConnShape
<1>2. WellFormed(buf) /\ buf.queue \in Seq(Snapshots)
  BY BufFields DEF ShapeInv, BufShape
<1>3. /\ buf'.mark = buf.mark /\ buf'.queue = <<>> /\ buf'.pending = buf.pending
      /\ buf'.dropped = buf.dropped
  BY <1>1, <1>2, BufFields
<1>4. Followed(k)' <=> Followed(k)
  BY <1>1 DEF Followed
<1>5. OnItsWay(k)' <=> OnItsWay(k)
  BY <1>1, <1>3 DEF OnItsWay
<1>6. ASSUME NEW x \in Snapshots, x.key = k, Kept(buf, k, x, LastSent(<<>>, shown[k], k, x))
      PROVE  Kept(buf', k, x, LastSent(buf.queue, shown[k], k, x))
  <2> SUFFICES ASSUME buf.mark[k] = x
               PROVE  \/ k \notin KeysIn(<<>>) /\ LastSent(buf.queue, shown[k], k, x)
                      \/ buf.dropped[k] = x
    BY <1>3 DEF Kept
  <2>1. k \notin KeysIn(<<>>)
    BY EmptySet DEF KeysIn
  <2>2. CASE x \in ToSet(buf.queue)
    <3>1. PICK i \in 1 .. Len(buf.queue) : buf.queue[i] = x
      BY <1>2, <2>2, SetOf
    <3>2. \A j \in i + 1 .. Len(buf.queue) : buf.queue[j].key # k
      BY <1>2, <1>6, <3>1 DEF WellFormed, OnePerKey
    <3> QED
      BY <2>1, <3>1, <3>2 DEF LastSent
  <2>3. CASE k \notin KeysIn(buf.queue) /\ LastSent(<<>>, shown[k], k, x)
    <3>1. \A i \in 1 .. Len(buf.queue) : buf.queue[i].key # k
      <4>1. \A i \in 1 .. Len(buf.queue) : buf.queue[i] \in ToSet(buf.queue)
        BY <1>2, SetOf
      <4> QED
        BY <2>3, <4>1 DEF KeysIn
    <3>2. shown[k] = x
      BY <2>3 DEF LastSent
    <3> QED
      BY <2>1, <3>1, <3>2 DEF LastSent
  <2> QED
    BY <1>6, <2>2, <2>3 DEF Kept
<1>7. latest[k] # None => latest[k] \in Snapshots /\ latest[k].key = k
  BY DEF ShapeInv, NumberInv, Numbered
<1> QED
  BY <1>1, <1>3, <1>4, <1>5, <1>6, <1>7, ReachKept

LEMMA SendReaches ==
    ASSUME ProgressAssumption, ShapeInv, Send, NEW k \in Keys
    PROVE  /\ Reaches(k) => Reaches(k)'
           /\ ReadSent(k) => ReadSent(k)'
<1> DEFINE s == Head(conn.items)
<1>1. /\ conn.items \in Seq(Snapshots) /\ conn.items # <<>> /\ buf' = buf
      /\ conn'.at = conn.at /\ conn'.read = conn.read /\ conn'.request = conn.request
      /\ conn'.items = Tail(conn.items) /\ conn'.tokens = conn.tokens
      /\ UNCHANGED <<latest, pub>> /\ ConnShape /\ conn.at # "fallback"
      /\ shown' = [shown EXCEPT ![s.key] = s] /\ shown \in [Keys -> Snapshots \cup {None}]
  BY DEF Send, ShapeInv, ConnShape, ViewShape
<1>2. s \in Snapshots /\ s.key \in Keys
  BY <1>1, SnapshotFields
<1>3. shown'[k] = IF s.key = k THEN s ELSE shown[k]
  BY <1>1, <1>2
<1>4. ASSUME NEW x, x.key = k, LastSent(conn.items, shown[k], k, x)
      PROVE  LastSent(conn'.items, shown'[k], k, x)
  <2> DEFINE t == shown'[k]
             u == shown[k]
             items == conn.items
  <2>1. t = IF Head(items).key = k THEN Head(items) ELSE u
    BY <1>3
  <2>2. items \in Seq(Snapshots) /\ items # <<>> /\ conn'.items = Tail(items)
    BY <1>1
  <2>3. LastSent(items, u, k, x)
    BY <1>4
  <2> HIDE DEF t, u, items
  <2>4. LastSent(Tail(items), t, k, x)
    BY <1>4, <2>1, <2>2, <2>3, SendOne
  <2> QED
    BY <2>2, <2>4 DEF t
<1>5. (Followed(k)' <=> Followed(k)) /\ (OnItsWay(k)' <=> OnItsWay(k))
  BY <1>1 DEF Followed, OnItsWay
<1>6. ASSUME Reaches(k) PROVE Reaches(k)'
  <2>1. latest[k] # None => latest[k].key = k
    BY DEF ShapeInv, NumberInv, Numbered
  <2>2. latest[k] # None /\ Kept(buf, k, latest[k], LastSent(conn.items, shown[k], k, latest[k])) =>
           Kept(buf', k, latest[k], LastSent(conn'.items, shown'[k], k, latest[k]))
    BY <1>1, <1>4, <2>1 DEF Kept
  <2> QED
    BY <1>1, <1>5, <1>6, <2>2, ReachKept
<1>7. ASSUME ReadSent(k) PROVE ReadSent(k)'
  <2>1. LastRead(k)' = LastRead(k)
    BY <1>1 DEF LastRead
  <2>2. LastRead(k) # None => LastRead(k).key = k
    BY <1>1, LastReadFacts
  <2> QED
    BY <1>1, <1>4, <1>7, <2>1, <2>2 DEF ReadSent
<1> QED
  BY <1>6, <1>7

LEMMA WalkReaches ==
    ASSUME ProgressAssumption, ShapeInv, NEW k \in Keys, Reaches(k),
           Poll \/ (\E r \in Requests : Ask(r)) \/ Subscribe \/ Subscribed
    PROVE  Reaches(k)'
<1>1. /\ conn'.items = conn.items /\ conn'.read = conn.read /\ conn'.tokens = conn.tokens
      /\ conn.at # "sending" /\ conn'.at # "fallback" /\ conn'.at # "sending"
      /\ UNCHANGED <<latest, pub, shown>>
  <2>1. CASE Poll \/ Subscribed
    BY <2>1, ConnFields DEF Poll, Subscribed, Goto, Waiting, ShapeInv
  <2>2. CASE \E r \in Requests : Ask(r)
    BY <2>2, ConnFields DEF Ask, Waiting, ShapeInv
  <2>3. CASE Subscribe
    BY <2>3, ConnFields DEF Subscribe, ShapeInv
  <2> QED
    BY <2>1, <2>2, <2>3
<1>2. conn'.request = conn.request \/ conn.read = <<>>
  BY DEF Poll, Ask, Subscribe, Subscribed, Goto, Waiting, ShapeInv, ConnShape, Live, Batch
<1>3. buf'.mark = buf.mark /\ buf'.queue = buf.queue /\ buf'.pending = buf.pending
      /\ buf'.dropped = buf.dropped
  <2>1. buf' = buf \/ buf' = BeginBatch(buf)
    BY DEF Poll, Ask, Subscribe, Subscribed
  <2>2. WellFormed(buf)
    BY DEF ShapeInv, BufShape
  <2> DEFINE c == BeginBatch(buf)
  <2>3. c.mark = buf.mark /\ c.queue = buf.queue /\ c.pending = buf.pending
        /\ c.dropped = buf.dropped
    BY <2>2, BufFields
  <2> HIDE DEF c
  <2> QED
    BY <2>1, <2>3 DEF c
<1>4. Followed(k)' <=> Followed(k)
  BY <1>1, <1>2 DEF Followed
<1>5. OnItsWay(k)' <=> OnItsWay(k)
  BY <1>1, <1>3 DEF OnItsWay
<1>6. latest[k] # None /\ Kept(buf, k, latest[k], LastSent(conn.items, shown[k], k, latest[k])) =>
         Kept(buf', k, latest[k], LastSent(conn'.items, shown'[k], k, latest[k]))
  BY <1>1, <1>3 DEF Kept
<1> QED
  BY <1>1, <1>3, <1>4, <1>5, <1>6, ReachKept

LEMMA ReadReaches ==
    ASSUME ProgressAssumption, HubInv, ShapeInv, ReadHub \/ ReadTask, NEW k \in Keys, Reaches(k)
    PROVE  Reaches(k)'
<1>1. UNCHANGED <<buf, shown, latest, subscribed, pub, failed>>
  BY ReadFacts
<1>2. ConnShape /\ conn.at \in {"read", "fallback"}
  BY DEF ReadHub, ReadTask, ShapeInv
<1>3. OnItsWay(k)' <=> OnItsWay(k)
  BY <1>1 DEF OnItsWay
<1>4. CASE ReadHub /\ latest[Asked] = None /\ Goto("fallback")
  <2>1. /\ conn'.at = "fallback" /\ conn'.items = conn.items /\ conn'.read = conn.read
        /\ conn'.tokens = conn.tokens /\ conn'.request = conn.request /\ conn.at = "read"
    BY <1>2, <1>4 DEF ReadHub, Goto, ConnShape
  <2>2. (Followed(k)' <=> Followed(k)) /\ Asked' = Asked
    BY <2>1 DEF Followed, Asked
  <2>3. CASE latest[k] = None
    BY <1>1, <2>3 DEF Reaches
  <2>4. CASE latest[k] # None
    <3>1. Asked # k
      BY <1>4, <2>4
    <3> QED
      BY <1>1, <1>3, <2>1, <2>2, <3>1, ReachKept
  <2> QED
    BY <2>3, <2>4
<1>5. ASSUME NEW s \in Snapshots \cup {None}, Got(s), s # None => s.key = Asked,
             (ReadHub /\ s = latest[Asked]) \/ ReadTask
      PROVE  Reaches(k)'
  <2> SUFFICES ASSUME latest[k] # None PROVE Reaches(k)'
    BY <1>1 DEF Reaches
  <2>1. /\ conn'.at = "read" /\ conn'.items = conn.items /\ conn'.request = conn.request
        /\ conn'.tokens = conn.tokens
        /\ Len(conn.read) \in Nat /\ Len(conn'.read) = Len(conn.read) + 1
    BY <1>2, <1>5, GotFields
  <2>2. LastRead(k)' = IF s # None /\ s.key = k THEN s ELSE LastRead(k)
    BY <1>2, <1>5, LastReadMoves
  <2>3. Asked = conn.request[Len(conn.read) + 1]
    BY DEF Asked
  <2>4. Followed(k)' => Followed(k) \/ Asked = k
    <3>1. \A i \in 1 .. Len(conn'.read) : i \in 1 .. Len(conn.read) \/ i = Len(conn.read) + 1
      BY <2>1
    <3> QED
      BY <2>1, <2>3, <3>1 DEF Followed
  <2>5. /\ Followed(k) => OnItsWay(k) \/ LastOf(k) = latest[k]
        /\ conn.at = "fallback" /\ Asked = k => OnItsWay(k)
        /\ (conn.at = "sending" => LastRead(k) = None) =>
              Kept(buf, k, latest[k], LastSent(conn.items, shown[k], k, latest[k]))
    BY DEF Reaches
  <2>6. Kept(buf', k, latest'[k], LastSent(conn'.items, shown'[k], k, latest'[k]))
    BY <1>1, <1>2, <2>1, <2>5
  <2>7. Followed(k)' => OnItsWay(k)' \/ LastOf(k)' = latest'[k]
    <3>1. CASE Asked = k
      <4>1. CASE ReadHub /\ s = latest[Asked]
        <5>1. LastRead(k)' = latest[k] /\ LastRead(k)' # None
          BY <1>5, <2>2, <3>1, <4>1
        <5> QED
          BY <1>1, <5>1 DEF LastOf
      <4>2. CASE ReadTask
        BY <1>3, <2>5, <3>1, <4>2 DEF ReadTask
      <4> QED
        BY <1>5, <4>1, <4>2
    <3>2. CASE Asked # k
      <4>1. LastOf(k)' = LastOf(k)
        BY <1>1, <1>5, <2>2, <3>2 DEF LastOf
      <4> QED
        BY <1>1, <1>3, <2>4, <2>5, <3>2, <4>1
    <3> QED
      BY <3>1, <3>2
  <2> QED
    BY <2>1, <2>6, <2>7 DEF Reaches
<1>6. \/ \E s \in Snapshots : /\ s.key = Asked /\ Got(s) /\ Handed(s)
                              /\ \/ ReadHub /\ s = latest[Asked]
                                 \/ ReadTask /\ s.seq = 0
      \/ ReadHub /\ latest[Asked] = None /\ Goto("fallback")
      \/ ReadTask /\ Got(None)
  BY ReadFacts
<1> QED
  BY <1>4, <1>5, <1>6

LEMMA RegisterSends ==
    ASSUME ProgressAssumption, ShapeInv, Register, NEW k \in Keys
    PROVE  ReadSent(k)'
<1>1. /\ conn.at = "read" /\ conn'.at = "sending" /\ conn'.read = conn.read
      /\ conn'.request = conn.request /\ conn'.tokens = conn.tokens \cup conn.added
      /\ ConnShape /\ conn.items = <<>> /\ conn.read \in Seq(Snapshots \cup {None})
      /\ UNCHANGED <<buf, shown, latest, pub>>
  BY RegisterOrder DEF Register, ShapeInv, ConnShape
<1>2. PICK h : Along(conn'.items, conn.read, Len(conn.read), ToSet(conn.read) \ {None}, h)
  BY <1>1, RegisterOrder
<1>3. /\ \A i \in 1 .. Len(conn'.items) : /\ h[i] \in 1 .. Len(conn.read)
                                          /\ conn'.items[i] = conn.read[h[i]]
                                          /\ conn.read[h[i]] # None
      /\ \A i, j \in 1 .. Len(conn'.items) : i < j => h[i] < h[j]
      /\ \A m \in 1 .. Len(conn.read) :
            conn.read[m] \in ToSet(conn.read) \ {None} => \E i \in 1 .. Len(conn'.items) : h[i] = m
  BY <1>2 DEF Along
<1>4. Len(conn.read) \in Nat /\ Len(conn'.items) \in Nat
  BY <1>1, RegisterItems
<1>5. LastRead(k)' = LastRead(k)
  BY <1>1 DEF LastRead
<1> SUFFICES ASSUME LastRead(k) # None PROVE ReadSent(k)'
  BY <1>5 DEF ReadSent
<1>6. PICK n \in 1 .. Len(conn.read) :
         /\ conn.read[n] = LastRead(k) /\ conn.read[n].key = k
         /\ conn.read[n] \in Snapshots
         /\ \A j \in n + 1 .. Len(conn.read) :
               conn.read[j] # None => conn.read[j].key # k
  BY <1>1, LastReadFacts
<1>7. conn.read[n] \in ToSet(conn.read)
  BY <1>1, SetOf
<1>8. PICK i \in 1 .. Len(conn'.items) : h[i] = n
  BY <1>3, <1>6, <1>7
<1>9. conn'.items[i] = LastRead(k)
  BY <1>3, <1>6, <1>8
<1>10. \A j \in i + 1 .. Len(conn'.items) : conn'.items[j].key # k
  <2> SUFFICES ASSUME NEW j \in i + 1 .. Len(conn'.items) PROVE conn'.items[j].key # k
    OBVIOUS
  <2>1. j \in 1 .. Len(conn'.items) /\ i < j
    BY <1>4, <1>8
  <2>2. h[i] < h[j] /\ h[j] \in 1 .. Len(conn.read) /\ conn'.items[j] = conn.read[h[j]]
        /\ conn.read[h[j]] # None
    BY <1>3, <2>1
  <2>3. h[j] \in n + 1 .. Len(conn.read)
    BY <1>4, <1>8, <2>2
  <2> QED
    BY <1>6, <2>2, <2>3
<1> QED
  BY <1>5, <1>9, <1>10 DEF ReadSent, LastSent

LEMMA RegisterReaches ==
    ASSUME ProgressAssumption, HubInv, ShapeInv, SubscriptionInv, Register, NEW k \in Keys,
           Reaches(k)
    PROVE  Reaches(k)'
<1>1. /\ conn.at = "read" /\ conn'.at = "sending" /\ conn'.read = conn.read
      /\ conn'.request = conn.request /\ conn'.tokens = conn.tokens \cup conn.added
      /\ ConnShape /\ conn.items = <<>> /\ conn.read \in Seq(Snapshots \cup {None})
      /\ UNCHANGED <<buf, shown, latest, pub>>
  BY RegisterOrder DEF Register, ShapeInv, ConnShape
<1>2. LastRead(k)' = LastRead(k)
  BY <1>1 DEF LastRead
<1>3. (OnItsWay(k)' <=> OnItsWay(k)) /\ LastOf(k)' = LastOf(k)
  BY <1>1, <1>2 DEF OnItsWay, LastOf
<1>4. Followed(k)' => Followed(k)
  <2>1. \A j \in conn.added : \E i \in 1 .. Len(conn.request) : conn.request[i] = j
    BY <1>1 DEF SubscriptionInv, Live, Batch
  <2>2. Len(conn.read) = Len(conn.request)
    <3>1. Len(conn.request) \in Nat /\ Len(conn.read) \in Nat /\ Len(conn.read) <= Len(conn.request)
      BY <1>1, RequestKeys DEF ConnShape
    <3> QED
      BY <3>1 DEF Register, Unread
  <2> QED
    BY <1>1, <2>1, <2>2 DEF Followed
<1>5. CASE LastRead(k) = None
  <2>1. PICK h : Along(conn'.items, conn.read, Len(conn.read), ToSet(conn.read) \ {None}, h)
    BY <1>1, RegisterOrder
  <2>2. \A i \in 1 .. Len(conn'.items) : /\ h[i] \in 1 .. Len(conn.read)
                                         /\ conn'.items[i] = conn.read[h[i]]
                                         /\ conn.read[h[i]] # None
    BY <2>1 DEF Along
  <2>3. \A i \in 1 .. Len(conn'.items) : conn'.items[i].key # k
    BY <1>1, <1>5, <2>2, LastReadFacts
  <2>4. ASSUME NEW x, LastSent(conn.items, shown[k], k, x)
        PROVE  LastSent(conn'.items, shown'[k], k, x)
    BY <1>1, <2>3, <2>4 DEF LastSent
  <2>5. latest[k] # None /\ Kept(buf, k, latest[k], LastSent(conn.items, shown[k], k, latest[k])) =>
           Kept(buf', k, latest[k], LastSent(conn'.items, shown'[k], k, latest[k]))
    BY <1>1, <2>4 DEF Kept
  <2> QED
    BY <1>1, <1>3, <1>4, <2>5, ReachKept
<1>6. CASE LastRead(k) # None
  <2>1. latest[k] # None /\ Followed(k) => OnItsWay(k) \/ LastOf(k) = latest[k]
    BY DEF Reaches
  <2> QED
    BY <1>1, <1>2, <1>3, <1>4, <1>6, <2>1 DEF Reaches
<1> QED
  BY <1>5, <1>6

LEMMA CompleteReaches ==
    ASSUME ProgressAssumption, HubInv, ShapeInv, KnownInv, Complete, NEW k \in Keys \ overtaken',
           Ordered(k), ReadSent(k), Reaches(k)
    PROVE  Reaches(k)'
<1> DEFINE read == [j \in Keys |-> LastRead(j)]
           o == Opened(buf, read)
           q == Fresh(buf.pending, read)
           x == latest[k]
           r == read[k]
           sent == shown[k] = x
<1>1. /\ conn.at = "sending" /\ conn'.at = "flush" /\ conn.items = <<>> /\ conn'.items = <<>>
      /\ conn'.read = <<>> /\ conn'.tokens = conn.tokens /\ buf' = FinishBatch(buf, read)
      /\ UNCHANGED <<shown, latest, pub>>
  BY DEF Complete, ShapeInv, ConnShape
<1> SUFFICES ASSUME x # None PROVE Reaches(k)'
  BY <1>1 DEF Reaches
<1>2. WellFormed(buf) /\ Readings(read) /\ r = LastRead(k) /\ r \in Snapshots \cup {None}
  BY LastReadings DEF ShapeInv, BufShape, Readings
<1>3. /\ x \in Snapshots /\ x.key = k /\ x.seq > 0 /\ x.seq \in Nat /\ x.exec \in Nat
      /\ Newest(x, Published)
  BY LatestNewest, SnapshotFields DEF ShapeInv
<1>4. /\ Published \subseteq Snapshots /\ Holds(buf, Published)
      /\ \A j \in Keys : read[j] \in Published \cup {None}
  <2>1. Live /\ ConnShape
    BY <1>1 DEF Live, Batch, ShapeInv
  <2>2. Holds(buf, Had) /\ \A i \in 1 .. Len(conn.read) : conn.read[i] \in Had \cup {None}
    BY <2>1 DEF KnownInv
  <2>3. Had \subseteq Published /\ Published \subseteq Snapshots
    BY DEF Had, Published
  <2>4. \A j \in Keys : read[j] \in Had \cup {None}
    BY <2>1, <2>2, LastReadIn
  <2> HIDE DEF read
  <2> QED
    BY <2>2, <2>3, <2>4, HoldsMore
<1>5. r # None => LastSent(<<>>, shown[k], k, r)
  BY <1>1, <1>2 DEF ReadSent
<1>6. r # None => shown[k] = r
  BY <1>5 DEF LastSent
<1>7. /\ WellFormed(o) /\ o.dropped = buf.dropped
      /\ k \notin KeysIn(o.queue) /\ r # None => o.mark[k] = r
      /\ k \in KeysIn(o.queue) \/ r = None => o.mark[k] = buf.mark[k]
  <2> HIDE DEF read
  <2> QED
    BY <1>2, OpenedFacts
<1>8. \A t : t \in ToSet(o.queue) <=>
              /\ t \in ToSet(buf.queue)
              /\ read[t.key] = None \/ (t.exec = read[t.key].exec /\ t.seq > read[t.key].seq)
  BY <1>2, OpenedQueue
<1>9. \A t : t \in ToSet(q) <=> /\ t \in ToSet(buf.pending)
                                /\ read[t.key] = None \/ ~StaleOrEqual(t, read[t.key])
  BY <1>2, FreshFacts
<1>10. /\ \/ buf'.mark[k] = o.mark[k]
          \/ \E t \in ToSet(q) : /\ t.key = k /\ buf'.mark[k] = t
                                 /\ o.mark[k] = None \/ ~StaleOrEqual(t, o.mark[k])
       /\ \A t \in ToSet(q) : \/ buf'.mark[t.key] = t
                              \/ /\ buf'.mark[t.key] = o.mark[t.key]
                                 /\ o.mark[t.key] # None
                                 /\ StaleOrEqual(t, o.mark[t.key])
  <2> HIDE DEF read
  <2>1. \/ buf'.mark[k] = o.mark[k]
        \/ \E t \in ToSet(q) : /\ t.key = k /\ buf'.mark[k] = t
                               /\ o.mark[k] = None \/ ~StaleOrEqual(t, o.mark[k])
    BY <1>1, <1>2, FinishMarks
  <2>2. \A t \in ToSet(q) : \/ buf'.mark[t.key] = t
                            \/ /\ buf'.mark[t.key] = o.mark[t.key]
                               /\ o.mark[t.key] # None
                               /\ StaleOrEqual(t, o.mark[t.key])
    BY <1>1, <1>2, FinishMarks
  <2> QED
    BY <2>1, <2>2
<1>11. /\ buf.dropped[k] = x => buf'.dropped[k] = x
       /\ Kept(o, k, x, sent) => Kept(buf', k, x, sent)
  <2>1. sent \in BOOLEAN
    OBVIOUS
  <2> HIDE DEF x, sent, read
  <2>2. /\ buf.dropped[x.key] = x => FinishBatch(buf, read).dropped[x.key] = x
        /\ Kept(Opened(buf, read), x.key, x, sent) => Kept(FinishBatch(buf, read), x.key, x, sent)
    BY <1>2, <1>3, <1>4, <2>1, FinishReaches
  <2> QED
    BY <1>1, <1>3, <2>2
<1>12. \A t \in ToSet(buf.pending) : t.key = k => ~(ExecOf(r) > t.exec)
  BY <1>2 DEF Complete
<1>13. \A t \in ToSet(buf.pending) : t.key = k => t.exec >= ExecOf(buf.mark[k])
  BY DEF Ordered, ReadsInOrder
<1> HIDE DEF read, o, q
<1>14. \A t \in ToSet(buf.pending) : /\ t \in Snapshots /\ t.exec \in Nat /\ t.seq \in Nat
                                     /\ t.seq > 0 /\ t \in Published
                                     /\ t.key = k => Follows(x, t)
  BY <1>2, <1>3, <1>4, SnapshotFields DEF WellFormed, Holds, Newest
<1>15. r # None => r \in Snapshots /\ r.key = k /\ r.exec \in Nat /\ r.seq \in Nat
                   /\ (r.seq > 0 => Follows(x, r))
  BY <1>2, <1>3, <1>4, SnapshotFields DEF Readings, Newest
<1>16. buf.mark[k] # None =>
          /\ buf.mark[k] \in Snapshots /\ buf.mark[k].key = k
          /\ buf.mark[k].exec \in Nat /\ buf.mark[k].seq \in Nat
          /\ buf.mark[k].seq > 0 => Follows(x, buf.mark[k])
  BY <1>2, <1>3, <1>4, SnapshotFields DEF WellFormed, Holds, Newest
\* What is x or newer is x.
<1>17. ASSUME NEW y \in Snapshots, y.key = k, y.exec \in Nat, y.seq \in Nat,
              y.seq > 0 => Follows(x, y), StaleOrEqual(x, y)
       PROVE  y = x
  <2>1. x.exec = y.exec /\ x.seq <= y.seq
    BY <1>17 DEF StaleOrEqual
  <2>2. Follows(x, y)
    BY <1>3, <1>17, <2>1
  <2> QED
    BY <1>3, <1>17, <2>1, <2>2, Equal
\* What the queue keeps in the face of a reading is newer than the reading.
<1>18. ASSUME r = x PROVE o.mark[k] = x
  <2>1. CASE k \notin KeysIn(o.queue)
    BY <1>7, <1>18, <2>1
  <2>2. CASE k \in KeysIn(o.queue)
    <3>1. PICK t \in ToSet(o.queue) : t.key = k
      BY <2>2 DEF KeysIn
    <3>2. t \in ToSet(buf.queue) /\ t.exec = x.exec /\ t.seq > x.seq
      BY <1>8, <1>18, <3>1
    <3>3. buf.mark[k] = t
      BY <1>2, <3>1, <3>2 DEF WellFormed
    <3>4. t # None /\ t \in Snapshots
      BY <1>2, <3>2, BufFields, NotNone
    <3>5. Follows(x, t) /\ t.seq \in Nat /\ x # None
      BY <1>3, <1>16, <3>2, <3>3, <3>4
    <3> QED
      BY <1>3, <3>2, <3>4, <3>5 DEF Follows
  <2> QED
    BY <2>1, <2>2
<1>19. ASSUME r = None, buf.mark[k] = x PROVE o.mark[k] = x
  BY <1>7, <1>19
<1>20. ASSUME o.mark[k] = x, r = x \/ buf.mark[k] = x PROVE buf'.mark[k] = x
  <2> SUFFICES ASSUME NEW t \in ToSet(q), t.key = k, ~StaleOrEqual(t, x) PROVE FALSE
    BY <1>10, <1>20
  <2>1. t \in ToSet(buf.pending)
    BY <1>9
  <2>2. t.exec >= x.exec
    <3>1. CASE r = x
      BY <1>3, <1>12, <1>14, <2>1, <3>1 DEF ExecOf
    <3>2. CASE buf.mark[k] = x
      BY <1>3, <1>13, <1>14, <2>1, <3>2 DEF ExecOf
    <3> QED
      BY <1>20, <3>1, <3>2
  <2>3. t # None /\ x # None
    BY <1>3, <1>14, <2>1, NotNone
  <2> QED
    BY <1>3, <1>14, <2>1, <2>2, <2>3 DEF Follows, StaleOrEqual
<1>21. ASSUME x \in ToSet(buf.pending) PROVE buf'.mark[k] = x
  <2>1. CASE r # None /\ StaleOrEqual(x, r)
    <3>1. r = x
      BY <1>15, <1>17, <2>1
    <3> QED
      BY <1>18, <1>20, <3>1
  <2>2. CASE r = None \/ ~StaleOrEqual(x, r)
    <3>1. x \in ToSet(q)
      BY <1>3, <1>9, <1>21, <2>2
    <3>2. buf'.mark[k] = x \/ (buf'.mark[k] = o.mark[k] /\ o.mark[k] # None
                               /\ StaleOrEqual(x, o.mark[k]))
      BY <1>3, <1>10, <3>1
    <3>3. CASE o.mark[k] # None /\ StaleOrEqual(x, o.mark[k]) /\ buf'.mark[k] = o.mark[k]
      <4>1. CASE o.mark[k] = buf.mark[k]
        BY <1>16, <1>17, <3>3, <4>1
      <4>2. CASE o.mark[k] = r
        BY <1>15, <1>17, <3>3, <4>2
      <4> QED
        BY <1>7, <4>1, <4>2
    <3> QED
      BY <3>2, <3>3
  <2> QED
    BY <2>1, <2>2
<1>22. LastOf(k)' = buf'.mark[k]
  BY <1>1 DEF LastOf, LastRead
<1>23. Followed(k)' => OnItsWay(k)' \/ LastOf(k)' = x
  <2> SUFFICES ASSUME Followed(k)' PROVE OnItsWay(k)' \/ buf'.mark[k] = x
    BY <1>22
  <2>1. Followed(k)
    BY <1>1 DEF Followed
  <2>2. OnItsWay(k) \/ LastOf(k) = x
    BY <2>1 DEF Reaches
  <2>3. CASE \E p \in Publishers : pub[p].at = "call" /\ pub[p].call = x
    BY <1>1, <2>3 DEF OnItsWay
  <2>4. CASE x \in ToSet(buf.pending)
    BY <1>21, <2>4
  <2>5. CASE buf.dropped[k] = x
    BY <1>1, <1>11, <2>5 DEF OnItsWay
  <2>6. CASE LastOf(k) = x
    <3>1. r = x \/ (r = None /\ buf.mark[k] = x)
      BY <1>2, <2>6 DEF LastOf
    <3> QED
      BY <1>18, <1>19, <1>20, <3>1
  <2> QED
    BY <2>2, <2>3, <2>4, <2>5, <2>6 DEF OnItsWay
<1>24. Kept(o, k, x, sent)
  <2> SUFFICES ASSUME o.mark[k] = x
               PROVE  \/ x \in ToSet(o.queue) \/ (k \notin KeysIn(o.queue) /\ sent)
                      \/ o.dropped[k] = x
    BY DEF Kept
  <2>1. CASE k \in KeysIn(o.queue)
    <3>1. PICK t \in ToSet(o.queue) : t.key = k
      BY <2>1 DEF KeysIn
    <3> QED
      BY <1>7, <3>1 DEF WellFormed
  <2>2. CASE k \notin KeysIn(o.queue) /\ r # None
    BY <1>6, <1>7, <2>2
  <2>3. CASE k \notin KeysIn(o.queue) /\ r = None
    <3>1. buf.mark[k] = x
      BY <1>7, <2>3
    <3>2. Kept(buf, k, x, LastSent(<<>>, shown[k], k, x))
      BY <1>1, <1>2, <2>3 DEF Reaches
    <3>3. \/ x \in ToSet(buf.queue)
          \/ k \notin KeysIn(buf.queue) /\ LastSent(<<>>, shown[k], k, x)
          \/ buf.dropped[k] = x
      BY <3>1, <3>2 DEF Kept
    <3>4. x \in ToSet(buf.queue) => x \in ToSet(o.queue)
      BY <1>3, <1>8, <2>3
    <3>5. LastSent(<<>>, shown[k], k, x) => sent
      BY DEF LastSent
    <3> QED
      BY <1>7, <2>3, <3>3, <3>4, <3>5
  <2> QED
    BY <2>1, <2>2, <2>3
<1>25. Kept(buf', k, x, LastSent(<<>>, shown[k], k, x))
  <2>1. sent => LastSent(<<>>, shown[k], k, x)
    BY DEF LastSent
  <2> QED
    BY <1>11, <1>24, <2>1 DEF Kept
<1> QED
  BY <1>1, <1>23, <1>25 DEF Reaches

LEMMA ReachStep ==
    ASSUME ProgressAssumption, ConnectionInv, SubscriptionInv, ReachInv, Next
    PROVE  ReachInv'
<1> SUFFICES ASSUME Live', NEW k \in Keys
             PROVE  ReadSent(k)' /\ (k \notin overtaken' => Reaches(k)')
  BY DEF ReachInv
<1>1. /\ HubInv /\ ShapeInv /\ KnownInv /\ OrderInv /\ ConnShape
      /\ Live /\ overtaken \subseteq overtaken'
  BY HistoryGrows DEF ConnectionInv, ShapeInv
<1>2. ReadSent(k) /\ (k \notin overtaken => Reaches(k) /\ Ordered(k))
  BY <1>1 DEF ReachInv, OrderInv
<1>3. CASE (\E j \in Keys : Admit(j)) \/ (\E p \in Publishers : Publishing(p))
  <2>1. conn' = conn /\ shown' = shown
    BY <1>3 DEF Admit, Publishing, Guard, Commit, Call, client
  <2>2. ReadSent(k)'
    BY <1>2, <2>1 DEF ReadSent, LastRead
  <2> QED
    BY <1>1, <1>2, <1>3, <2>2, QuietReaches, CommitReaches, CallReaches DEF Publishing
<1>4. CASE Flush
  <2>1. conn'.at # "sending"
    BY <1>1, <1>4 DEF Flush, ConnShape
  <2> QED
    BY <1>1, <1>2, <1>4, <2>1, FlushReaches DEF ReadSent
<1>5. CASE Send
  BY <1>1, <1>2, <1>5, SendReaches
<1>6. CASE Poll \/ (\E r \in Requests : Ask(r)) \/ Subscribe \/ Subscribed
  <2>1. conn'.at # "sending"
    BY <1>1, <1>6 DEF Poll, Ask, Subscribe, Subscribed, Goto, ConnShape
  <2> QED
    BY <1>1, <1>2, <1>6, <2>1, WalkReaches DEF ReadSent
<1>7. CASE ReadHub \/ ReadTask
  <2>1. conn'.at # "sending"
    BY <1>1, <1>7 DEF ReadHub, ReadTask, Got, Goto, ConnShape
  <2> QED
    BY <1>1, <1>2, <1>7, <2>1, ReadReaches DEF ReadSent
<1>8. CASE Register
  <2>1. overtaken' = overtaken
    BY <1>8 DEF Register, history
  <2>2. ReadSent(k)'
    BY <1>1, <1>8, RegisterSends
  <2> QED
    BY <1>1, <1>2, <1>8, <2>1, <2>2, RegisterReaches
<1>9. CASE Complete
  <2>1. conn'.at # "sending"
    BY <1>1, <1>9 DEF Complete, ConnShape
  <2> QED
    BY <1>1, <1>2, <1>9, <2>1, CompleteReaches DEF ReadSent
<1>10. CASE Leaving
  BY <1>1, <1>10, LeavingEnds
<1> QED
  BY <1>3, <1>4, <1>5, <1>6, <1>7, <1>8, <1>9, <1>10 DEF Next, Connection, Leaving

ConvergeInv == ConnectionInv /\ SubscriptionInv /\ ReachInv

LEMMA ConvergeInit == ASSUME ProgressAssumption PROVE Init => ConvergeInv
<1> SUFFICES ASSUME Init PROVE ConvergeInv
  OBVIOUS
<1>1. ConnectionInv
  BY ConnectionInit
<1>2. /\ conn.at = "flush" /\ conn.tokens = {} /\ conn.added = {} /\ subscribed = {}
      /\ conn.read = <<>> /\ latest = Clear
      /\ buf.queue = <<>> /\ buf.pending = <<>> /\ buf.dropped = Clear
      /\ \A p \in Publishers : pub[p].at = "idle"
  BY DEF Init, IdleThread
<1>3. SubscriptionInv
  <2>1. Mine = {} /\ IsFiniteSet(Mine)
    BY <1>2, FS_EmptySet DEF Mine
  <2>2. Fits(buf, Mine)
    BY <1>2, EmptySet DEF Fits, KeysIn, Clear
  <2> QED
    BY <1>2, <2>1, <2>2 DEF SubscriptionInv
<1>4. ReachInv
  BY <1>2 DEF ReachInv, ReadSent, Reaches, Clear
<1> QED
  BY <1>1, <1>3, <1>4 DEF ConvergeInv

LEMMA ConvergeStep ==
    ASSUME ProgressAssumption, ConvergeInv, [Next]_vars
    PROVE  ConvergeInv'
<1>1. ConnectionInv'
  BY ConnectionStep DEF ConvergeInv
<1>2. CASE Next
  BY <1>1, <1>2, SubscriptionStep, ReachStep DEF ConvergeInv, ConnectionInv
<1>3. CASE UNCHANGED vars
  <2>1. UNCHANGED <<buf, conn, shown, overtaken, latest, pub, subscribed>>
    BY <1>3 DEF vars
  <2>2. (Mine' = Mine) /\ (Live' <=> Live)
    BY <2>1 DEF Mine, Live, Batch
  <2>3. SubscriptionInv'
    BY <2>1, <2>2 DEF ConvergeInv, SubscriptionInv
  <2>4. ASSUME NEW k \in Keys
        PROVE  (Reaches(k)' <=> Reaches(k)) /\ (ReadSent(k)' <=> ReadSent(k))
    BY <2>1 DEF Reaches, ReadSent, Followed, OnItsWay, LastOf, LastRead, Asked
  <2>5. ReachInv'
    BY <2>1, <2>2, <2>4 DEF ConvergeInv, ReachInv
  <2> QED
    BY <1>1, <2>3, <2>5 DEF ConvergeInv
<1> QED
  BY <1>2, <1>3

LEMMA ConvergesWhenQuiet ==
    ASSUME ProgressAssumption, ConvergeInv
    PROVE  Converges
<1> SUFFICES ASSUME Quiet, NEW k \in conn.tokens \ overtaken, latest[k] # None,
                    shown[k] # latest[k]
             PROVE  buf.dropped[k] = latest[k] /\ Cardinality(conn.tokens) > buf.capacity
  BY DEF Converges
<1>1. /\ conn.at = "receive" /\ conn.items = <<>> /\ buf.queue = <<>>
      /\ \A p \in Publishers : pub[p].at # "call"
  BY DEF Quiet, Waiting
<1>2. /\ ConnShape /\ BufShape /\ WellFormed(buf)
      /\ Live /\ ~Batch /\ SubscriptionInv /\ ReachInv
  BY <1>1 DEF ConvergeInv, ConnectionInv, ShapeInv, BufShape, Live, Batch
<1>3. buf.pending = <<>> /\ conn.read = <<>> /\ conn.added = {} /\ k \in Keys
  BY <1>2 DEF BufShape, ConnShape
<1>4. Reaches(k) /\ Followed(k)
  BY <1>2, <1>3 DEF ReachInv, Followed
<1>5. LastOf(k) = buf.mark[k]
  BY <1>3 DEF LastOf, LastRead
<1>6. OnItsWay(k) \/ buf.mark[k] = latest[k]
  BY <1>4, <1>5 DEF Reaches
<1>7. Kept(buf, k, latest[k], LastSent(conn.items, shown[k], k, latest[k]))
  BY <1>1, <1>4 DEF Reaches
<1>8. ~LastSent(<<>>, shown[k], k, latest[k])
  BY DEF LastSent
<1>9. buf.dropped[k] = latest[k]
  BY <1>1, <1>3, <1>6, <1>7, <1>8, EmptySet DEF OnItsWay, Kept
<1>10. Cardinality(conn.tokens) > buf.capacity
  <2>1. Mine = conn.tokens
    BY <1>3 DEF Mine
  <2> QED
    BY <1>2, <1>3, <1>9, <2>1 DEF SubscriptionInv, Fits
<1> QED
  BY <1>9, <1>10

\* A client that has subscribed ends up with the latest event of each of its keys, however
\* its subscribing, reading and sending is interleaved with the publications: or the
\* buffer dropped that very event, because the client follows more keys than fit.
THEOREM ClientConverges ==
    ASSUME ProgressAssumption
    PROVE  Spec => []Converges
<1>1. Init => ConvergeInv
  BY ConvergeInit
<1>2. ConvergeInv /\ [Next]_vars => ConvergeInv'
  BY ConvergeStep
<1>3. ConvergeInv => Converges
  BY ConvergesWhenQuiet
<1> QED
  BY <1>1, <1>2, <1>3, PTL DEF Spec

===============================================================================
