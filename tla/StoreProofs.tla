----------------------------- MODULE StoreProofs -----------------------------
(***************************************************************************)
(* Theorems about the running server, for every number of definers and of  *)
(* executors, every capacity of the pipes and all traffic.                 *)
(***************************************************************************)
EXTENDS Store, FiniteSetTheorems, SequenceTheorems, WellFoundedInduction, TLAPS

\* The requests a message becomes.
Requests(message) == Decode(message.frame, message.identity)
Request == UNION {Range(Requests(message)) : message \in Traffic}
TaskList == [executor : Executors, tasks : Seq(Request)]

IsSequence(s) == s \in Seq(Range(s))

\* The types of the state; a thread that executes nothing has no batch.
StoreTypeInv ==
    /\ unsent \subseteq Traffic
    /\ inbox \in [Definers -> Seq(Traffic)]
    /\ definer \in [Definers -> {"receive", "dispatch", "forward"}]
    /\ outbox \in [Definers -> Seq(TaskList)]
    /\ pipe \in [Definers -> [Executors -> Seq(Seq(Request))]]
    /\ DOMAIN sink = Definers /\ \A d \in Definers : IsSequence(sink[d])
    /\ busy \in [Executors -> BOOLEAN]
    /\ batch \in [Executors -> Seq(Seq(Request))]
    /\ DOMAIN sent = Executors /\ \A e \in Executors : IsSequence(sent[e])
    /\ \A e \in Executors : ~busy[e] => batch[e] = <<>> /\ sent[e] = <<>>

\* The places a request can be at on its way from the client through the threads.
AtClients == UNION {{<<"client", m, n>> : n \in DOMAIN Requests(m)} : m \in unsent}
InInbox(d) == UNION {{<<"inbox", d, i, n>> : n \in DOMAIN Requests(inbox[d][i])} :
                        i \in DOMAIN inbox[d]}
InOutbox(d) == UNION {{<<"outbox", d, i, n>> : n \in DOMAIN outbox[d][i].tasks} :
                         i \in DOMAIN outbox[d]}
InPipe(d, e) == UNION {{<<"pipe", d, e, i, n>> : n \in DOMAIN pipe[d][e][i]} :
                          i \in DOMAIN pipe[d][e]}
InBatch(e) == UNION {{<<"batch", e, i, n>> : n \in DOMAIN batch[e][i]} :
                        i \in DOMAIN batch[e]}

Places ==
    AtClients \cup (UNION {InInbox(d) : d \in Definers})
    \cup (UNION {InOutbox(d) : d \in Definers})
    \cup (UNION {InPipe(d, e) : d \in Definers, e \in Executors})
    \cup (UNION {InBatch(e) : e \in Executors})

RequestAt(p) ==
    CASE p[1] = "client" -> Requests(p[2])[p[3]]
      [] p[1] = "inbox"  -> Requests(inbox[p[2]][p[3]])[p[4]]
      [] p[1] = "outbox" -> outbox[p[2]][p[3]].tasks[p[4]]
      [] p[1] = "pipe"   -> pipe[p[2]][p[3]][p[4]][p[5]]
      [] p[1] = "batch"  -> batch[p[2]][p[3]][p[4]]

\* The replies on their way, and those that have arrived.
Outgoing == BagToSet(delivered) \cup (UNION {Range(sink[d]) : d \in Definers})

\* A client has sent a frame with this identifier.
HasSent(identity, id) ==
    \E message \in Traffic \ unsent :
        message.identity = identity /\ id \in IdsOf(message.frame)

\* Whatever has left the clients, a request with an operation or a reply, bears the
\* identity and an identifier of a frame that was sent.
GenuineRequests ==
    \A p \in Places :
        p[1] # "client" /\ RequestAt(p).ops # <<>> =>
            HasSent(RequestAt(p).identity, RequestAt(p).id)

GenuineReplies == \A r \in Outgoing : HasSent(r.to, r.id)

\* No request is at two places.
OnePlace ==
    \A p, q \in Places :
        /\ RequestAt(p).ops # <<>> /\ RequestAt(q).ops # <<>>
        /\ RequestAt(p).identity = RequestAt(q).identity
        /\ RequestAt(p).id = RequestAt(q).id
        => p = q

SameReply(r, s) == r.to = s.to /\ r.id = s.id /\ r.op = s.op

\* No two replies on their way, or one on its way and one that has arrived, answer
\* the same operation.
OneReply ==
    /\ \A c, d \in Definers : \A i \in DOMAIN sink[c], j \in DOMAIN sink[d] :
          SameReply(sink[c][i], sink[d][j]) => c = d /\ i = j
    /\ \A d \in Definers : \A i \in DOMAIN sink[d] : \A r \in BagToSet(delivered) :
          ~SameReply(r, sink[d][i])

\* A request with a reply that left its executor is nowhere but in the batch where
\* that reply is on record.
RepliedFromBatch ==
    \A r \in Outgoing : \A p \in Places :
        /\ RequestAt(p).ops # <<>>
        /\ RequestAt(p).identity = r.to /\ RequestAt(p).id = r.id
        => p[1] = "batch" /\ Answered(p[2], <<p[3], p[4]>>, r.op)

StoreInv ==
    /\ StoreTypeInv /\ GenuineRequests /\ GenuineReplies
    /\ OnePlace /\ OneReply /\ RepliedFromBatch /\ DeliveredOnce

-----------------------------------------------------------------------------
(* Sequences.                                                              *)

\* A set of natural numbers with a member has a least one.
LEMMA LeastNumber ==
    ASSUME NEW T \in SUBSET Nat, T # {}
    PROVE  \E n \in T : \A k \in T : n <= k
<1>1. IsWellFoundedOn(OpToRel(<, Nat), Nat)
      BY NatLessThanWellFounded
<1>2. PICK n \in T : \A k \in T : <<k, n>> \notin OpToRel(<, Nat)
      BY <1>1, WFMin
<1>3. \A k \in T : ~(k < n)
      BY <1>2 DEF OpToRel
<1> QED
      BY <1>3

LEMMA SequenceFunction ==
    ASSUME NEW S, NEW n \in Nat, NEW f \in [1 .. n -> S]
    PROVE  f \in Seq(S) /\ Len(f) = n
  OBVIOUS

\* f is what FlattenSeq computes of the first m sequences.
Flattens(f, seqs, m) ==
    f = [i \in 1 .. m |-> IF i = 1 THEN seqs[i] ELSE f[i - 1] \o seqs[i]]

LEMMA FlattensExists ==
    ASSUME NEW seqs, NEW m \in Nat
    PROVE  \E f : Flattens(f, seqs, m)
<1> DEFINE T == {n \in Nat : ~\E f : Flattens(f, seqs, n)}
<1>1. CASE T = {}
      BY <1>1
<1>2. ASSUME T # {}
      PROVE  FALSE
  <2>1. PICK n \in T : \A k \in T : n <= k
        BY <1>2, LeastNumber
  <2>2. CASE n = 0
    <3>1. Flattens([i \in 1 .. n |-> seqs[i]], seqs, n)
          BY <2>2 DEF Flattens
    <3> QED
          BY <2>1, <3>1
  <2>3. CASE n # 0
    <3>1. n - 1 \in Nat /\ n - 1 \notin T
          BY <2>1, <2>3
    <3>2. PICK f : Flattens(f, seqs, n - 1)
          BY <3>1
    <3> DEFINE g == [i \in 1 .. n |-> IF i = 1 THEN seqs[i] ELSE f[i - 1] \o seqs[i]]
    <3>3. \A i \in 1 .. n - 1 : f[i] = IF i = 1 THEN seqs[i] ELSE f[i - 1] \o seqs[i]
          BY <3>2 DEF Flattens
    <3>4. \A i \in 1 .. n - 1 : f[i] = g[i]
          BY <3>1, <3>3
    <3>5. \A i \in 1 .. n : i # 1 => i - 1 \in 1 .. n - 1
          BY <3>1
    <3>6. Flattens(g, seqs, n)
          BY <3>4, <3>5 DEF Flattens
    <3> QED
          BY <2>1, <3>6
  <2> QED
        BY <2>2, <2>3
<1> QED
      BY <1>1, <1>2

\* FlattenSeq is the last of the values its recursive function has.
LEMMA FlattenSeqValue ==
    ASSUME NEW seqs, Len(seqs) \in Nat \ {0}
    PROVE  \E f : Flattens(f, seqs, Len(seqs)) /\ FlattenSeq(seqs) = f[Len(seqs)]
<1> DEFINE F == CHOOSE f : Flattens(f, seqs, Len(seqs))
<1>1. Flattens(F, seqs, Len(seqs))
      BY FlattensExists
<1>2. FlattenSeq(seqs) = F[Len(seqs)]
      BY Zenon DEF FlattenSeq, Flattens
<1> QED
      BY <1>1, <1>2

\* Every place of s holds what one place of seqs holds, no two of them the same:
\* from[k] is the number of a sequence among the first m, and a place in it.
Gathers(from, s, seqs, m) ==
    /\ from \in [DOMAIN s -> Nat \X Nat]
    /\ \A k \in DOMAIN s :
          /\ from[k][1] \in 1 .. m /\ from[k][2] \in DOMAIN seqs[from[k][1]]
          /\ s[k] = seqs[from[k][1]][from[k][2]]
    /\ \A k, l \in DOMAIN s : from[k] = from[l] => k = l

LEMMA GathersFirst ==
    ASSUME NEW S, NEW seqs \in Seq(Seq(S)), seqs # <<>>
    PROVE  \E from : Gathers(from, seqs[1], seqs, 1)
<1> DEFINE from == [k \in DOMAIN seqs[1] |-> <<1, k>>]
<1>1. seqs[1] \in Seq(S)
      OBVIOUS
<1>2. \A k \in DOMAIN seqs[1] : k \in Nat
      BY <1>1
<1>3. Gathers(from, seqs[1], seqs, 1)
      BY <1>2 DEF Gathers
<1> QED
      BY <1>3

LEMMA GathersNext ==
    ASSUME NEW S, NEW seqs \in Seq(Seq(S)), NEW m \in Nat, m + 1 \in DOMAIN seqs,
           NEW s \in Seq(S), NEW old, Gathers(old, s, seqs, m)
    PROVE  \E from : Gathers(from, s \o seqs[m + 1], seqs, m + 1)
<1> DEFINE t == seqs[m + 1]
           from == [k \in DOMAIN (s \o t) |->
                      IF k <= Len(s) THEN old[k] ELSE <<m + 1, k - Len(s)>>]
<1>1. t \in Seq(S) /\ s \o t \in Seq(S) /\ Len(s \o t) = Len(s) + Len(t)
      OBVIOUS
<1>2. ASSUME NEW k \in DOMAIN (s \o t)
      PROVE  \/ /\ k \in DOMAIN s /\ k <= Len(s)
                /\ (s \o t)[k] = s[k] /\ from[k] = old[k]
             \/ /\ k - Len(s) \in DOMAIN t /\ ~(k <= Len(s))
                /\ (s \o t)[k] = t[k - Len(s)] /\ from[k] = <<m + 1, k - Len(s)>>
      BY <1>1
<1> HIDE DEF from
<1>3. ASSUME NEW k \in DOMAIN (s \o t)
      PROVE  /\ from[k] \in Nat \X Nat
             /\ from[k][1] \in 1 .. m + 1 /\ from[k][2] \in DOMAIN seqs[from[k][1]]
             /\ (s \o t)[k] = seqs[from[k][1]][from[k][2]]
  <2>1. CASE k \in DOMAIN s /\ (s \o t)[k] = s[k] /\ from[k] = old[k]
    <3>1. old[k] \in Nat \X Nat
          BY <2>1 DEF Gathers
    <3> QED
          BY <2>1, <3>1 DEF Gathers
  <2>2. CASE /\ k - Len(s) \in DOMAIN t /\ (s \o t)[k] = t[k - Len(s)]
             /\ from[k] = <<m + 1, k - Len(s)>>
    <3>1. k - Len(s) \in Nat
          BY <1>1, <2>2
    <3> QED
          BY <2>2, <3>1
  <2> QED
        BY <1>2, <2>1, <2>2
<1>4. ASSUME NEW k \in DOMAIN (s \o t), NEW l \in DOMAIN (s \o t), from[k] = from[l]
      PROVE  k = l
  <2>1. \A i \in DOMAIN s : old[i] # <<m + 1, k - Len(s)>> /\ old[i] # <<m + 1, l - Len(s)>>
        BY DEF Gathers
  <2>2. \A i, j \in DOMAIN s : old[i] = old[j] => i = j
        BY DEF Gathers
  <2>3. k \in Nat /\ l \in Nat /\ Len(s) \in Nat
        BY <1>1
  <2>4. CASE k \in DOMAIN s /\ l \in DOMAIN s /\ from[k] = old[k] /\ from[l] = old[l]
        BY <1>4, <2>2, <2>4
  <2>5. CASE from[k] = <<m + 1, k - Len(s)>> /\ from[l] = <<m + 1, l - Len(s)>>
    <3>1. <<m + 1, k - Len(s)>> = <<m + 1, l - Len(s)>>
          BY <1>4, <2>5
    <3>2. k - Len(s) = l - Len(s)
          BY <3>1
    <3> QED
          BY <2>3, <3>2
  <2> QED
        BY <1>2, <1>4, <2>1, <2>4, <2>5
<1>5. from = [k \in DOMAIN (s \o t) |-> from[k]]
      BY DEF from
<1>6. Gathers(from, s \o t, seqs, m + 1)
      BY <1>3, <1>4, <1>5 DEF Gathers
<1> QED
      BY <1>6

\* FlattenSeq neither invents nor copies: what stands in it comes from places of
\* the sequences it joins, a different one each.
LEMMA FlattenSeqGathers ==
    ASSUME NEW S, NEW seqs \in Seq(Seq(S))
    PROVE  /\ FlattenSeq(seqs) \in Seq(S)
           /\ \E from : Gathers(from, FlattenSeq(seqs), seqs, Len(seqs))
<1>1. CASE Len(seqs) = 0
  <2>1. FlattenSeq(seqs) = <<>>
        BY <1>1 DEF FlattenSeq
  <2>2. Gathers(<<>>, <<>>, seqs, Len(seqs))
        BY DEF Gathers
  <2> QED
        BY <2>1, <2>2
<1>2. CASE Len(seqs) # 0
  <2>1. PICK f : Flattens(f, seqs, Len(seqs)) /\ FlattenSeq(seqs) = f[Len(seqs)]
        BY <1>2, FlattenSeqValue
  <2> DEFINE Good(i) == f[i] \in Seq(S) /\ \E from : Gathers(from, f[i], seqs, i)
             T == {i \in 1 .. Len(seqs) : ~Good(i)}
  <2>2. f[1] = seqs[1] /\ \A i \in 2 .. Len(seqs) : f[i] = f[i - 1] \o seqs[i]
    <3>1. \A i \in 1 .. Len(seqs) :
              f[i] = IF i = 1 THEN seqs[i] ELSE f[i - 1] \o seqs[i]
          BY <2>1, Zenon DEF Flattens
    <3>2. 1 \in 1 .. Len(seqs) /\ \A i \in 2 .. Len(seqs) : i \in 1 .. Len(seqs) /\ i # 1
          BY <1>2
    <3> QED
          BY <3>1, <3>2, Zenon
  <2>3. T \subseteq Nat /\ \A i \in 1 .. Len(seqs) : i \in T \/ Good(i)
        OBVIOUS
  <2>4. \A i \in T : i \in 1 .. Len(seqs) /\ ~Good(i)
        OBVIOUS
  <2>5. Good(1)
        BY <1>2, <2>2, GathersFirst
  <2>6. ASSUME NEW n \in 2 .. Len(seqs), Good(n - 1)
        PROVE  Good(n)
    <3>1. n - 1 \in Nat /\ (n - 1) + 1 = n /\ n \in DOMAIN seqs
          OBVIOUS
    <3>2. f[n] = f[n - 1] \o seqs[(n - 1) + 1]
          BY <2>2, <3>1
    <3>3. \E from : Gathers(from, f[n], seqs, (n - 1) + 1)
          BY <2>6, <3>1, <3>2, GathersNext
    <3>4. f[n] \in Seq(S)
          BY <2>6, <3>1, <3>2
    <3> QED
          BY <3>1, <3>3, <3>4
  <2> HIDE DEF Good, T
  <2>7. ASSUME T # {}
        PROVE  FALSE
    <3>1. PICK n \in T : \A k \in T : n <= k
          BY <2>3, <2>7, LeastNumber
    <3>2. n \in 1 .. Len(seqs) /\ n # 1
          BY <2>4, <2>5, <3>1
    <3>3. n - 1 \notin T /\ n - 1 \in 1 .. Len(seqs) /\ n \in 2 .. Len(seqs)
          BY <3>1, <3>2
    <3> QED
          BY <2>3, <2>4, <2>6, <3>1, <3>3
  <2>8. Good(Len(seqs))
        BY <1>2, <2>3, <2>7
  <2> QED
        BY <2>1, <2>8 DEF Good
<1> QED
      BY <1>1, <1>2

\* s lists the members of S, each once, in increasing order.
Ascending(s, S) ==
    /\ s \in SetToSeqs(S)
    /\ \A a, b \in DOMAIN s : a < b => s[a] < s[b]

LEMMA AscendingNext ==
    ASSUME NEW n \in Nat \ {0}, NEW S \in SUBSET (1 .. n), n \in S,
           NEW old, Ascending(old, S \ {n})
    PROVE  \E s : Ascending(s, S)
<1> DEFINE c == Cardinality(S \ {n})
           s == [a \in 1 .. c + 1 |-> IF a <= c THEN old[a] ELSE n]
<1>0. S \subseteq Nat /\ \A x \in S : x <= n
      OBVIOUS
<1>1. IsFiniteSet(S)
      BY <1>0, FS_BoundedSetOfNaturals
<1>2. c \in Nat /\ Cardinality(S) = c + 1
  <2>1. IsFiniteSet(S \ {n}) /\ c = Cardinality(S) - 1
        BY <1>1, FS_RemoveElement
  <2>2. Cardinality(S) \in Nat /\ c \in Nat
        BY <1>1, <2>1, FS_CardinalityType
  <2> QED
        BY <2>1, <2>2
<1> HIDE DEF c
<1>3. old \in [1 .. c -> S \ {n}] /\ \A a, b \in 1 .. c : a # b => old[a] # old[b]
      BY DEF Ascending, SetToSeqs, c
<1>4. \A a, b \in 1 .. c : a < b => old[a] < old[b]
      BY <1>3 DEF Ascending
<1>5. \A a \in 1 .. c : old[a] \in S /\ old[a] < n
  <2>1. \A x \in S \ {n} : x \in S /\ x < n
        BY <1>0
  <2> QED
        BY <1>3, <2>1
<1>6. \A a \in 1 .. c + 1 : a \in 1 .. c \/ a = c + 1
      BY <1>2
<1>7. s \in [1 .. c + 1 -> S]
      BY <1>2, <1>5, <1>6
<1>8. \A a, b \in 1 .. c + 1 : a < b => s[a] < s[b]
  <2> SUFFICES ASSUME NEW a \in 1 .. c + 1, NEW b \in 1 .. c + 1, a < b
               PROVE  s[a] < s[b]
      OBVIOUS
  <2>1. a \in 1 .. c /\ s[a] = old[a]
        BY <1>2
  <2>2. CASE b \in 1 .. c
        BY <1>2, <1>4, <2>1, <2>2
  <2>3. CASE b = c + 1
        BY <1>2, <1>5, <2>1, <2>3
  <2> QED
        BY <1>6, <2>2, <2>3
<1>9. \A a, b \in 1 .. c + 1 : a # b => s[a] # s[b]
  <2> SUFFICES ASSUME NEW a \in 1 .. c + 1, NEW b \in 1 .. c + 1, a # b
               PROVE  s[a] # s[b]
      OBVIOUS
  <2>1. s[a] \in Nat /\ s[b] \in Nat
        BY <1>0, <1>7
  <2>2. a < b \/ b < a
        BY <1>2
  <2> QED
        BY <1>8, <2>1, <2>2
<1>10. Ascending(s, S)
      BY <1>2, <1>7, <1>8, <1>9 DEF Ascending, SetToSeqs
<1> QED
      BY <1>10

\* The members of a set of indexes can be listed in order.
LEMMA AscendingExists ==
    ASSUME NEW m \in Nat, NEW S \in SUBSET (1 .. m)
    PROVE  \E s : Ascending(s, S)
<1> DEFINE Good(n) == \A U \in SUBSET (1 .. n) : \E s : Ascending(s, U)
           T == {n \in Nat : ~Good(n)}
<1>1. T \subseteq Nat /\ \A n \in Nat : n \in T \/ Good(n)
      OBVIOUS
<1>2. \A n \in T : ~Good(n)
      OBVIOUS
<1>3. Good(0)
  <2>1. Ascending(<<>>, {})
        BY FS_EmptySet DEF Ascending, SetToSeqs
  <2>2. \A U \in SUBSET (1 .. 0) : U = {}
        OBVIOUS
  <2> QED
        BY <2>1, <2>2
<1>4. ASSUME NEW n \in Nat \ {0}, Good(n - 1)
      PROVE  Good(n)
  <2> SUFFICES ASSUME NEW U \in SUBSET (1 .. n)
               PROVE  \E s : Ascending(s, U)
      OBVIOUS
  <2>1. U \ {n} \in SUBSET (1 .. n - 1)
        OBVIOUS
  <2>2. PICK old : Ascending(old, U \ {n})
        BY <1>4, <2>1
  <2>3. CASE n \in U
        BY <2>2, <2>3, AscendingNext
  <2>4. CASE n \notin U
    <3>1. U \ {n} = U
          BY <2>4
    <3> QED
          BY <2>2, <3>1
  <2> QED
        BY <2>3, <2>4
<1>5. Good(m) => \E s : Ascending(s, S)
      OBVIOUS
<1> HIDE DEF Good, T
<1>6. ASSUME T # {}
      PROVE  FALSE
  <2>1. PICK n \in T : \A k \in T : n <= k
        BY <1>1, <1>6, LeastNumber
  <2>2. n \in Nat \ {0}
        BY <1>1, <1>2, <1>3, <2>1
  <2>3. n - 1 \in Nat /\ n - 1 \notin T
        BY <2>1, <2>2
  <2> QED
        BY <1>1, <1>2, <1>4, <2>1, <2>2, <2>3
<1> QED
      BY <1>1, <1>5, <1>6

\* mine[j] is the request that stands at place j of the bucket of e: one dealt to e,
\* a different one each.
Deals(mine, requests, assigned, e) ==
    /\ mine \in [DOMAIN Bucket(requests, assigned, e) -> DOMAIN requests]
    /\ \A j \in DOMAIN Bucket(requests, assigned, e) :
          /\ Bucket(requests, assigned, e)[j] = requests[mine[j]]
          /\ assigned[mine[j]] = e
    /\ \A j, k \in DOMAIN Bucket(requests, assigned, e) : mine[j] = mine[k] => j = k

\* What processForExecutor puts in a bucket: requests dealt to the executor, no others
\* and each once.
LEMMA BucketGathers ==
    ASSUME NEW S, NEW requests \in Seq(S), NEW assigned \in [DOMAIN requests -> Executors],
           NEW e
    PROVE  /\ Bucket(requests, assigned, e) \in Seq(S)
           /\ \E mine : Deals(mine, requests, assigned, e)
<1> DEFINE D == {i \in DOMAIN requests : assigned[i] = e}
           mine == CHOOSE s \in SetToSeqs(D) : \A a, b \in DOMAIN s : a < b => s[a] < s[b]
<1>1. D \in SUBSET (1 .. Len(requests)) /\ Len(requests) \in Nat
      OBVIOUS
<1>2. \E s : Ascending(s, D)
      BY <1>1, AscendingExists
<1>3. mine \in SetToSeqs(D)
      BY <1>2, Zenon DEF Ascending
<1>4. Bucket(requests, assigned, e) = [n \in DOMAIN mine |-> requests[mine[n]]]
      BY Zenon DEF Bucket
<1> HIDE DEF mine
<1>5. /\ mine \in [1 .. Cardinality(D) -> D]
      /\ \A j, k \in 1 .. Cardinality(D) : mine[j] = mine[k] => j = k
      BY <1>3 DEF SetToSeqs
<1>6. Cardinality(D) \in Nat
  <2>1. IsFiniteSet(D)
        BY <1>1, FS_Interval, FS_Subset
  <2> QED
        BY <2>1, FS_CardinalityType
<1>7. DOMAIN Bucket(requests, assigned, e) = 1 .. Cardinality(D)
      BY <1>4, <1>5
<1>8. \A j \in 1 .. Cardinality(D) :
          /\ mine[j] \in DOMAIN requests /\ assigned[mine[j]] = e
          /\ Bucket(requests, assigned, e)[j] = requests[mine[j]]
          /\ requests[mine[j]] \in S
      BY <1>4, <1>5
<1>9. Bucket(requests, assigned, e) \in [1 .. Cardinality(D) -> S]
      BY <1>4, <1>5, <1>8
<1>10. mine \in [1 .. Cardinality(D) -> DOMAIN requests]
      BY <1>5
<1>11. Bucket(requests, assigned, e) \in Seq(S)
      BY <1>6, <1>9, SequenceFunction
<1>12. Deals(mine, requests, assigned, e)
      BY <1>5, <1>7, <1>8, <1>10 DEF Deals
<1> QED
      BY <1>11, <1>12

\* Appending to a sequence gives a sequence, with the new element at its end.
LEMMA AppendSequence ==
    ASSUME NEW s, IsSequence(s), NEW x
    PROVE  /\ IsSequence(Append(s, x)) /\ Last(Append(s, x)) = x
           /\ Range(Append(s, x)) = Range(s) \cup {x}
           /\ Len(s) \in Nat /\ DOMAIN s = 1 .. Len(s)
           /\ DOMAIN Append(s, x) = 1 .. Len(s) + 1
           /\ Append(s, x)[Len(s) + 1] = x
           /\ \A i \in DOMAIN s : Append(s, x)[i] = s[i]
<1> DEFINE S == Range(s) \cup {x}
           t == Append(s, x)
<1>1. s \in Seq(S) /\ x \in S
      BY SeqMonotonic DEF IsSequence
<1>2. /\ t \in Seq(S) /\ Len(s) \in Nat /\ DOMAIN s = 1 .. Len(s) /\ Len(t) = Len(s) + 1
      /\ DOMAIN t = 1 .. Len(s) + 1
      /\ t[Len(s) + 1] = x /\ \A i \in DOMAIN s : t[i] = s[i]
  <2> HIDE DEF S
  <2> QED
        BY <1>1
<1>3. \A i \in 1 .. Len(s) + 1 : i \in 1 .. Len(s) \/ i = Len(s) + 1
      BY <1>2
<1>4. 1 .. Len(s) \subseteq 1 .. Len(s) + 1 /\ Len(s) + 1 \in 1 .. Len(s) + 1
      BY <1>2
<1> HIDE DEF t
<1>5. Range(t) = S
      BY <1>2, <1>3, <1>4 DEF Range
<1> QED
      BY <1>2, <1>5 DEF IsSequence, Last, t

LEMMA EmptySequence == IsSequence(<<>>) /\ Range(<<>>) = {} /\ DOMAIN <<>> = {}
  BY DEF IsSequence, Range

-----------------------------------------------------------------------------
(* The requests of a frame.                                                *)

\* decode gives every request the identity of the client and, unless it left it
\* without operations, an identifier of the frame.
LEMMA RequestsOfFrame ==
    ASSUME NEW m \in Traffic
    PROVE  /\ Requests(m) \in Seq(Request)
           /\ \A n \in DOMAIN Requests(m) :
                 /\ Requests(m)[n].identity = m.identity
                 /\ Requests(m)[n].ops # <<>> => Requests(m)[n].id \in IdsOf(m.frame)
<1> DEFINE items == m.frame.items
<1>1. Len(items) \in Nat /\ DOMAIN items = 1 .. Len(items)
      BY TrafficAssumption
<1>2. CASE m.frame.parses /\ m.frame.atomic
  <2>1. /\ DOMAIN Requests(m) = 1 .. 1
        /\ Requests(m)[1].identity = m.identity
        /\ Requests(m)[1].id = m.frame.identifier
        BY <1>2 DEF Requests, Decode
  <2>2. Requests(m) = [n \in 1 .. 1 |-> Requests(m)[n]]
        BY <1>2 DEF Requests, Decode
  <2>3. Requests(m) \in [1 .. 1 -> Request]
        BY <2>1, <2>2 DEF Request, Range
  <2>4. Requests(m) \in Seq(Request)
        BY <2>3, SequenceFunction
  <2> QED
        BY <1>2, <2>1, <2>4 DEF IdsOf
<1>3. CASE m.frame.parses /\ ~m.frame.atomic
  <2>1. DOMAIN Requests(m) = DOMAIN items
        BY <1>3 DEF Requests, Decode
  <2>2. Requests(m) = [n \in DOMAIN items |-> Requests(m)[n]]
        BY <1>3 DEF Requests, Decode
  <2>3. Requests(m) \in [1 .. Len(items) -> Request]
        BY <1>1, <2>1, <2>2 DEF Request, Range
  <2>4. Requests(m) \in Seq(Request)
        BY <1>1, <2>3, SequenceFunction
  <2>5. ASSUME NEW n \in DOMAIN items
        PROVE  /\ Requests(m)[n].identity = m.identity
               /\ Requests(m)[n].ops # <<>> => Requests(m)[n].id = items[n].identifier
        BY <1>3 DEF Requests, Decode
  <2> QED
        BY <1>3, <2>1, <2>4, <2>5 DEF IdsOf
<1>4. CASE ~m.frame.parses
  <2>1. Requests(m) = <<>>
        BY <1>4 DEF Requests, Decode
  <2> QED
        BY <2>1
<1>5. m.frame.parses \in BOOLEAN /\ m.frame.atomic \in BOOLEAN
      BY TrafficAssumption
<1> QED
      BY <1>2, <1>3, <1>4, <1>5

\* Two requests with operations that have the same client and the same identifier
\* are one: uuids are unique.
LEMMA RequestsDiffer ==
    ASSUME NEW m \in Traffic, NEW k \in Traffic,
           NEW n \in DOMAIN Requests(m), NEW j \in DOMAIN Requests(k),
           Requests(m)[n].ops # <<>>, Requests(k)[j].ops # <<>>,
           Requests(m)[n].identity = Requests(k)[j].identity,
           Requests(m)[n].id = Requests(k)[j].id
    PROVE  m = k /\ n = j
<1>1. m = k
  <2>1. m.identity = k.identity /\ IdsOf(m.frame) \cap IdsOf(k.frame) # {}
        BY RequestsOfFrame
  <2> QED
        BY <2>1, UuidAssumption
<1>2. CASE m.frame.parses /\ m.frame.atomic
      BY <1>1, <1>2 DEF Requests, Decode
<1>3. CASE m.frame.parses /\ ~m.frame.atomic
  <2> DEFINE ids == [i \in DOMAIN m.frame.items |-> m.frame.items[i].identifier]
  <2>1. /\ n \in DOMAIN ids /\ j \in DOMAIN ids
        /\ Requests(m)[n].id = ids[n] /\ Requests(m)[j].id = ids[j]
        BY <1>1, <1>3 DEF Requests, Decode
  <2>2. \A a, b \in DOMAIN ids : ids[a] = ids[b] => a = b
        BY <1>3, UuidAssumption DEF IsInjective
  <2> QED
        BY <1>1, <2>1, <2>2
<1>4. CASE ~m.frame.parses
  <2>1. Requests(m) = <<>>
        BY <1>4 DEF Requests, Decode
  <2> QED
        BY <2>1
<1>5. m.frame.parses \in BOOLEAN /\ m.frame.atomic \in BOOLEAN
      BY TrafficAssumption
<1> QED
      BY <1>1, <1>2, <1>3, <1>4, <1>5

\* The requests of all the frames received.
LEMMA DecodeAllGathers ==
    ASSUME NEW messages \in Seq(Traffic)
    PROVE  /\ DecodeAll(messages) \in Seq(Request)
           /\ \E from : Gathers(from, DecodeAll(messages),
                               [i \in DOMAIN messages |-> Requests(messages[i])],
                               Len(messages))
<1> DEFINE seqs == [i \in DOMAIN messages |-> Requests(messages[i])]
<1>1. Len(messages) \in Nat /\ DOMAIN messages = 1 .. Len(messages)
      OBVIOUS
<1>2. seqs \in [1 .. Len(messages) -> Seq(Request)]
      BY <1>1, RequestsOfFrame
<1>3. seqs \in Seq(Seq(Request)) /\ Len(seqs) = Len(messages)
      BY <1>1, <1>2, SequenceFunction
<1>4. DecodeAll(messages) = FlattenSeq(seqs)
      BY DEF DecodeAll, Requests
<1> HIDE DEF seqs
<1>5. /\ FlattenSeq(seqs) \in Seq(Request)
      /\ \E from : Gathers(from, FlattenSeq(seqs), seqs, Len(seqs))
      BY <1>3, FlattenSeqGathers
<1> QED
      BY <1>3, <1>4, <1>5 DEF seqs

-----------------------------------------------------------------------------
(* Types.                                                                  *)

\* The sink of an executor is one of a definer.
LEMMA SinkOfType ==
    ASSUME NEW e \in Executors
    PROVE  SinkOf(e) \in Definers
  BY StoreAssumption DEF SinkOf, Definers

\* The task lists of a definer: one for each executor in the order, of requests.
LEMMA TaskListsType ==
    ASSUME NEW requests \in Seq(Request), NEW assigned \in [DOMAIN requests -> Executors],
           NEW order \in SetToSeqs(Range(assigned))
    PROVE  /\ TaskLists(requests, assigned, order) \in Seq(TaskList)
           /\ DOMAIN TaskLists(requests, assigned, order) = DOMAIN order
           /\ \A i \in DOMAIN order :
                 /\ TaskLists(requests, assigned, order)[i].executor = order[i]
                 /\ TaskLists(requests, assigned, order)[i].tasks =
                       Bucket(requests, assigned, order[i])
           /\ \A i, k \in DOMAIN order : order[i] = order[k] => i = k
<1> DEFINE R == Range(assigned)
           c == Cardinality(R)
           lists == TaskLists(requests, assigned, order)
<1>1. R \subseteq Executors
      BY DEF Range
<1>2. c \in Nat
  <2>1. IsFiniteSet(Executors)
        BY StoreAssumption, FS_Interval
  <2>2. IsFiniteSet(R)
        BY <1>1, <2>1, FS_Subset
  <2> QED
        BY <2>2, FS_CardinalityType
<1>3. /\ order \in [1 .. c -> R]
      /\ \A i, k \in 1 .. c : order[i] = order[k] => i = k
      BY DEF SetToSeqs
<1> HIDE DEF R, c
<1>4. \A i \in 1 .. c : /\ order[i] \in Executors
                        /\ Bucket(requests, assigned, order[i]) \in Seq(Request)
      BY <1>1, <1>3, BucketGathers
<1>5. lists = [i \in 1 .. c |-> [executor |-> order[i],
                                tasks |-> Bucket(requests, assigned, order[i])]]
      BY <1>3 DEF TaskLists
<1>6. \A i \in 1 .. c : /\ lists[i] \in TaskList
                        /\ lists[i].executor = order[i]
                        /\ lists[i].tasks = Bucket(requests, assigned, order[i])
      BY <1>4, <1>5 DEF TaskList
<1>7. lists \in [1 .. c -> TaskList]
      BY <1>5, <1>6
<1> HIDE DEF lists
<1>8. lists \in Seq(TaskList)
      BY <1>2, <1>7, SequenceFunction
<1> QED
      BY <1>3, <1>6, <1>7, <1>8 DEF lists

\* The first k elements of a sequence, and the others.
LEMMA Split ==
    ASSUME NEW S, NEW s \in Seq(S), NEW k \in 0 .. Len(s)
    PROVE  /\ SubSeq(s, 1, k) \in Seq(S) /\ DOMAIN SubSeq(s, 1, k) = 1 .. k
           /\ \A i \in 1 .. k : SubSeq(s, 1, k)[i] = s[i]
           /\ SubSeq(s, k + 1, Len(s)) \in Seq(S)
           /\ DOMAIN SubSeq(s, k + 1, Len(s)) = 1 .. Len(s) - k
           /\ \A i \in 1 .. Len(s) - k : SubSeq(s, k + 1, Len(s))[i] = s[k + i]
<1>1. k \in Nat /\ Len(s) \in Nat /\ k <= Len(s)
      OBVIOUS
<1>2. \A i \in 1 .. Len(s) : s[i] \in S
      OBVIOUS
<1>3. (\A i \in 1 .. k : s[i] \in S) /\ (\A i \in k + 1 .. Len(s) : s[i] \in S)
      BY <1>1, <1>2
<1>4. /\ SubSeq(s, 1, k) \in Seq(S)
      /\ Len(SubSeq(s, 1, k)) = k
      /\ \A i \in 1 .. k : SubSeq(s, 1, k)[i] = s[i]
      BY <1>1, <1>3, SubSeqProperties
<1>5. /\ SubSeq(s, k + 1, Len(s)) \in Seq(S)
      /\ Len(SubSeq(s, k + 1, Len(s))) = Len(s) - k
      /\ \A i \in 1 .. Len(s) - k : SubSeq(s, k + 1, Len(s))[i] = s[k + i]
      BY <1>1, <1>3, SubSeqProperties
<1>6. \A t \in Seq(S) : DOMAIN t = 1 .. Len(t)
      OBVIOUS
<1> QED
      BY <1>4, <1>5, <1>6

\* What an executor takes out of the pipes, and what it leaves.
Drained(e, share) ==
    [n \in 1 .. NoDefinerThread |-> SubSeq(pipe[n - 1][e], 1, share[n - 1])]

LEMMA DrainedType ==
    ASSUME StoreTypeInv, NEW e \in Executors, NEW share \in Shares(e)
    PROVE  /\ Drained(e, share) \in Seq(Seq(Seq(Request)))
           /\ Len(Drained(e, share)) = NoDefinerThread
           /\ \A d \in Definers :
                 /\ share[d] \in 0 .. Len(pipe[d][e])
                 /\ Len(pipe[d][e]) \in Nat /\ DOMAIN pipe[d][e] = 1 .. Len(pipe[d][e])
                 /\ DOMAIN Drained(e, share)[d + 1] = 1 .. share[d]
                 /\ \A i \in 1 .. share[d] : Drained(e, share)[d + 1][i] = pipe[d][e][i]
<1>1. ASSUME NEW d \in Definers
      PROVE  /\ pipe[d][e] \in Seq(Seq(Request)) /\ share[d] \in 0 .. Len(pipe[d][e])
             /\ Len(pipe[d][e]) \in Nat /\ DOMAIN pipe[d][e] = 1 .. Len(pipe[d][e])
             /\ SubSeq(pipe[d][e], 1, share[d]) \in Seq(Seq(Request))
             /\ DOMAIN SubSeq(pipe[d][e], 1, share[d]) = 1 .. share[d]
             /\ \A i \in 1 .. share[d] : SubSeq(pipe[d][e], 1, share[d])[i] = pipe[d][e][i]
  <2>1. pipe[d][e] \in Seq(Seq(Request))
        BY DEF StoreTypeInv
  <2>2. Len(pipe[d][e]) \in Nat /\ DOMAIN pipe[d][e] = 1 .. Len(pipe[d][e])
        BY <2>1
  <2>3. share[d] \in 0 .. ReadLimit /\ share[d] <= Len(pipe[d][e])
        BY DEF Shares
  <2>4. share[d] \in 0 .. Len(pipe[d][e]) /\ share[d] \in Nat
        BY <2>2, <2>3, StoreAssumption
  <2> QED
        BY <2>1, <2>2, <2>4, Split
<1>2. \A n \in 1 .. NoDefinerThread : n - 1 \in Definers
      BY StoreAssumption DEF Definers
<1>3. Drained(e, share) \in [1 .. NoDefinerThread -> Seq(Seq(Request))]
      BY <1>1, <1>2 DEF Drained
<1>4. /\ Drained(e, share) \in Seq(Seq(Seq(Request)))
      /\ Len(Drained(e, share)) = NoDefinerThread
      BY <1>3, StoreAssumption, SequenceFunction
<1>5. \A d \in Definers : d + 1 \in 1 .. NoDefinerThread /\ (d + 1) - 1 = d
      BY StoreAssumption DEF Definers
<1>6. \A d \in Definers : Drained(e, share)[d + 1] = SubSeq(pipe[d][e], 1, share[d])
      BY <1>5 DEF Drained
<1> QED
      BY <1>1, <1>4, <1>6

\* A step of Serve sends nothing, or one reply to an operation that has none yet, of
\* a request that has operations.
LEMMA ServeStep ==
    ASSUME NEW e \in Executors, Serve(e)
    PROVE  /\ UNCHANGED <<busy, batch>> /\ busy[e]
           /\ \/ UNCHANGED sent
              \/ \E slot \in Slots(e) : \E i, status, results :
                    /\ ~Answered(e, slot, i) /\ OpsOf(e, slot) # <<>>
                    /\ sent' = [sent EXCEPT ![e] =
                                  Append(@, Reply(slot, i, status, results))]
<1>1. PICK slot \in Slots(e) :
          \/ \E i \in IndexesOf(OpsOf(e, slot), DefinitionType) : Define(e, slot, i)
          \/ Transactional(e, slot) # {}
             /\ (Commit(e, slot) \/ Confirm(e, slot) \/ Refuse(e, slot))
      BY DEF Serve
<1>2. ASSUME DOMAIN OpsOf(e, slot) # {}
      PROVE  OpsOf(e, slot) # <<>>
      BY <1>2
<1>3. ASSUME NEW i \in IndexesOf(OpsOf(e, slot), DefinitionType), Define(e, slot, i)
      PROVE  /\ UNCHANGED <<busy, batch>> /\ busy[e]
             /\ ~Answered(e, slot, i) /\ OpsOf(e, slot) # <<>>
             /\ \E status, results :
                   sent' = [sent EXCEPT ![e] = Append(@, Reply(slot, i, status, results))]
      BY <1>2, <1>3 DEF Define, ReplyWith, IndexesOf
<1>4. ASSUME Transactional(e, slot) # {}
      PROVE  OpsOf(e, slot) # <<>>
      BY <1>2, <1>4 DEF Transactional
<1>5. CASE Transactional(e, slot) # {} /\ Commit(e, slot)
      BY <1>5 DEF Commit
<1>6. CASE Transactional(e, slot) # {} /\ Confirm(e, slot)
      BY <1>4, <1>6 DEF Confirm, ReplyWith
<1>7. CASE Transactional(e, slot) # {} /\ Refuse(e, slot)
      BY <1>4, <1>7 DEF Refuse, ReplyWith
<1> QED
      BY <1>1, <1>3, <1>5, <1>6, <1>7

\* The initial state has the types.
LEMMA TypeInit == StoreInit => StoreTypeInv
  BY EmptySequence DEF StoreInit, ServiceInit, StoreTypeInv

LEMMA TypeOfClientSends ==
    ASSUME StoreTypeInv, NEW message \in unsent, NEW d \in Definers,
           ClientSends(message, d)
    PROVE  StoreTypeInv'
<1>1. message \in Traffic /\ inbox[d] \in Seq(Traffic)
      BY DEF StoreTypeInv
<1>2. Append(inbox[d], message) \in Seq(Traffic)
      BY <1>1
<1> QED
      BY <1>2 DEF ClientSends, serviceVars, StoreTypeInv

LEMMA TypeOfReceiveRequests ==
    ASSUME StoreTypeInv, NEW d \in Definers, ReceiveRequests(d)
    PROVE  StoreTypeInv'
<1> DEFINE requests == DecodeAll(inbox[d])
<1>1. requests \in Seq(Request)
      BY DecodeAllGathers DEF StoreTypeInv
<1>2. PICK assigned \in [DOMAIN requests -> Executors] :
        \E order \in SetToSeqs(Range(assigned)) :
          outbox' = [outbox EXCEPT ![d] = TaskLists(requests, assigned, order)]
      BY DEF ReceiveRequests
<1> HIDE DEF requests
<1>3. PICK order \in SetToSeqs(Range(assigned)) :
          outbox' = [outbox EXCEPT ![d] = TaskLists(requests, assigned, order)]
      BY <1>2
<1>4. TaskLists(requests, assigned, order) \in Seq(TaskList)
      BY <1>1, TaskListsType
<1>5. outbox' \in [Definers -> Seq(TaskList)]
      BY <1>3, <1>4 DEF StoreTypeInv
<1>6. <<>> \in Seq(Traffic)
      OBVIOUS
<1> QED
      BY <1>5, <1>6 DEF ReceiveRequests, serviceVars, StoreTypeInv

\* The first element of a sequence, and the others.
LEMMA HeadTail ==
    ASSUME NEW S, NEW s \in Seq(S), s # <<>>
    PROVE  /\ Len(s) \in Nat \ {0} /\ Head(s) = s[1] /\ s[1] \in S
           /\ Tail(s) \in Seq(S) /\ DOMAIN Tail(s) = 1 .. Len(s) - 1
           /\ \A i \in 1 .. Len(s) - 1 : Tail(s)[i] = s[i + 1]
  OBVIOUS

\* sendTaskToExecutor moves the first task list from the outbox to the end of a pipe.
LEMMA SendStep ==
    ASSUME StoreTypeInv, NEW d \in Definers, SendTaskToExecutor(d)
    PROVE  LET e == outbox[d][1].executor
           IN  /\ e \in Executors /\ Len(outbox[d]) \in Nat \ {0}
               /\ outbox[d][1].tasks \in Seq(Request)
               /\ pipe' = [pipe EXCEPT ![d][e] = Append(@, outbox[d][1].tasks)]
               /\ outbox' = [outbox EXCEPT ![d] = Tail(@)]
               /\ UNCHANGED <<unsent, inbox, definer, sink, delivered, serviceVars>>
<1>1. outbox[d] \in Seq(TaskList) /\ outbox[d] # <<>>
      BY DEF StoreTypeInv, SendTaskToExecutor
<1>2. /\ Head(outbox[d]) = outbox[d][1] /\ Len(outbox[d]) \in Nat \ {0}
      /\ outbox[d][1] \in TaskList
      BY <1>1, HeadTail
<1>3. outbox[d][1].executor \in Executors /\ outbox[d][1].tasks \in Seq(Request)
      BY <1>2 DEF TaskList
<1> QED
      BY <1>2, <1>3 DEF SendTaskToExecutor

LEMMA TypeOfSend ==
    ASSUME StoreTypeInv, NEW d \in Definers, SendTaskToExecutor(d)
    PROVE  StoreTypeInv'
<1> DEFINE e == outbox[d][1].executor
           tasks == outbox[d][1].tasks
<1>1. /\ e \in Executors /\ tasks \in Seq(Request)
      /\ pipe' = [pipe EXCEPT ![d][e] = Append(@, tasks)]
      /\ outbox' = [outbox EXCEPT ![d] = Tail(@)]
      /\ UNCHANGED <<unsent, inbox, definer, sink, delivered, serviceVars>>
      BY SendStep
<1> HIDE DEF e, tasks
<1>2. Tail(outbox[d]) \in Seq(TaskList)
      BY HeadTail DEF StoreTypeInv, SendTaskToExecutor
<1>3. Append(pipe[d][e], tasks) \in Seq(Seq(Request))
      BY <1>1 DEF StoreTypeInv
<1>4. outbox' \in [Definers -> Seq(TaskList)]
      BY <1>1, <1>2 DEF StoreTypeInv
<1>5. pipe' \in [Definers -> [Executors -> Seq(Seq(Request))]]
      BY <1>1, <1>3 DEF StoreTypeInv
<1> QED
      BY <1>1, <1>4, <1>5 DEF serviceVars, StoreTypeInv

LEMMA TypeOfSinkSteps ==
    ASSUME StoreTypeInv, NEW d \in Definers, TurnToSink(d) \/ ForwardReplies(d)
    PROVE  StoreTypeInv'
<1>1. CASE TurnToSink(d)
      BY <1>1 DEF TurnToSink, serviceVars, StoreTypeInv
<1>2. CASE ForwardReplies(d)
      BY <1>2, EmptySequence DEF ForwardReplies, serviceVars, StoreTypeInv
<1> QED
      BY <1>1, <1>2

\* The batch is what was taken out of the pipes, which keep the rest.
LEMMA ReceiveStep ==
    ASSUME StoreTypeInv, NEW e \in Executors, ReceiveTasks(e)
    PROVE  \E share \in Shares(e) :
              /\ ~busy[e] /\ busy' = [busy EXCEPT ![e] = TRUE]
              /\ batch' = [batch EXCEPT ![e] = FlattenSeq(Drained(e, share))]
              /\ pipe' = [d \in Definers |-> [pipe[d] EXCEPT
                            ![e] = SubSeq(@, share[d] + 1, Len(@))]]
              /\ UNCHANGED <<unsent, inbox, definer, outbox, sink, delivered, sent>>
  BY DEF ReceiveTasks, Accept, Drained, definerVars

LEMMA TypeOfReceiveTasks ==
    ASSUME StoreTypeInv, NEW e \in Executors, ReceiveTasks(e)
    PROVE  StoreTypeInv'
<1>1. PICK share \in Shares(e) :
          /\ ~busy[e] /\ busy' = [busy EXCEPT ![e] = TRUE]
          /\ batch' = [batch EXCEPT ![e] = FlattenSeq(Drained(e, share))]
          /\ pipe' = [d \in Definers |-> [pipe[d] EXCEPT
                        ![e] = SubSeq(@, share[d] + 1, Len(@))]]
          /\ UNCHANGED <<unsent, inbox, definer, outbox, sink, delivered, sent>>
      BY ReceiveStep
<1>2. FlattenSeq(Drained(e, share)) \in Seq(Seq(Request))
      BY DrainedType, FlattenSeqGathers
<1>3. ASSUME NEW d \in Definers
      PROVE  SubSeq(pipe[d][e], share[d] + 1, Len(pipe[d][e])) \in Seq(Seq(Request))
  <2>1. pipe[d][e] \in Seq(Seq(Request))
        BY DEF StoreTypeInv
  <2>2. share[d] \in 0 .. Len(pipe[d][e])
        BY DrainedType
  <2> QED
        BY <2>1, <2>2, Split
<1>4. pipe' \in [Definers -> [Executors -> Seq(Seq(Request))]]
      BY <1>1, <1>3 DEF StoreTypeInv
<1>5. batch' \in [Executors -> Seq(Seq(Request))]
      BY <1>1, <1>2 DEF StoreTypeInv
<1> QED
      BY <1>1, <1>4, <1>5 DEF StoreTypeInv

LEMMA TypeOfExecute ==
    ASSUME StoreTypeInv, NEW e \in Executors, ExecuteMessages(e)
    PROVE  StoreTypeInv'
<1>1. /\ UNCHANGED <<busy, batch>> /\ busy[e]
      /\ UNCHANGED <<unsent, inbox, definer, outbox, pipe>>
      BY ServeStep DEF ExecuteMessages, definerVars
<1>2. DOMAIN sent' = Executors /\ \A f \in Executors : IsSequence(sent[f])'
  <2>1. CASE UNCHANGED sent
        BY <2>1 DEF StoreTypeInv
  <2>2. CASE \E reply : sent' = [sent EXCEPT ![e] = Append(@, reply)]
        BY <2>2, AppendSequence DEF StoreTypeInv
  <2> QED
        BY <2>1, <2>2, ServeStep DEF ExecuteMessages
<1>3. DOMAIN sink' = Definers /\ \A d \in Definers : IsSequence(sink[d])'
  <2>1. CASE sent' = sent
        BY <2>1 DEF ExecuteMessages, StoreTypeInv
  <2>2. CASE sent' # sent
    <3>1. PICK reply : sink' = [sink EXCEPT ![SinkOf(e)] = Append(@, reply)]
          BY <2>2 DEF ExecuteMessages
    <3> QED
          BY <3>1, AppendSequence, SinkOfType DEF StoreTypeInv
  <2> QED
        BY <2>1, <2>2
<1>4. \A f \in Executors : ~busy[f] => sent'[f] = sent[f]
      BY <1>1, ServeStep DEF ExecuteMessages, StoreTypeInv
<1> QED
      BY <1>1, <1>2, <1>3, <1>4 DEF StoreTypeInv

LEMMA TypeOfReturn ==
    ASSUME StoreTypeInv, NEW e \in Executors, ExecuteReturns(e)
    PROVE  StoreTypeInv'
<1>1. /\ busy' = [busy EXCEPT ![e] = FALSE]
      /\ batch' = [batch EXCEPT ![e] = <<>>]
      /\ sent' = [sent EXCEPT ![e] = <<>>]
      /\ UNCHANGED <<unsent, inbox, definer, outbox, pipe, sink, delivered>>
      BY DEF ExecuteReturns, Finish, definerVars
<1>2. <<>> \in Seq(Seq(Request))
      OBVIOUS
<1>3. batch' \in [Executors -> Seq(Seq(Request))]
      BY <1>1, <1>2 DEF StoreTypeInv
<1>4. DOMAIN sent' = Executors /\ \A f \in Executors : IsSequence(sent[f])'
      BY <1>1, EmptySequence DEF StoreTypeInv
<1> QED
      BY <1>1, <1>3, <1>4 DEF StoreTypeInv

\* Every step keeps the types.
LEMMA TypeStep ==
    ASSUME StoreTypeInv, [StoreNext]_storeVars
    PROVE  StoreTypeInv'
<1>1. ASSUME UNCHANGED storeVars
      PROVE  StoreTypeInv'
      BY <1>1 DEF storeVars, definerVars, serviceVars, StoreTypeInv
<1> QED
      BY <1>1, TypeOfClientSends, TypeOfReceiveRequests, TypeOfSend, TypeOfSinkSteps,
         TypeOfReceiveTasks, TypeOfExecute, TypeOfReturn
      DEF StoreNext, DefinerStep, ExecutorStep

-----------------------------------------------------------------------------
(* Places.                                                                 *)

PlaceForm(p) ==
    \/ \E m \in unsent : \E n \in DOMAIN Requests(m) : p = <<"client", m, n>>
    \/ \E d \in Definers : \E i \in DOMAIN inbox[d] :
          \E n \in DOMAIN Requests(inbox[d][i]) : p = <<"inbox", d, i, n>>
    \/ \E d \in Definers : \E i \in DOMAIN outbox[d] :
          \E n \in DOMAIN outbox[d][i].tasks : p = <<"outbox", d, i, n>>
    \/ \E d \in Definers, e \in Executors : \E i \in DOMAIN pipe[d][e] :
          \E n \in DOMAIN pipe[d][e][i] : p = <<"pipe", d, e, i, n>>
    \/ \E e \in Executors : \E i \in DOMAIN batch[e] :
          \E n \in DOMAIN batch[e][i] : p = <<"batch", e, i, n>>

\* Every place has one of the five forms, before a step and after it.
LEMMA PlaceForms ==
    ASSUME NEW p
    PROVE  (p \in Places <=> PlaceForm(p)) /\ (p \in Places' <=> PlaceForm(p)')
<1>1. /\ p \in AtClients <=>
            \E m \in unsent : \E n \in DOMAIN Requests(m) : p = <<"client", m, n>>
      /\ p \in AtClients' <=>
            \E m \in unsent' : \E n \in DOMAIN Requests(m) : p = <<"client", m, n>>
      BY DEF AtClients
<1>2. ASSUME NEW d \in Definers
      PROVE  /\ p \in InInbox(d) <=> \E i \in DOMAIN inbox[d] :
                   \E n \in DOMAIN Requests(inbox[d][i]) : p = <<"inbox", d, i, n>>
             /\ p \in InInbox(d)' <=> \E i \in DOMAIN inbox'[d] :
                   \E n \in DOMAIN Requests(inbox'[d][i]) : p = <<"inbox", d, i, n>>
      BY DEF InInbox
<1>3. ASSUME NEW d \in Definers
      PROVE  /\ p \in InOutbox(d) <=> \E i \in DOMAIN outbox[d] :
                   \E n \in DOMAIN outbox[d][i].tasks : p = <<"outbox", d, i, n>>
             /\ p \in InOutbox(d)' <=> \E i \in DOMAIN outbox'[d] :
                   \E n \in DOMAIN outbox'[d][i].tasks : p = <<"outbox", d, i, n>>
      BY DEF InOutbox
<1>4. ASSUME NEW d \in Definers, NEW e \in Executors
      PROVE  /\ p \in InPipe(d, e) <=> \E i \in DOMAIN pipe[d][e] :
                   \E n \in DOMAIN pipe[d][e][i] : p = <<"pipe", d, e, i, n>>
             /\ p \in InPipe(d, e)' <=> \E i \in DOMAIN pipe'[d][e] :
                   \E n \in DOMAIN pipe'[d][e][i] : p = <<"pipe", d, e, i, n>>
      BY DEF InPipe
<1>5. ASSUME NEW e \in Executors
      PROVE  /\ p \in InBatch(e) <=> \E i \in DOMAIN batch[e] :
                   \E n \in DOMAIN batch[e][i] : p = <<"batch", e, i, n>>
             /\ p \in InBatch(e)' <=> \E i \in DOMAIN batch'[e] :
                   \E n \in DOMAIN batch'[e][i] : p = <<"batch", e, i, n>>
      BY DEF InBatch
<1>6. p \in Places <=>
          \/ p \in AtClients
          \/ \E d \in Definers : p \in InInbox(d)
          \/ \E d \in Definers : p \in InOutbox(d)
          \/ \E d \in Definers, e \in Executors : p \in InPipe(d, e)
          \/ \E e \in Executors : p \in InBatch(e)
      BY DEF Places
<1>7. p \in Places' <=>
          \/ p \in AtClients'
          \/ \E d \in Definers : p \in InInbox(d)'
          \/ \E d \in Definers : p \in InOutbox(d)'
          \/ \E d \in Definers, e \in Executors : p \in InPipe(d, e)'
          \/ \E e \in Executors : p \in InBatch(e)'
      BY DEF Places
<1>8. p \in Places <=> PlaceForm(p)
      BY <1>1, <1>2, <1>3, <1>4, <1>5, <1>6, Zenon DEF PlaceForm
<1>9. p \in Places' <=> PlaceForm(p)'
      BY <1>1, <1>2, <1>3, <1>4, <1>5, <1>7, Zenon DEF PlaceForm
<1> QED
      BY <1>8, <1>9

\* The request at a place of each form.
LEMMA RequestAtForms ==
    /\ \A m, n : /\ RequestAt(<<"client", m, n>>) = Requests(m)[n]
                 /\ RequestAt(<<"client", m, n>>)' = Requests(m)[n]
    /\ \A d, i, n : /\ RequestAt(<<"inbox", d, i, n>>) = Requests(inbox[d][i])[n]
                    /\ RequestAt(<<"inbox", d, i, n>>)' = Requests(inbox'[d][i])[n]
    /\ \A d, i, n : /\ RequestAt(<<"outbox", d, i, n>>) = outbox[d][i].tasks[n]
                    /\ RequestAt(<<"outbox", d, i, n>>)' = outbox'[d][i].tasks[n]
    /\ \A d, e, i, n : /\ RequestAt(<<"pipe", d, e, i, n>>) = pipe[d][e][i][n]
                       /\ RequestAt(<<"pipe", d, e, i, n>>)' = pipe'[d][e][i][n]
    /\ \A e, i, n : /\ RequestAt(<<"batch", e, i, n>>) = batch[e][i][n]
                    /\ RequestAt(<<"batch", e, i, n>>)' = batch'[e][i][n]
<1>1. \A m, n : /\ RequestAt(<<"client", m, n>>) = Requests(m)[n]
                /\ RequestAt(<<"client", m, n>>)' = Requests(m)[n]
      BY DEF RequestAt
<1>2. \A d, i, n : /\ RequestAt(<<"inbox", d, i, n>>) = Requests(inbox[d][i])[n]
                   /\ RequestAt(<<"inbox", d, i, n>>)' = Requests(inbox'[d][i])[n]
      BY DEF RequestAt
<1>3. \A d, i, n : /\ RequestAt(<<"outbox", d, i, n>>) = outbox[d][i].tasks[n]
                   /\ RequestAt(<<"outbox", d, i, n>>)' = outbox'[d][i].tasks[n]
      BY DEF RequestAt
<1>4. \A d, e, i, n : /\ RequestAt(<<"pipe", d, e, i, n>>) = pipe[d][e][i][n]
                      /\ RequestAt(<<"pipe", d, e, i, n>>)' = pipe'[d][e][i][n]
      BY DEF RequestAt
<1>5. \A e, i, n : /\ RequestAt(<<"batch", e, i, n>>) = batch[e][i][n]
                   /\ RequestAt(<<"batch", e, i, n>>)' = batch'[e][i][n]
      BY DEF RequestAt
<1> QED
      BY <1>1, <1>2, <1>3, <1>4, <1>5

\* The part of the state a place is in has not changed.
Unmoved(p) ==
    \/ p[1] = "client" /\ unsent' \subseteq unsent
    \/ p[1] = "inbox" /\ inbox'[p[2]] = inbox[p[2]]
    \/ p[1] = "outbox" /\ outbox'[p[2]] = outbox[p[2]]
    \/ p[1] = "pipe" /\ pipe'[p[2]][p[3]] = pipe[p[2]][p[3]]
    \/ p[1] = "batch" /\ batch'[p[2]] = batch[p[2]]

LEMMA UnmovedPlaces ==
    ASSUME NEW p \in Places', Unmoved(p)
    PROVE  p \in Places /\ RequestAt(p) = RequestAt(p)'
<1>1. PlaceForm(p)'
      BY PlaceForms
<1>2. CASE \E m \in unsent' : \E n \in DOMAIN Requests(m) : p = <<"client", m, n>>
  <2>1. PICK m \in unsent' : \E n \in DOMAIN Requests(m) : p = <<"client", m, n>>
        BY <1>2
  <2>2. PICK n \in DOMAIN Requests(m) : p = <<"client", m, n>>
        BY <2>1
  <2>3. m \in unsent
        BY <2>2 DEF Unmoved
  <2> QED
        BY <2>2, <2>3, PlaceForms, RequestAtForms DEF PlaceForm
<1>3. CASE \E d \in Definers : \E i \in DOMAIN inbox'[d] :
               \E n \in DOMAIN Requests(inbox'[d][i]) : p = <<"inbox", d, i, n>>
  <2>1. PICK d \in Definers : \E i \in DOMAIN inbox'[d] :
               \E n \in DOMAIN Requests(inbox'[d][i]) : p = <<"inbox", d, i, n>>
        BY <1>3
  <2>2. PICK i \in DOMAIN inbox'[d] :
               \E n \in DOMAIN Requests(inbox'[d][i]) : p = <<"inbox", d, i, n>>
        BY <2>1
  <2>3. PICK n \in DOMAIN Requests(inbox'[d][i]) : p = <<"inbox", d, i, n>>
        BY <2>2
  <2>4. inbox'[d] = inbox[d]
        BY <2>3 DEF Unmoved
  <2> QED
        BY <2>3, <2>4, PlaceForms, RequestAtForms DEF PlaceForm
<1>4. CASE \E d \in Definers : \E i \in DOMAIN outbox'[d] :
               \E n \in DOMAIN outbox'[d][i].tasks : p = <<"outbox", d, i, n>>
  <2>1. PICK d \in Definers : \E i \in DOMAIN outbox'[d] :
               \E n \in DOMAIN outbox'[d][i].tasks : p = <<"outbox", d, i, n>>
        BY <1>4
  <2>2. PICK i \in DOMAIN outbox'[d] :
               \E n \in DOMAIN outbox'[d][i].tasks : p = <<"outbox", d, i, n>>
        BY <2>1
  <2>3. PICK n \in DOMAIN outbox'[d][i].tasks : p = <<"outbox", d, i, n>>
        BY <2>2
  <2>4. outbox'[d] = outbox[d]
        BY <2>3 DEF Unmoved
  <2> QED
        BY <2>3, <2>4, PlaceForms, RequestAtForms DEF PlaceForm
<1>5. CASE \E d \in Definers, e \in Executors : \E i \in DOMAIN pipe'[d][e] :
               \E n \in DOMAIN pipe'[d][e][i] : p = <<"pipe", d, e, i, n>>
  <2>1. PICK d \in Definers, e \in Executors : \E i \in DOMAIN pipe'[d][e] :
               \E n \in DOMAIN pipe'[d][e][i] : p = <<"pipe", d, e, i, n>>
        BY <1>5
  <2>2. PICK i \in DOMAIN pipe'[d][e] :
               \E n \in DOMAIN pipe'[d][e][i] : p = <<"pipe", d, e, i, n>>
        BY <2>1
  <2>3. PICK n \in DOMAIN pipe'[d][e][i] : p = <<"pipe", d, e, i, n>>
        BY <2>2
  <2>4. pipe'[d][e] = pipe[d][e]
        BY <2>3 DEF Unmoved
  <2> QED
        BY <2>3, <2>4, PlaceForms, RequestAtForms DEF PlaceForm
<1>6. CASE \E e \in Executors : \E i \in DOMAIN batch'[e] :
               \E n \in DOMAIN batch'[e][i] : p = <<"batch", e, i, n>>
  <2>1. PICK e \in Executors : \E i \in DOMAIN batch'[e] :
               \E n \in DOMAIN batch'[e][i] : p = <<"batch", e, i, n>>
        BY <1>6
  <2>2. PICK i \in DOMAIN batch'[e] :
               \E n \in DOMAIN batch'[e][i] : p = <<"batch", e, i, n>>
        BY <2>1
  <2>3. PICK n \in DOMAIN batch'[e][i] : p = <<"batch", e, i, n>>
        BY <2>2
  <2>4. batch'[e] = batch[e]
        BY <2>3 DEF Unmoved
  <2> QED
        BY <2>3, <2>4, PlaceForms, RequestAtForms DEF PlaceForm
<1> QED
      BY <1>1, <1>2, <1>3, <1>4, <1>5, <1>6 DEF PlaceForm

\* A step moves requests: what is at a place after it was at the place from[p] before
\* it, no two of them at the same one; nothing comes out of a batch, and what comes
\* from a client has been sent.
Moves(from) ==
    /\ \A p \in Places' : from[p] \in Places /\ RequestAt(from[p]) = RequestAt(p)'
    /\ \A p, q \in Places' : from[p] = from[q] => p = q
    /\ \A p \in Places' :
          from[p][1] = "client" => p[1] = "client" \/ from[p][2] \notin unsent'
    /\ \A p \in Places' : from[p][1] = "batch" => from[p] = p

LEMMA OnePlaceMoves ==
    ASSUME NEW from, Moves(from), OnePlace
    PROVE  OnePlace'
<1> SUFFICES ASSUME NEW p \in Places', NEW q \in Places',
                    RequestAt(p)'.ops # <<>>, RequestAt(q)'.ops # <<>>,
                    RequestAt(p)'.identity = RequestAt(q)'.identity,
                    RequestAt(p)'.id = RequestAt(q)'.id
             PROVE  p = q
    BY DEF OnePlace
<1>1. from[p] \in Places /\ from[q] \in Places
      BY DEF Moves
<1>2. RequestAt(from[p]) = RequestAt(p)' /\ RequestAt(from[q]) = RequestAt(q)'
      BY DEF Moves
<1>3. from[p] = from[q]
      BY <1>1, <1>2 DEF OnePlace
<1> QED
      BY <1>3 DEF Moves

LEMMA GenuineMoves ==
    ASSUME NEW from, Moves(from), StoreTypeInv, unsent' \subseteq unsent, GenuineRequests
    PROVE  GenuineRequests'
<1> SUFFICES ASSUME NEW p \in Places', p[1] # "client", RequestAt(p)'.ops # <<>>
             PROVE  HasSent(RequestAt(p).identity, RequestAt(p).id)'
    BY DEF GenuineRequests
<1> DEFINE o == from[p]
<1>1. /\ o \in Places /\ RequestAt(o) = RequestAt(p)'
      /\ o[1] = "client" => o[2] \notin unsent'
      BY DEF Moves
<1>2. CASE o[1] # "client"
  <2>1. HasSent(RequestAt(o).identity, RequestAt(o).id)
        BY <1>1, <1>2 DEF GenuineRequests
  <2> QED
        BY <1>1, <2>1 DEF HasSent
<1>3. CASE o[1] = "client"
  <2>1. PICK m \in unsent : \E n \in DOMAIN Requests(m) : o = <<"client", m, n>>
        BY <1>1, <1>3, PlaceForms DEF PlaceForm
  <2>2. PICK n \in DOMAIN Requests(m) : o = <<"client", m, n>>
        BY <2>1
  <2>3. RequestAt(o) = Requests(m)[n] /\ o[2] = m
        BY <2>2, RequestAtForms
  <2>4. m \in Traffic
        BY DEF StoreTypeInv
  <2>5. m.identity = RequestAt(o).identity /\ RequestAt(o).id \in IdsOf(m.frame)
        BY <1>1, <2>3, <2>4, RequestsOfFrame
  <2> QED
        BY <1>1, <1>3, <2>3, <2>4, <2>5 DEF HasSent
<1> QED
      BY <1>2, <1>3

LEMMA RepliedMoves ==
    ASSUME NEW from, Moves(from), RepliedFromBatch, Outgoing' \subseteq Outgoing,
           \A e \in Executors : \A i \in DOMAIN batch'[e] : \A n, k :
              Answered(e, <<i, n>>, k) => Answered(e, <<i, n>>, k)'
    PROVE  RepliedFromBatch'
<1> SUFFICES ASSUME NEW r \in Outgoing', NEW p \in Places', RequestAt(p)'.ops # <<>>,
                    RequestAt(p)'.identity = r.to, RequestAt(p)'.id = r.id
             PROVE  p[1] = "batch" /\ Answered(p[2], <<p[3], p[4]>>, r.op)'
    BY DEF RepliedFromBatch
<1>1. /\ from[p] \in Places /\ RequestAt(from[p]) = RequestAt(p)'
      /\ from[p][1] = "batch" => from[p] = p
      BY DEF Moves
<1>2. /\ from[p][1] = "batch"
      /\ Answered(from[p][2], <<from[p][3], from[p][4]>>, r.op)
      BY <1>1 DEF RepliedFromBatch
<1>3. p[1] = "batch" /\ Answered(p[2], <<p[3], p[4]>>, r.op)
      BY <1>1, <1>2
<1>4. p[2] \in Executors /\ p[3] \in DOMAIN batch'[p[2]]
      BY <1>3, PlaceForms DEF PlaceForm
<1> QED
      BY <1>3, <1>4

\* The form of a place of each kind.
LEMMA PlaceOfKind ==
    ASSUME NEW p \in Places'
    PROVE  /\ p[1] = "client" => \E m \in unsent' : \E n \in DOMAIN Requests(m) :
                 p = <<"client", m, n>>
           /\ p[1] = "inbox" => \E d \in Definers : \E i \in DOMAIN inbox'[d] :
                 \E n \in DOMAIN Requests(inbox'[d][i]) : p = <<"inbox", d, i, n>>
           /\ p[1] = "outbox" => \E d \in Definers : \E i \in DOMAIN outbox'[d] :
                 \E n \in DOMAIN outbox'[d][i].tasks : p = <<"outbox", d, i, n>>
           /\ p[1] = "pipe" => \E d \in Definers, e \in Executors :
                 \E i \in DOMAIN pipe'[d][e] : \E n \in DOMAIN pipe'[d][e][i] :
                     p = <<"pipe", d, e, i, n>>
           /\ p[1] = "batch" => \E e \in Executors : \E i \in DOMAIN batch'[e] :
                 \E n \in DOMAIN batch'[e][i] : p = <<"batch", e, i, n>>
           /\ p[1] \in {"client", "inbox", "outbox", "pipe", "batch"}
  BY PlaceForms DEF PlaceForm

\* Where nothing moves, everything stays where it is or is dropped.
LEMMA StayMoves ==
    ASSUME \A p \in Places' : Unmoved(p)
    PROVE  \E from : Moves(from)
<1> DEFINE from == [p \in Places' |-> p]
<1>1. \A p \in Places' : from[p] = p /\ p \in Places /\ RequestAt(p) = RequestAt(p)'
      BY UnmovedPlaces
<1> HIDE DEF from
<1>2. Moves(from)
      BY <1>1 DEF Moves
<1> QED
      BY <1>2

\* A step that moves the requests at the places N, out of places that they leave, and
\* leaves the others where they are.
LEMMA MovesSome ==
    ASSUME NEW N \in SUBSET Places', NEW from,
           \A p \in Places' \ N :
              from[p] = p /\ p \in Places /\ RequestAt(p) = RequestAt(p)',
           \A p \in N :
              /\ from[p] \in Places /\ RequestAt(from[p]) = RequestAt(p)'
              /\ from[p] \notin Places' \ N
              /\ from[p][1] # "batch"
              /\ from[p][1] = "client" => from[p][2] \notin unsent',
           \A p, q \in N : from[p] = from[q] => p = q
    PROVE  \E f : Moves(f)
<1>1. \A p \in Places' : p \in N \/ p \in Places' \ N
      OBVIOUS
<1>2. \A p \in Places' : from[p] \in Places /\ RequestAt(from[p]) = RequestAt(p)'
      BY <1>1
<1>3. \A p, q \in Places' : from[p] = from[q] => p = q
      BY <1>1
<1>4. \A p \in Places' :
          from[p][1] = "client" => p[1] = "client" \/ from[p][2] \notin unsent'
      BY <1>1
<1>5. \A p \in Places' : from[p][1] = "batch" => from[p] = p
      BY <1>1
<1> QED
      BY <1>2, <1>3, <1>4, <1>5 DEF Moves

\* ClientSends moves the requests of a message from the client to the inbox.
LEMMA ClientSendsMoves ==
    ASSUME StoreTypeInv, NEW message \in unsent, NEW d \in Definers,
           ClientSends(message, d)
    PROVE  \E from : Moves(from)
<1> DEFINE L == Len(inbox[d])
           New(p) == p[1] = "inbox" /\ p[2] = d /\ p[3] = L + 1
           from == [p \in Places' |-> IF New(p) THEN <<"client", message, p[4]>> ELSE p]
<1>1. /\ inbox[d] \in Seq(Traffic) /\ L \in Nat /\ DOMAIN inbox[d] = 1 .. L
      /\ unsent' = unsent \ {message}
      /\ UNCHANGED <<outbox, pipe, batch>>
      BY DEF StoreTypeInv, ClientSends, serviceVars
<1>2. /\ inbox'[d] = Append(inbox[d], message) /\ DOMAIN inbox'[d] = 1 .. L + 1
      /\ \A i \in 1 .. L : inbox'[d][i] = inbox[d][i]
      /\ inbox'[d][L + 1] = message
      BY <1>1 DEF StoreTypeInv, ClientSends
<1>3. \A c \in Definers \ {d} : inbox'[c] = inbox[c]
      BY DEF StoreTypeInv, ClientSends
<1> HIDE DEF L
<1>4. ASSUME NEW p \in Places', New(p)
      PROVE  /\ p = <<"inbox", d, L + 1, p[4]>>
             /\ <<"client", message, p[4]>> \in Places
             /\ RequestAt(<<"client", message, p[4]>>) = RequestAt(p)'
  <2>1. PICK n \in DOMAIN Requests(message) : p = <<"inbox", d, L + 1, n>>
        BY <1>2, <1>4, PlaceOfKind
  <2>2. <<"client", message, n>> \in Places
        BY PlaceForms DEF PlaceForm
  <2>3. p[4] = n
        BY <2>1
  <2>4. RequestAt(p)' = Requests(message)[n]
    <3>1. PICK i : i = L + 1
          OBVIOUS
    <3>2. p = <<"inbox", d, i, n>> /\ inbox'[d][i] = message
          BY <1>2, <2>1, <3>1
    <3> QED
          BY <3>2, RequestAtForms
  <2>5. RequestAt(<<"client", message, n>>) = Requests(message)[n]
        BY RequestAtForms
  <2> QED
        BY <2>1, <2>2, <2>3, <2>4, <2>5
<1>5. ASSUME NEW p \in Places', ~New(p)
      PROVE  p \in Places /\ RequestAt(p) = RequestAt(p)'
  <2>1. CASE p[1] = "inbox" /\ p[2] = d
    <3>1. PICK i \in DOMAIN inbox'[d] : \E n \in DOMAIN Requests(inbox'[d][i]) :
              p = <<"inbox", d, i, n>>
          BY <2>1, PlaceOfKind
    <3>2. PICK n \in DOMAIN Requests(inbox'[d][i]) : p = <<"inbox", d, i, n>>
          BY <3>1
    <3>3. i # L + 1
          BY <1>5, <3>2
    <3>4. i \in DOMAIN inbox[d] /\ inbox'[d][i] = inbox[d][i]
          BY <1>1, <1>2, <3>3
    <3> QED
          BY <3>2, <3>4, PlaceForms, RequestAtForms DEF PlaceForm
  <2>2. CASE ~(p[1] = "inbox" /\ p[2] = d)
    <3>1. Unmoved(p)
          BY <1>1, <1>3, <2>2, PlaceOfKind DEF Unmoved
    <3> QED
          BY <3>1, UnmovedPlaces
  <2> QED
        BY <2>1, <2>2
<1>6. \A p \in Places' :
          /\ New(p) => /\ from[p] = <<"client", message, p[4]>>
                       /\ from[p][1] = "client" /\ from[p][2] = message
          /\ ~New(p) => from[p] = p
  <2>1. \A x : /\ <<"client", message, x>>[1] = "client"
               /\ <<"client", message, x>>[2] = message
        OBVIOUS
  <2>2. \A p \in Places' : from[p] = IF New(p) THEN <<"client", message, p[4]>> ELSE p
        OBVIOUS
  <2> HIDE DEF from, New
  <2> QED
        BY <2>1, <2>2
<1>7. \A p \in Places' : p[1] = "client" => p[2] # message
      BY <1>1, PlaceOfKind
<1> HIDE DEF from, New
<1> DEFINE N == {p \in Places' : New(p)}
<1>8. \A p \in Places' \ N : from[p] = p /\ p \in Places /\ RequestAt(p) = RequestAt(p)'
      BY <1>5, <1>6
<1>9. \A p \in N : /\ from[p] \in Places /\ RequestAt(from[p]) = RequestAt(p)'
                   /\ from[p] \notin Places' \ N
                   /\ from[p][1] # "batch"
                   /\ from[p][1] = "client" => from[p][2] \notin unsent'
      BY <1>1, <1>4, <1>6, <1>7
<1>10. ASSUME NEW p \in N, NEW q \in N, from[p] = from[q]
       PROVE  p = q
  <2>1. <<"client", message, p[4]>> = <<"client", message, q[4]>>
        BY <1>6, <1>10
  <2>2. p[4] = q[4]
        BY <2>1
  <2> QED
        BY <1>4, <2>2
<1> HIDE DEF N
<1>11. N \subseteq Places'
      BY DEF N
<1> QED
      BY <1>8, <1>9, <1>10, <1>11, MovesSome

\* ReceiveRequests moves the requests of the frames received to the task lists.
LEMMA ReceiveRequestsMoves ==
    ASSUME StoreTypeInv, NEW d \in Definers, ReceiveRequests(d)
    PROVE  \E f : Moves(f)
<1> DEFINE requests == DecodeAll(inbox[d])
           seqs == [i \in DOMAIN inbox[d] |-> Requests(inbox[d][i])]
<1>1. inbox[d] \in Seq(Traffic) /\ DOMAIN inbox[d] = 1 .. Len(inbox[d])
      BY DEF StoreTypeInv
<1>2. requests \in Seq(Request)
      BY <1>1, DecodeAllGathers
<1>3. PICK place : Gathers(place, requests, seqs, Len(inbox[d]))
      BY <1>1, DecodeAllGathers
<1>4. PICK assigned \in [DOMAIN requests -> Executors] :
        \E order \in SetToSeqs(Range(assigned)) :
          outbox' = [outbox EXCEPT ![d] = TaskLists(requests, assigned, order)]
      BY DEF ReceiveRequests
<1> HIDE DEF requests
<1>5. PICK order \in SetToSeqs(Range(assigned)) :
          outbox' = [outbox EXCEPT ![d] = TaskLists(requests, assigned, order)]
      BY <1>4
<1>6. /\ inbox' = [inbox EXCEPT ![d] = <<>>]
      /\ UNCHANGED <<unsent, pipe, batch>>
      BY DEF ReceiveRequests, serviceVars
<1>7. /\ DOMAIN outbox'[d] = DOMAIN order
      /\ \A i \in DOMAIN order : outbox'[d][i].tasks = Bucket(requests, assigned, order[i])
      /\ \A i, k \in DOMAIN order : order[i] = order[k] => i = k
      /\ \A c \in Definers \ {d} : outbox'[c] = outbox[c] /\ inbox'[c] = inbox[c]
      /\ DOMAIN inbox'[d] = {}
  <2>1. /\ outbox'[d] = TaskLists(requests, assigned, order)
        /\ \A c \in Definers \ {d} : outbox'[c] = outbox[c]
        BY <1>5 DEF StoreTypeInv
  <2>2. inbox'[d] = <<>> /\ \A c \in Definers \ {d} : inbox'[c] = inbox[c]
        BY <1>6 DEF StoreTypeInv
  <2>3. /\ DOMAIN TaskLists(requests, assigned, order) = DOMAIN order
        /\ \A i \in DOMAIN order : TaskLists(requests, assigned, order)[i].tasks =
                                      Bucket(requests, assigned, order[i])
        /\ \A i, k \in DOMAIN order : order[i] = order[k] => i = k
        BY <1>2, TaskListsType
  <2> QED
        BY <2>1, <2>2, <2>3
\* The place in requests of each element of each bucket.
<1> DEFINE B(i) == DOMAIN Bucket(requests, assigned, order[i])
           M == [i \in DOMAIN order |->
                   CHOOSE mine : Deals(mine, requests, assigned, order[i])]
<1>8. ASSUME NEW i \in DOMAIN order
      PROVE  Deals(M[i], requests, assigned, order[i])
  <2>1. \E mine : Deals(mine, requests, assigned, order[i])
        BY <1>2, BucketGathers
  <2> QED
        BY <2>1, Zenon
<1> HIDE DEF M
<1>9. ASSUME NEW i \in DOMAIN order, NEW n \in B(i)
      PROVE  /\ M[i][n] \in DOMAIN requests /\ assigned[M[i][n]] = order[i]
             /\ outbox'[d][i].tasks[n] = requests[M[i][n]]
      BY <1>7, <1>8 DEF Deals
<1>10. ASSUME NEW i \in DOMAIN order, NEW n \in B(i),
              NEW j \in DOMAIN order, NEW k \in B(j), M[i][n] = M[j][k]
       PROVE  i = j /\ n = k
  <2>1. i = j
        BY <1>7, <1>9, <1>10
  <2> QED
        BY <1>8, <1>10, <2>1 DEF Deals
<1> DEFINE New(p) == p[1] = "outbox" /\ p[2] = d
           Old(k) == <<"inbox", d, place[k][1], place[k][2]>>
           from == [p \in Places' |-> IF New(p) THEN Old(M[p[3]][p[4]]) ELSE p]
           N == {p \in Places' : New(p)}
<1> HIDE DEF B
<1>11. ASSUME NEW k \in DOMAIN requests
       PROVE  /\ Old(k) \in Places /\ RequestAt(Old(k)) = requests[k]
              /\ Old(k)[1] = "inbox" /\ Old(k)[2] = d
  <2>1. PICK i, n : i = place[k][1] /\ n = place[k][2]
        OBVIOUS
  <2>2. i \in DOMAIN inbox[d] /\ n \in DOMAIN seqs[i] /\ requests[k] = seqs[i][n]
        BY <1>1, <1>3, <2>1 DEF Gathers
  <2>3. n \in DOMAIN Requests(inbox[d][i]) /\ requests[k] = Requests(inbox[d][i])[n]
        BY <2>2
  <2> HIDE DEF seqs
  <2>4. Old(k) = <<"inbox", d, i, n>>
        BY <2>1
  <2> HIDE DEF Old
  <2> QED
        BY <2>2, <2>3, <2>4, PlaceForms, RequestAtForms DEF PlaceForm
<1>12. ASSUME NEW k \in DOMAIN requests, NEW l \in DOMAIN requests, Old(k) = Old(l)
       PROVE  k = l
  <2>1. place[k][1] = place[l][1] /\ place[k][2] = place[l][2]
        BY <1>12
  <2>2. place[k] \in Nat \X Nat /\ place[l] \in Nat \X Nat
        BY <1>3 DEF Gathers
  <2>3. place[k] = place[l]
        BY <2>1, <2>2
  <2> QED
        BY <1>3, <2>3 DEF Gathers
<1>13. ASSUME NEW p \in Places', New(p)
       PROVE  \E i \in DOMAIN order : \E n \in B(i) : p = <<"outbox", d, i, n>>
  <2>1. PICK i \in DOMAIN order : \E n \in DOMAIN outbox'[d][i].tasks :
            p = <<"outbox", d, i, n>>
        BY <1>7, <1>13, PlaceOfKind
  <2> QED
        BY <1>7, <2>1 DEF B
<1>14. ASSUME NEW p \in Places'
       PROVE  /\ New(p) => from[p] = Old(M[p[3]][p[4]])
              /\ ~New(p) => from[p] = p
      OBVIOUS
<1>15. ASSUME NEW p \in Places', ~New(p)
       PROVE  Unmoved(p)
      BY <1>6, <1>7, <1>15, PlaceOfKind DEF Unmoved
<1> HIDE DEF Old, from, New
<1>16. ASSUME NEW p \in Places' \ N
       PROVE  from[p] = p /\ p \in Places /\ RequestAt(p) = RequestAt(p)'
      BY <1>14, <1>15, UnmovedPlaces
<1>17. ASSUME NEW p \in N
       PROVE  /\ from[p] \in Places /\ RequestAt(from[p]) = RequestAt(p)'
              /\ from[p][1] = "inbox" /\ from[p][2] = d
  <2>1. PICK i \in DOMAIN order : \E n \in B(i) : p = <<"outbox", d, i, n>>
        BY <1>13
  <2>2. PICK n \in B(i) : p = <<"outbox", d, i, n>>
        BY <2>1
  <2>3. p[3] = i /\ p[4] = n
        BY <2>2
  <2>4. from[p] = Old(M[i][n])
        BY <1>14, <2>3
  <2>5. RequestAt(p)' = outbox'[d][i].tasks[n]
        BY <2>2, RequestAtForms
  <2> QED
        BY <1>9, <1>11, <2>4, <2>5
<1>18. \A p \in Places' \ N : ~(p[1] = "inbox" /\ p[2] = d)
      BY <1>7, PlaceOfKind
<1>19. ASSUME NEW p \in N, NEW q \in N, from[p] = from[q]
       PROVE  p = q
  <2>1. PICK i \in DOMAIN order : \E n \in B(i) : p = <<"outbox", d, i, n>>
        BY <1>13
  <2>2. PICK n \in B(i) : p = <<"outbox", d, i, n>>
        BY <2>1
  <2>3. PICK j \in DOMAIN order : \E k \in B(j) : q = <<"outbox", d, j, k>>
        BY <1>13
  <2>4. PICK k \in B(j) : q = <<"outbox", d, j, k>>
        BY <2>3
  <2>5. p[3] = i /\ p[4] = n /\ q[3] = j /\ q[4] = k
        BY <2>2, <2>4
  <2>6. Old(M[i][n]) = Old(M[j][k])
        BY <1>14, <1>19, <2>5
  <2>7. M[i][n] = M[j][k]
        BY <1>9, <1>12, <2>6
  <2>8. i = j /\ n = k
        BY <1>10, <2>7
  <2> QED
        BY <2>2, <2>4, <2>8
<1> HIDE DEF N
<1>20. N \subseteq Places'
      BY DEF N
<1> QED
      BY <1>16, <1>17, <1>18, <1>19, <1>20, MovesSome

\* SendTaskToExecutor moves a task list from the outbox to a pipe.
LEMMA SendMoves ==
    ASSUME StoreTypeInv, NEW d \in Definers, SendTaskToExecutor(d)
    PROVE  \E f : Moves(f)
<1>1. PICK e \in Executors :
          /\ Len(outbox[d]) \in Nat \ {0}
          /\ outbox[d][1].tasks \in Seq(Request)
          /\ pipe' = [pipe EXCEPT ![d][e] = Append(@, outbox[d][1].tasks)]
          /\ outbox' = [outbox EXCEPT ![d] = Tail(@)]
          /\ UNCHANGED <<unsent, inbox, batch>>
      BY SendStep DEF serviceVars
<1>2. PICK k, L : k = Len(outbox[d]) /\ L = Len(pipe[d][e])
      OBVIOUS
<1>3. /\ DOMAIN outbox'[d] = 1 .. k - 1 /\ k \in Nat \ {0} /\ DOMAIN outbox[d] = 1 .. k
      /\ \A i \in 1 .. k - 1 : outbox'[d][i] = outbox[d][i + 1]
      /\ \A c \in Definers \ {d} : outbox'[c] = outbox[c]
  <2>1. outbox[d] \in Seq(TaskList) /\ outbox[d] # <<>>
        BY DEF StoreTypeInv, SendTaskToExecutor
  <2>2. outbox'[d] = Tail(outbox[d]) /\ \A c \in Definers \ {d} : outbox'[c] = outbox[c]
        BY <1>1 DEF StoreTypeInv
  <2>3. DOMAIN outbox[d] = 1 .. k
        BY <1>2, <2>1
  <2> QED
        BY <1>2, <2>1, <2>2, <2>3, HeadTail
<1>4. /\ DOMAIN pipe'[d][e] = 1 .. L + 1 /\ L \in Nat /\ DOMAIN pipe[d][e] = 1 .. L
      /\ \A i \in 1 .. L : pipe'[d][e][i] = pipe[d][e][i]
      /\ pipe'[d][e][L + 1] = outbox[d][1].tasks
      /\ \A c \in Definers, f \in Executors :
            c # d \/ f # e => pipe'[c][f] = pipe[c][f]
  <2>1. pipe[d][e] \in Seq(Seq(Request))
        BY DEF StoreTypeInv
  <2>2. pipe'[d][e] = Append(pipe[d][e], outbox[d][1].tasks)
        BY <1>1 DEF StoreTypeInv
  <2>3. \A c \in Definers, f \in Executors :
            c # d \/ f # e => pipe'[c][f] = pipe[c][f]
        BY <1>1 DEF StoreTypeInv
  <2> QED
        BY <1>1, <1>2, <2>1, <2>2, <2>3
<1> DEFINE Waits(p) == p[1] = "outbox" /\ p[2] = d
           Sent(p) == p[1] = "pipe" /\ p[2] = d /\ p[3] = e /\ p[4] = L + 1
           from == [p \in Places' |-> IF Waits(p) THEN <<"outbox", d, p[3] + 1, p[4]>>
                                      ELSE IF Sent(p) THEN <<"outbox", d, 1, p[5]>>
                                      ELSE p]
           N == {p \in Places' : Waits(p) \/ Sent(p)}
<1>5. ASSUME NEW p \in Places', Waits(p)
      PROVE  \E i \in 1 .. k - 1 : \E n \in DOMAIN outbox[d][i + 1].tasks :
                /\ p = <<"outbox", d, i, n>>
                /\ from[p] = <<"outbox", d, i + 1, n>>
                /\ from[p] \in Places /\ RequestAt(from[p]) = RequestAt(p)'
  <2>1. PICK i \in 1 .. k - 1 : \E n \in DOMAIN outbox'[d][i].tasks :
            p = <<"outbox", d, i, n>>
        BY <1>3, <1>5, PlaceOfKind
  <2>2. PICK n \in DOMAIN outbox'[d][i].tasks : p = <<"outbox", d, i, n>>
        BY <2>1
  <2>3. PICK j : j = i + 1
        OBVIOUS
  <2>4. j \in DOMAIN outbox[d] /\ outbox'[d][i] = outbox[d][j]
        BY <1>3, <2>3
  <2>5. <<"outbox", d, j, n>> \in Places
        BY <2>2, <2>4, PlaceForms DEF PlaceForm
  <2>6. RequestAt(<<"outbox", d, j, n>>) = RequestAt(p)'
        BY <2>2, <2>4, RequestAtForms
  <2>7. p[3] = i /\ p[4] = n
        BY <2>2
  <2>8. from[p] = <<"outbox", d, i + 1, n>>
        BY <1>5, <2>7
  <2> HIDE DEF from
  <2> QED
        BY <2>2, <2>3, <2>4, <2>5, <2>6, <2>8
<1>6. ASSUME NEW p \in Places', Sent(p)
      PROVE  \E n \in DOMAIN outbox[d][1].tasks :
                /\ p = <<"pipe", d, e, L + 1, n>> /\ from[p] = <<"outbox", d, 1, n>>
                /\ from[p] \in Places /\ RequestAt(from[p]) = RequestAt(p)'
  <2>1. PICK i : i = L + 1
        OBVIOUS
  <2>2. PICK n \in DOMAIN outbox[d][1].tasks : p = <<"pipe", d, e, i, n>>
        BY <1>4, <1>6, <2>1, PlaceOfKind
  <2>3. 1 \in DOMAIN outbox[d]
        BY <1>3
  <2>4. <<"outbox", d, 1, n>> \in Places
        BY <2>2, <2>3, PlaceForms DEF PlaceForm
  <2>5. RequestAt(<<"outbox", d, 1, n>>) = RequestAt(p)'
        BY <1>4, <2>1, <2>2, RequestAtForms
  <2>6. p[5] = n /\ ~Waits(p)
        BY <2>2
  <2>7. from[p] = <<"outbox", d, 1, n>>
        BY <1>6, <2>6
  <2> HIDE DEF from
  <2> QED
        BY <2>1, <2>2, <2>4, <2>5, <2>7
<1>7. ASSUME NEW p \in Places', ~Waits(p), ~Sent(p)
      PROVE  p \in Places /\ RequestAt(p) = RequestAt(p)'
  <2>1. CASE p[1] = "pipe" /\ p[2] = d /\ p[3] = e
    <3>1. PICK i \in DOMAIN pipe'[d][e] : \E n \in DOMAIN pipe'[d][e][i] :
              p = <<"pipe", d, e, i, n>>
          BY <2>1, PlaceOfKind
    <3>2. PICK n \in DOMAIN pipe'[d][e][i] : p = <<"pipe", d, e, i, n>>
          BY <3>1
    <3>3. i # L + 1
          BY <1>7, <2>1, <3>2
    <3>4. i \in DOMAIN pipe[d][e] /\ pipe'[d][e][i] = pipe[d][e][i]
          BY <1>4, <3>3
    <3> QED
          BY <3>2, <3>4, PlaceForms, RequestAtForms DEF PlaceForm
  <2>2. CASE ~(p[1] = "pipe" /\ p[2] = d /\ p[3] = e)
    <3>1. Unmoved(p)
          BY <1>1, <1>3, <1>4, <1>7, <2>2, PlaceOfKind DEF Unmoved
    <3> QED
          BY <3>1, UnmovedPlaces
  <2> QED
        BY <2>1, <2>2
<1>8. \A p \in Places' : ~Waits(p) /\ ~Sent(p) => from[p] = p
      OBVIOUS
<1>9. \A p \in Places' \ N : ~(p[1] = "outbox" /\ p[2] = d)
      OBVIOUS
<1>10. \A p \in N : p \in Places' /\ (Waits(p) \/ Sent(p))
      OBVIOUS
<1>11. \A p \in Places' \ N : ~Waits(p) /\ ~Sent(p)
      OBVIOUS
<1> HIDE DEF from, Waits, Sent, N
<1>12. \A p \in Places' \ N : from[p] = p /\ p \in Places /\ RequestAt(p) = RequestAt(p)'
      BY <1>7, <1>8, <1>11
<1>13. ASSUME NEW p \in N
       PROVE  /\ from[p] \in Places /\ RequestAt(from[p]) = RequestAt(p)'
              /\ from[p][1] = "outbox" /\ from[p][2] = d
  <2>1. PICK i, n : /\ from[p] = <<"outbox", d, i, n>>
                    /\ from[p] \in Places /\ RequestAt(from[p]) = RequestAt(p)'
        BY <1>5, <1>6, <1>10
  <2> QED
        BY <2>1
<1>14. ASSUME NEW p \in N, NEW q \in N, from[p] = from[q]
       PROVE  p = q
  <2>1. \A i, j, m, n : <<"outbox", d, i, m>> = <<"outbox", d, j, n>> => i = j /\ m = n
        OBVIOUS
  <2>2. CASE Waits(p) /\ Waits(q)
    <3>1. PICK i, n : /\ i \in 1 .. k - 1 /\ p = <<"outbox", d, i, n>>
                        /\ from[p] = <<"outbox", d, i + 1, n>>
          BY <1>5, <1>10, <2>2
    <3>2. PICK j, m : /\ j \in 1 .. k - 1 /\ q = <<"outbox", d, j, m>>
                        /\ from[q] = <<"outbox", d, j + 1, m>>
          BY <1>5, <1>10, <2>2
    <3>3. i + 1 = j + 1 /\ n = m
          BY <1>14, <2>1, <3>1, <3>2
    <3>4. i = j
          BY <1>3, <3>1, <3>2, <3>3
    <3> QED
          BY <3>1, <3>2, <3>3, <3>4
  <2>3. CASE Sent(p) /\ Sent(q)
    <3>1. PICK n, m : /\ p = <<"pipe", d, e, L + 1, n>> /\ from[p] = <<"outbox", d, 1, n>>
                      /\ q = <<"pipe", d, e, L + 1, m>> /\ from[q] = <<"outbox", d, 1, m>>
          BY <1>6, <1>10, <2>3
    <3>2. n = m
          BY <1>14, <2>1, <3>1
    <3> QED
          BY <3>1, <3>2
  <2>4. ASSUME NEW a \in N, NEW b \in N, Waits(a), Sent(b)
        PROVE  from[a] # from[b]
    <3>1. PICK i, n : i \in 1 .. k - 1 /\ from[a] = <<"outbox", d, i + 1, n>>
          BY <1>5, <1>10, <2>4
    <3>2. PICK m : from[b] = <<"outbox", d, 1, m>>
          BY <1>6, <1>10, <2>4
    <3>3. i + 1 # 1
          BY <1>3, <3>1
    <3> QED
          BY <2>1, <3>1, <3>2, <3>3
  <2> QED
        BY <1>10, <1>14, <2>2, <2>3, <2>4
<1>15. N \subseteq Places'
      BY <1>10
<1> QED
      BY <1>9, <1>12, <1>13, <1>14, <1>15, MovesSome

\* ReceiveTasks moves task lists from the pipes of an executor to its batch.
LEMMA ReceiveTasksMoves ==
    ASSUME StoreTypeInv, NEW e \in Executors, ReceiveTasks(e)
    PROVE  \E f : Moves(f)
<1>1. PICK share \in Shares(e) :
          /\ ~busy[e] /\ busy' = [busy EXCEPT ![e] = TRUE]
          /\ batch' = [batch EXCEPT ![e] = FlattenSeq(Drained(e, share))]
          /\ pipe' = [d \in Definers |-> [pipe[d] EXCEPT
                        ![e] = SubSeq(@, share[d] + 1, Len(@))]]
          /\ UNCHANGED <<unsent, inbox, definer, outbox, sink, delivered, sent>>
      BY ReceiveStep
<1>2. /\ Drained(e, share) \in Seq(Seq(Seq(Request)))
      /\ Len(Drained(e, share)) = NoDefinerThread
      BY DrainedType
<1>3. PICK g : Gathers(g, FlattenSeq(Drained(e, share)), Drained(e, share), NoDefinerThread)
      BY <1>2, FlattenSeqGathers
<1>4. /\ batch'[e] = FlattenSeq(Drained(e, share))
      /\ \A f \in Executors \ {e} : batch'[f] = batch[f]
      BY <1>1 DEF StoreTypeInv
<1>5. ASSUME NEW d \in Definers
      PROVE  /\ share[d] \in Nat /\ share[d] <= Len(pipe[d][e]) /\ Len(pipe[d][e]) \in Nat
             /\ DOMAIN pipe[d][e] = 1 .. Len(pipe[d][e])
             /\ DOMAIN pipe'[d][e] = 1 .. Len(pipe[d][e]) - share[d]
             /\ \A i \in 1 .. Len(pipe[d][e]) - share[d] :
                   pipe'[d][e][i] = pipe[d][e][share[d] + i]
             /\ \A f \in Executors \ {e} : pipe'[d][f] = pipe[d][f]
  <2>1. pipe[d][e] \in Seq(Seq(Request))
        BY DEF StoreTypeInv
  <2>2. /\ share[d] \in 0 .. Len(pipe[d][e]) /\ Len(pipe[d][e]) \in Nat
        /\ DOMAIN pipe[d][e] = 1 .. Len(pipe[d][e])
        BY DrainedType
  <2>3. /\ pipe'[d][e] = SubSeq(pipe[d][e], share[d] + 1, Len(pipe[d][e]))
        /\ \A f \in Executors \ {e} : pipe'[d][f] = pipe[d][f]
        BY <1>1 DEF StoreTypeInv
  <2>4. /\ DOMAIN SubSeq(pipe[d][e], share[d] + 1, Len(pipe[d][e])) =
              1 .. Len(pipe[d][e]) - share[d]
        /\ \A i \in 1 .. Len(pipe[d][e]) - share[d] :
              SubSeq(pipe[d][e], share[d] + 1, Len(pipe[d][e]))[i] =
                 pipe[d][e][share[d] + i]
    <3>1. PICK s, k : s = pipe[d][e] /\ k = share[d]
          OBVIOUS
    <3>2. s \in Seq(Seq(Request)) /\ k \in 0 .. Len(s)
          BY <2>1, <2>2, <3>1
    <3>3. /\ DOMAIN SubSeq(s, k + 1, Len(s)) = 1 .. Len(s) - k
          /\ \A i \in 1 .. Len(s) - k : SubSeq(s, k + 1, Len(s))[i] = s[k + i]
          BY <3>2, Split
    <3> QED
          BY <3>1, <3>3
  <2> QED
        BY <2>2, <2>3, <2>4
<1>6. ASSUME NEW l \in DOMAIN batch'[e]
      PROVE  \E d \in Definers, i \in Nat :
                /\ g[l] = <<d + 1, i>> /\ d = g[l][1] - 1 /\ i = g[l][2]
                /\ i \in DOMAIN pipe[d][e] /\ i <= share[d] /\ batch'[e][l] = pipe[d][e][i]
  <2>1. PICK a, i : a = g[l][1] /\ i = g[l][2]
        OBVIOUS
  <2>2. /\ a \in 1 .. NoDefinerThread /\ i \in DOMAIN Drained(e, share)[a]
        /\ batch'[e][l] = Drained(e, share)[a][i] /\ g[l] \in Nat \X Nat
        BY <1>3, <1>4, <2>1 DEF Gathers
  <2>3. PICK d : d = a - 1
        OBVIOUS
  <2>4. d \in Definers /\ a = d + 1
        BY <2>2, <2>3, StoreAssumption DEF Definers
  <2>5. /\ DOMAIN Drained(e, share)[a] = 1 .. share[d]
        /\ \A j \in 1 .. share[d] : Drained(e, share)[a][j] = pipe[d][e][j]
        BY <2>4, DrainedType
  <2>6. /\ i \in Nat /\ i <= share[d] /\ i \in DOMAIN pipe[d][e]
        /\ batch'[e][l] = pipe[d][e][i]
        BY <1>5, <2>2, <2>4, <2>5
  <2>7. g[l] = <<a, i>>
        BY <2>1, <2>2
  <2> QED
        BY <2>1, <2>3, <2>4, <2>6, <2>7
<1> DEFINE Waits(p) == p[1] = "pipe" /\ p[3] = e
           Taken(p) == p[1] = "batch" /\ p[2] = e
           from == [p \in Places' |->
              IF Waits(p) THEN <<"pipe", p[2], e, share[p[2]] + p[4], p[5]>>
              ELSE IF Taken(p) THEN <<"pipe", g[p[3]][1] - 1, e, g[p[3]][2], p[4]>>
              ELSE p]
           N == {p \in Places' : Waits(p) \/ Taken(p)}
<1>7. ASSUME NEW p \in Places', Waits(p)
      PROVE  \E d \in Definers, i \in Nat : \E n :
                /\ p = <<"pipe", d, e, i, n>> /\ i > 0
                /\ from[p] = <<"pipe", d, e, share[d] + i, n>>
                /\ from[p] \in Places /\ RequestAt(from[p]) = RequestAt(p)'
  <2>1. PICK d \in Definers : \E i \in DOMAIN pipe'[d][e] : \E n \in DOMAIN pipe'[d][e][i] :
            p = <<"pipe", d, e, i, n>>
        BY <1>7, PlaceOfKind
  <2>2. PICK i \in DOMAIN pipe'[d][e] : \E n \in DOMAIN pipe'[d][e][i] :
            p = <<"pipe", d, e, i, n>>
        BY <2>1
  <2>3. PICK n \in DOMAIN pipe'[d][e][i] : p = <<"pipe", d, e, i, n>>
        BY <2>2
  <2>4. PICK j : j = share[d] + i
        OBVIOUS
  <2>5. j \in DOMAIN pipe[d][e] /\ pipe'[d][e][i] = pipe[d][e][j] /\ i \in Nat /\ i > 0
    <3>1. PICK L, k : L = Len(pipe[d][e]) /\ k = share[d]
          OBVIOUS
    <3>2. /\ k \in Nat /\ k <= L /\ L \in Nat /\ DOMAIN pipe[d][e] = 1 .. L
          /\ i \in 1 .. L - k /\ pipe'[d][e][i] = pipe[d][e][k + i]
          BY <1>5, <2>2, <3>1
    <3>3. i \in Nat /\ i > 0 /\ k + i \in 1 .. L
          BY <3>2
    <3> QED
          BY <2>4, <3>1, <3>2, <3>3
  <2>6. <<"pipe", d, e, j, n>> \in Places
        BY <2>3, <2>5, PlaceForms DEF PlaceForm
  <2>7. RequestAt(<<"pipe", d, e, j, n>>) = RequestAt(p)'
        BY <2>3, <2>5, RequestAtForms
  <2>8. p[2] = d /\ p[4] = i /\ p[5] = n
        BY <2>3
  <2>9. from[p] = <<"pipe", d, e, share[d] + i, n>>
        BY <1>7, <2>8
  <2> HIDE DEF from
  <2> QED
        BY <2>3, <2>4, <2>5, <2>6, <2>7, <2>9
<1>8. ASSUME NEW p \in Places', Taken(p)
      PROVE  \E l \in DOMAIN batch'[e], d \in Definers, i \in Nat : \E n :
                /\ p = <<"batch", e, l, n>> /\ g[l] = <<d + 1, i>> /\ i <= share[d]
                /\ from[p] = <<"pipe", d, e, i, n>>
                /\ from[p] \in Places /\ RequestAt(from[p]) = RequestAt(p)'
  <2>1. PICK l \in DOMAIN batch'[e] : \E n \in DOMAIN batch'[e][l] :
            p = <<"batch", e, l, n>>
        BY <1>8, PlaceOfKind
  <2>2. PICK n \in DOMAIN batch'[e][l] : p = <<"batch", e, l, n>>
        BY <2>1
  <2>3. PICK d \in Definers, i \in Nat :
            /\ g[l] = <<d + 1, i>> /\ d = g[l][1] - 1 /\ i = g[l][2]
            /\ i \in DOMAIN pipe[d][e] /\ i <= share[d] /\ batch'[e][l] = pipe[d][e][i]
        BY <1>6
  <2>4. <<"pipe", d, e, i, n>> \in Places
        BY <2>2, <2>3, PlaceForms DEF PlaceForm
  <2>5. RequestAt(<<"pipe", d, e, i, n>>) = RequestAt(p)'
        BY <2>2, <2>3, RequestAtForms
  <2>6. p[3] = l /\ p[4] = n /\ ~Waits(p)
        BY <2>2
  <2>7. from[p] = <<"pipe", d, e, i, n>>
        BY <1>8, <2>3, <2>6
  <2> HIDE DEF from
  <2> QED
        BY <2>2, <2>3, <2>4, <2>5, <2>7
<1>9. ASSUME NEW p \in Places', ~Waits(p), ~Taken(p)
      PROVE  Unmoved(p) /\ from[p] = p
  <2>1. from[p] = p
        BY <1>9
  <2> HIDE DEF from
  <2>2. Unmoved(p)
        BY <1>1, <1>4, <1>5, <1>9, PlaceOfKind DEF Unmoved
  <2> QED
        BY <2>1, <2>2
<1>10. /\ \A p \in Places' \ N : ~(p[1] = "pipe" /\ p[3] = e) /\ ~Waits(p) /\ ~Taken(p)
       /\ \A p \in N : p \in Places' /\ (Waits(p) \/ Taken(p))
      OBVIOUS
<1> HIDE DEF from, Waits, Taken, N
<1>11. \A p \in Places' \ N : from[p] = p /\ p \in Places /\ RequestAt(p) = RequestAt(p)'
      BY <1>9, <1>10, UnmovedPlaces
<1>12. ASSUME NEW p \in N
       PROVE  /\ from[p] \in Places /\ RequestAt(from[p]) = RequestAt(p)'
              /\ from[p][1] = "pipe" /\ from[p][3] = e
  <2>1. PICK d, i, n : /\ from[p] = <<"pipe", d, e, i, n>>
                       /\ from[p] \in Places /\ RequestAt(from[p]) = RequestAt(p)'
        BY <1>7, <1>8, <1>10
  <2> QED
        BY <2>1
<1>13. ASSUME NEW p \in N, NEW q \in N, from[p] = from[q]
       PROVE  p = q
  <2>1. \A c, d, i, j, m, n :
            <<"pipe", c, e, i, m>> = <<"pipe", d, e, j, n>> => c = d /\ i = j /\ m = n
        OBVIOUS
  <2>2. CASE Waits(p) /\ Waits(q)
    <3>1. PICK d, i, n :
              /\ d \in Definers /\ i \in Nat /\ p = <<"pipe", d, e, i, n>>
              /\ from[p] = <<"pipe", d, e, share[d] + i, n>>
          BY <1>7, <1>10, <2>2
    <3>2. PICK c, j, m :
              /\ c \in Definers /\ j \in Nat /\ q = <<"pipe", c, e, j, m>>
              /\ from[q] = <<"pipe", c, e, share[c] + j, m>>
          BY <1>7, <1>10, <2>2
    <3>3. d = c /\ share[d] + i = share[c] + j /\ n = m
          BY <1>13, <2>1, <3>1, <3>2
    <3>4. i = j
          BY <1>5, <3>1, <3>2, <3>3
    <3> QED
          BY <3>1, <3>2, <3>3, <3>4
  <2>3. CASE Taken(p) /\ Taken(q)
    <3>1. PICK l, d, i, n :
              /\ l \in DOMAIN batch'[e] /\ d \in Definers /\ i \in Nat
              /\ p = <<"batch", e, l, n>> /\ g[l] = <<d + 1, i>>
              /\ from[p] = <<"pipe", d, e, i, n>>
          BY <1>8, <1>10, <2>3
    <3>2. PICK k, c, j, m :
              /\ k \in DOMAIN batch'[e] /\ c \in Definers /\ j \in Nat
              /\ q = <<"batch", e, k, m>> /\ g[k] = <<c + 1, j>>
              /\ from[q] = <<"pipe", c, e, j, m>>
          BY <1>8, <1>10, <2>3
    <3>3. d = c /\ i = j /\ n = m
          BY <1>13, <2>1, <3>1, <3>2
    <3>4. g[l] = g[k]
          BY <3>1, <3>2, <3>3
    <3>5. l = k
          BY <1>3, <1>4, <3>1, <3>2, <3>4 DEF Gathers
    <3> QED
          BY <3>1, <3>2, <3>3, <3>5
  <2>4. ASSUME NEW a \in N, NEW b \in N, Waits(a), Taken(b)
        PROVE  from[a] # from[b]
    <3>1. PICK d, i, n :
              /\ d \in Definers /\ i \in Nat /\ i > 0
              /\ from[a] = <<"pipe", d, e, share[d] + i, n>>
          BY <1>7, <1>10, <2>4
    <3>2. PICK c, j, m :
              /\ c \in Definers /\ j \in Nat /\ j <= share[c]
              /\ from[b] = <<"pipe", c, e, j, m>>
          BY <1>8, <1>10, <2>4
    <3>3. d # c \/ share[d] + i # j
          BY <1>5, <3>1, <3>2
    <3> QED
          BY <2>1, <3>1, <3>2, <3>3
  <2> QED
        BY <1>10, <1>13, <2>2, <2>3, <2>4
<1>14. N \subseteq Places'
      BY <1>10
<1> QED
      BY <1>10, <1>11, <1>12, <1>13, <1>14, MovesSome

\* In the other steps every request stays where it is, or is dropped with its batch.
LEMMA OtherStepsMove ==
    ASSUME StoreTypeInv,
           \/ \E d \in Definers : TurnToSink(d) \/ ForwardReplies(d)
           \/ \E e \in Executors : ExecuteMessages(e) \/ ExecuteReturns(e)
           \/ UNCHANGED storeVars
    PROVE  /\ \E f : Moves(f)
           /\ unsent' = unsent
<1>1. CASE UNCHANGED <<unsent, inbox, outbox, pipe, batch>>
  <2>1. \A p \in Places' : Unmoved(p)
        BY <1>1, PlaceOfKind DEF Unmoved
  <2> QED
        BY <1>1, <2>1, StayMoves
<1>2. ASSUME NEW d \in Definers, TurnToSink(d) \/ ForwardReplies(d)
      PROVE  UNCHANGED <<unsent, inbox, outbox, pipe, batch>>
      BY <1>2 DEF TurnToSink, ForwardReplies, serviceVars
<1>3. ASSUME NEW e \in Executors, ExecuteMessages(e)
      PROVE  UNCHANGED <<unsent, inbox, outbox, pipe, batch>>
      BY <1>3, ServeStep DEF ExecuteMessages, definerVars
<1>4. ASSUME NEW e \in Executors, ExecuteReturns(e)
      PROVE  /\ \E f : Moves(f)
             /\ unsent' = unsent
  <2>1. /\ batch' = [batch EXCEPT ![e] = <<>>]
        /\ UNCHANGED <<unsent, inbox, outbox, pipe>>
        BY <1>4 DEF ExecuteReturns, Finish, definerVars
  <2>2. DOMAIN batch'[e] = {} /\ \A f \in Executors \ {e} : batch'[f] = batch[f]
        BY <2>1, EmptySequence DEF StoreTypeInv
  <2>3. \A p \in Places' : Unmoved(p)
        BY <2>1, <2>2, PlaceOfKind DEF Unmoved
  <2> QED
        BY <2>1, <2>3, StayMoves
<1>5. ASSUME UNCHANGED storeVars
      PROVE  UNCHANGED <<unsent, inbox, outbox, pipe, batch>>
      BY <1>5 DEF storeVars, definerVars, serviceVars
<1> QED
      BY <1>1, <1>2, <1>3, <1>4, <1>5

\* Every step of the server moves requests, and takes none back to the client.
LEMMA StepMoves ==
    ASSUME StoreTypeInv, [StoreNext]_storeVars
    PROVE  /\ \E f : Moves(f)
           /\ unsent' \subseteq unsent
<1>1. ASSUME NEW message \in unsent, NEW d \in Definers, ClientSends(message, d)
      PROVE  /\ \E f : Moves(f)
             /\ unsent' \subseteq unsent
  <2>1. unsent' \subseteq unsent
        BY <1>1 DEF ClientSends
  <2> QED
        BY <1>1, <2>1, ClientSendsMoves
<1>2. ASSUME NEW d \in Definers, DefinerStep(d)
      PROVE  /\ \E f : Moves(f)
             /\ unsent' \subseteq unsent
  <2>1. CASE ReceiveRequests(d)
    <3>1. unsent' \subseteq unsent
          BY <2>1 DEF ReceiveRequests
    <3> QED
          BY <2>1, <3>1, ReceiveRequestsMoves
  <2>2. CASE SendTaskToExecutor(d)
    <3>1. unsent' \subseteq unsent
          BY <2>2 DEF SendTaskToExecutor
    <3> QED
          BY <2>2, <3>1, SendMoves
  <2>3. CASE TurnToSink(d) \/ ForwardReplies(d)
        BY <2>3, OtherStepsMove
  <2> QED
        BY <1>2, <2>1, <2>2, <2>3 DEF DefinerStep
<1>3. ASSUME NEW e \in Executors, ExecutorStep(e)
      PROVE  /\ \E f : Moves(f)
             /\ unsent' \subseteq unsent
  <2>1. CASE ReceiveTasks(e)
    <3>1. unsent' \subseteq unsent
          BY <2>1 DEF ReceiveTasks
    <3> QED
          BY <2>1, <3>1, ReceiveTasksMoves
  <2>2. CASE ExecuteMessages(e) \/ ExecuteReturns(e)
        BY <2>2, OtherStepsMove
  <2> QED
        BY <1>3, <2>1, <2>2 DEF ExecutorStep
<1>4. CASE UNCHANGED storeVars
      BY <1>4, OtherStepsMove
<1> QED
      BY <1>1, <1>2, <1>3, <1>4 DEF StoreNext

-----------------------------------------------------------------------------
(* Replies.                                                                *)

\* What a client has sent it has sent for good.
LEMMA HasSentKept ==
    ASSUME unsent' \subseteq unsent, NEW identity, NEW id, HasSent(identity, id)
    PROVE  HasSent(identity, id)'
  BY DEF HasSent

\* The parts of the invariant about replies.
ReplyInv == GenuineReplies /\ OneReply /\ RepliedFromBatch /\ DeliveredOnce

\* A step that sends no reply and forwards none.
LEMMA QuietStep ==
    ASSUME ReplyInv, unsent' \subseteq unsent, NEW from, Moves(from),
           UNCHANGED <<sent, delivered>>, \A d \in Definers : sink'[d] = sink[d]
    PROVE  ReplyInv'
<1>1. Outgoing' \subseteq Outgoing
      BY DEF Outgoing
<1>2. GenuineReplies'
      BY <1>1, HasSentKept DEF ReplyInv, GenuineReplies
<1>3. OneReply' /\ DeliveredOnce'
      BY DEF ReplyInv, OneReply, DeliveredOnce
<1>4. \A e \in Executors : \A i \in DOMAIN batch'[e] : \A n, k :
          Answered(e, <<i, n>>, k) => Answered(e, <<i, n>>, k)'
      BY DEF Answered, Replies
<1>5. RepliedFromBatch'
      BY <1>1, <1>4, RepliedMoves DEF ReplyInv
<1> QED
      BY <1>2, <1>3, <1>5 DEF ReplyInv

\* ExecuteReturns forgets the replies of a batch together with its requests.
LEMMA ReturnKeepsReplies ==
    ASSUME StoreTypeInv, ReplyInv, NEW e \in Executors, ExecuteReturns(e)
    PROVE  ReplyInv'
<1>1. /\ batch' = [batch EXCEPT ![e] = <<>>] /\ sent' = [sent EXCEPT ![e] = <<>>]
      /\ UNCHANGED <<unsent, sink, delivered>>
      BY DEF ExecuteReturns, Finish
<1>2. PICK from : Moves(from)
      BY OtherStepsMove
<1>3. Outgoing' = Outgoing
      BY <1>1 DEF Outgoing
<1>4. GenuineReplies'
      BY <1>1, <1>3, HasSentKept DEF ReplyInv, GenuineReplies
<1>5. OneReply' /\ DeliveredOnce'
      BY <1>1 DEF ReplyInv, OneReply, DeliveredOnce
<1>6. ASSUME NEW f \in Executors, NEW i \in DOMAIN batch'[f], NEW n, NEW k,
             Answered(f, <<i, n>>, k)
      PROVE  Answered(f, <<i, n>>, k)'
  <2>1. f # e
        BY <1>1, EmptySequence DEF StoreTypeInv
  <2>2. sent'[f] = sent[f]
        BY <1>1, <2>1 DEF StoreTypeInv
  <2> QED
        BY <1>6, <2>2 DEF Answered, Replies
<1>7. RepliedFromBatch'
      BY <1>2, <1>3, <1>6, RepliedMoves DEF ReplyInv
<1> QED
      BY <1>4, <1>5, <1>7 DEF ReplyInv

\* What a bag holds after the elements of a sequence, each at one place and none in the
\* bag before, have been added to it.
LEMMA BagAfter ==
    ASSUME NEW B, NEW s, \A x \in DOMAIN B : B[x] = 1,
           \A i, j \in DOMAIN s : s[i] = s[j] => i = j,
           \A i \in DOMAIN s : s[i] \notin DOMAIN B
    PROVE  /\ DOMAIN (B (+) ToBag(s)) = DOMAIN B \cup Range(s)
           /\ \A x \in DOMAIN (B (+) ToBag(s)) : (B (+) ToBag(s))[x] = 1
<1> DEFINE T == ToBag(s)
<1>1. DOMAIN T = Range(s)
      BY DEF ToBag
<1>2. ASSUME NEW x \in Range(s)
      PROVE  T[x] = 1 /\ x \notin DOMAIN B
  <2>1. PICK i \in DOMAIN s : s[i] = x
        BY DEF Range
  <2>2. {j \in DOMAIN s : s[j] = x} = {i}
        BY <2>1
  <2>3. T[x] = Cardinality({j \in DOMAIN s : s[j] = x})
        BY DEF ToBag
  <2> QED
        BY <2>1, <2>2, <2>3, FS_Singleton
<1> HIDE DEF T
<1>3. B (+) T = [x \in (DOMAIN B) \cup (DOMAIN T) |->
                   (IF x \in DOMAIN B THEN B[x] ELSE 0)
                 + (IF x \in DOMAIN T THEN T[x] ELSE 0)]
      BY DEF (+)
<1>4. DOMAIN (B (+) T) = DOMAIN B \cup Range(s)
      BY <1>1, <1>3
<1>5. ASSUME NEW x \in DOMAIN B \cup Range(s)
      PROVE  (B (+) T)[x] = 1
      BY <1>1, <1>2, <1>3
<1> QED
      BY <1>4, <1>5 DEF T

\* ForwardReplies moves the replies of a sink to the clients.
LEMMA ForwardKeepsReplies ==
    ASSUME StoreTypeInv, ReplyInv, NEW d \in Definers, ForwardReplies(d)
    PROVE  ReplyInv'
<1>1. /\ delivered' = delivered (+) ToBag(sink[d])
      /\ sink' = [sink EXCEPT ![d] = <<>>]
      /\ UNCHANGED <<unsent, batch, sent>>
      BY DEF ForwardReplies, serviceVars
<1>2. /\ \A i, j \in DOMAIN sink[d] : sink[d][i] = sink[d][j] => i = j
      /\ \A i \in DOMAIN sink[d] : sink[d][i] \notin DOMAIN delivered
      BY DEF ReplyInv, OneReply, SameReply, BagToSet
<1>3. \A r \in DOMAIN delivered : delivered[r] = 1
      BY DEF ReplyInv, DeliveredOnce, BagToSet
<1>4. /\ DOMAIN delivered' = DOMAIN delivered \cup Range(sink[d])
      /\ \A r \in DOMAIN delivered' : delivered'[r] = 1
  <2>1. PICK B, s : B = delivered /\ s = sink[d]
        OBVIOUS
  <2>2. /\ \A r \in DOMAIN B : B[r] = 1
        /\ \A i, j \in DOMAIN s : s[i] = s[j] => i = j
        /\ \A i \in DOMAIN s : s[i] \notin DOMAIN B
        BY <1>2, <1>3, <2>1
  <2>3. /\ DOMAIN (B (+) ToBag(s)) = DOMAIN B \cup Range(s)
        /\ \A r \in DOMAIN (B (+) ToBag(s)) : (B (+) ToBag(s))[r] = 1
        BY <2>2, BagAfter, Zenon
  <2>4. delivered' = B (+) ToBag(s)
        BY <1>1, <2>1
  <2> QED
        BY <2>1, <2>3, <2>4, Zenon
<1>5. DOMAIN sink'[d] = {} /\ \A c \in Definers \ {d} : sink'[c] = sink[c]
      BY <1>1, EmptySequence DEF StoreTypeInv
<1>6. Outgoing' \subseteq Outgoing
      BY <1>4, <1>5 DEF Outgoing, BagToSet, Range
<1>7. GenuineReplies'
      BY <1>1, <1>6, HasSentKept DEF ReplyInv, GenuineReplies
<1>8. \A r \in DOMAIN delivered' :
          r \in DOMAIN delivered \/ \E i \in DOMAIN sink[d] : r = sink[d][i]
      BY <1>4 DEF Range
<1>9. OneReply'
  <2>1. ASSUME NEW c \in Definers, NEW i \in DOMAIN sink'[c]
        PROVE  c # d /\ sink'[c] = sink[c] /\ i \in DOMAIN sink[c]
        BY <1>5
  <2>2. ASSUME NEW c \in Definers, NEW i \in DOMAIN sink'[c], NEW r \in DOMAIN delivered'
        PROVE  ~SameReply(r, sink'[c][i])
        BY <1>8, <2>1 DEF ReplyInv, OneReply, BagToSet
  <2>3. \A b, c \in Definers : \A i \in DOMAIN sink'[b], j \in DOMAIN sink'[c] :
            SameReply(sink'[b][i], sink'[c][j]) => b = c /\ i = j
        BY <2>1 DEF ReplyInv, OneReply
  <2> QED
        BY <2>2, <2>3 DEF OneReply, BagToSet, SameReply
<1>10. DeliveredOnce'
  <2>1. ASSUME NEW r \in DOMAIN delivered', NEW s \in DOMAIN delivered', SameReply(s, r)
        PROVE  s = r
    <3>1. SameReply(r, s)
          BY <2>1 DEF SameReply
    <3>2. CASE r \in DOMAIN delivered /\ s \in DOMAIN delivered
          BY <2>1, <3>2 DEF ReplyInv, DeliveredOnce, BagToSet, SameReply
    <3>3. CASE \E i, j \in DOMAIN sink[d] : r = sink[d][i] /\ s = sink[d][j]
          BY <2>1, <3>3 DEF ReplyInv, OneReply
    <3> QED
          BY <1>8, <2>1, <3>1, <3>2, <3>3 DEF ReplyInv, OneReply, BagToSet
  <2> QED
        BY <1>4, <2>1 DEF DeliveredOnce, BagToSet, SameReply
<1>11. PICK from : Moves(from)
      BY OtherStepsMove
<1>12. \A e \in Executors : \A i \in DOMAIN batch'[e] : \A n, k :
          Answered(e, <<i, n>>, k) => Answered(e, <<i, n>>, k)'
      BY <1>1 DEF Answered, Replies
<1>13. RepliedFromBatch'
      BY <1>6, <1>11, <1>12, RepliedMoves DEF ReplyInv
<1> QED
      BY <1>7, <1>9, <1>10, <1>13 DEF ReplyInv

\* ExecuteMessages adds a reply to a sink, if it sends one, that answers an operation
\* with no reply yet of a request that is nowhere else.
LEMMA ExecuteKeepsReplies ==
    ASSUME StoreInv, NEW e \in Executors, ExecuteMessages(e)
    PROVE  ReplyInv'
<1>1. StoreTypeInv /\ ReplyInv
      BY DEF StoreInv, ReplyInv
<1>2. UNCHANGED <<unsent, inbox, outbox, pipe, batch, delivered>>
      BY ServeStep DEF ExecuteMessages, definerVars
<1>3. PICK from : Moves(from)
      BY <1>1, OtherStepsMove
<1>4. DOMAIN sink = Definers /\ SinkOf(e) \in Definers
      BY <1>1, SinkOfType DEF StoreTypeInv
<1>5. CASE sent' = sent
  <2>1. \A d \in Definers : sink'[d] = sink[d]
        BY <1>4, <1>5 DEF ExecuteMessages
  <2> QED
        BY <1>1, <1>2, <1>3, <1>5, <2>1, QuietStep
<1>6. CASE sent' # sent
  <2>1. PICK slot, i, status, results :
            /\ slot \in Slots(e)
            /\ ~Answered(e, slot, i) /\ OpsOf(e, slot) # <<>>
            /\ sent' = [sent EXCEPT ![e] = Append(@, Reply(slot, i, status, results))]
        BY <1>6, ServeStep DEF ExecuteMessages
  <2>2. PICK l \in DOMAIN batch[e] : \E n \in DOMAIN batch[e][l] : slot = <<l, n>>
        BY <2>1 DEF Slots
  <2>3. PICK n \in DOMAIN batch[e][l] : slot = <<l, n>>
        BY <2>2
  <2>4. PICK reply : reply = Reply(slot, i, status, results)
        OBVIOUS
  <2>5. reply.list = l /\ reply.tuple = n /\ reply.op = i
        BY <2>3, <2>4 DEF Reply
  <2>6. /\ sent'[e] = Append(sent[e], reply) /\ Last(sent'[e]) = reply
        /\ \A f \in Executors \ {e} : sent'[f] = sent[f]
        /\ Range(sent'[e]) = Range(sent[e]) \cup {reply}
    <3>1. /\ sent'[e] = Append(sent[e], reply)
          /\ \A f \in Executors \ {e} : sent'[f] = sent[f]
          BY <1>1, <2>1, <2>4 DEF StoreTypeInv
    <3>2. IsSequence(sent[e])
          BY <1>1 DEF StoreTypeInv
    <3> QED
          BY <3>1, <3>2, AppendSequence
  \* The place of the request that is answered, and the reply on its way.
  <2>7. PICK p, new, c : /\ p = <<"batch", e, l, n>> /\ c = SinkOf(e)
                         /\ new = Addressed(batch[e][l][n], reply)
        OBVIOUS
  <2>8. p \in Places /\ RequestAt(p) = batch[e][l][n] /\ RequestAt(p).ops # <<>>
    <3>1. p \in Places
          BY <2>3, <2>7, PlaceForms DEF PlaceForm
    <3>2. RequestAt(p) = batch[e][l][n]
          BY <2>7, RequestAtForms
    <3>3. OpsOf(e, slot) = batch[e][l][n].ops
          BY <2>3 DEF OpsOf
    <3> QED
          BY <2>1, <3>1, <3>2, <3>3
  <2>9. new.to = RequestAt(p).identity /\ new.id = RequestAt(p).id /\ new.op = i
        BY <2>5, <2>7, <2>8 DEF Addressed
  <2>10. p[1] = "batch" /\ p[2] = e /\ p[3] = l /\ p[4] = n
        BY <2>7
  <2>11. ~Answered(e, <<l, n>>, i)
        BY <2>1, <2>3
  <2>12. ASSUME NEW r \in Outgoing
         PROVE  ~SameReply(r, new) /\ ~SameReply(new, r)
        BY <1>1, <2>8, <2>9, <2>10, <2>11 DEF ReplyInv, RepliedFromBatch, SameReply
  <2>13. /\ c \in Definers /\ sink'[c] = Append(sink[c], new)
         /\ \A b \in Definers \ {c} : sink'[b] = sink[b]
    <3>1. sink' = [sink EXCEPT ![c] = Append(@, new)]
          BY <1>6, <2>5, <2>6, <2>7 DEF ExecuteMessages
    <3> QED
          BY <1>4, <2>7, <3>1
  <2>14. PICK L : L = Len(sink[c])
        OBVIOUS
  <2>15. /\ L \in Nat /\ DOMAIN sink[c] = 1 .. L /\ DOMAIN sink'[c] = 1 .. L + 1
         /\ sink'[c][L + 1] = new /\ \A k \in DOMAIN sink[c] : sink'[c][k] = sink[c][k]
         /\ Range(sink'[c]) = Range(sink[c]) \cup {new}
    <3>1. IsSequence(sink[c])
          BY <1>1, <2>13 DEF StoreTypeInv
    <3> QED
          BY <2>13, <2>14, <3>1, AppendSequence
  <2>16. Outgoing' \subseteq Outgoing \cup {new}
    <3>1. \A b \in Definers : Range(sink'[b]) \subseteq Range(sink[b]) \cup {new}
          BY <2>13, <2>15
    <3>2. ASSUME NEW r \in Outgoing'
          PROVE  r \in BagToSet(delivered) \/ \E b \in Definers : r \in Range(sink'[b])
          BY <1>2 DEF Outgoing, Range
    <3>3. \A r : r \in BagToSet(delivered) \/ (\E b \in Definers : r \in Range(sink[b])) =>
              r \in Outgoing
          BY DEF Outgoing
    <3> QED
          BY <3>1, <3>2, <3>3
  <2>17. GenuineReplies'
    <3>1. HasSent(new.to, new.id)
          BY <2>8, <2>9, <2>10 DEF StoreInv, GenuineRequests
    <3>2. \A r \in Outgoing' : HasSent(r.to, r.id)
          BY <1>1, <2>16, <3>1 DEF ReplyInv, GenuineReplies
    <3> QED
          BY <1>2, <3>2, HasSentKept DEF GenuineReplies
  <2>18. OneReply'
    <3>1. ASSUME NEW b \in Definers, NEW k \in DOMAIN sink'[b]
          PROVE  \/ /\ k \in DOMAIN sink[b] /\ sink'[b][k] = sink[b][k]
                    /\ sink[b][k] \in Outgoing
                 \/ b = c /\ k = L + 1 /\ sink'[b][k] = new
      <4>1. \A j \in DOMAIN sink[b] : sink[b][j] \in Outgoing
            BY DEF Outgoing, Range
      <4> QED
            BY <2>13, <2>15, <4>1
    <3>2. \A r \in BagToSet(delivered) : r \in Outgoing
          BY DEF Outgoing
    <3>3. ASSUME NEW a \in Definers, NEW b \in Definers, NEW j \in DOMAIN sink'[a],
                 NEW k \in DOMAIN sink'[b], SameReply(sink'[a][j], sink'[b][k])
          PROVE  a = b /\ j = k
          BY <1>1, <2>12, <3>1, <3>3 DEF ReplyInv, OneReply
    <3>4. ASSUME NEW b \in Definers, NEW k \in DOMAIN sink'[b],
                 NEW r \in BagToSet(delivered)
          PROVE  ~SameReply(r, sink'[b][k])
          BY <1>1, <2>12, <3>1, <3>2 DEF ReplyInv, OneReply
    <3> QED
          BY <1>2, <3>3, <3>4 DEF OneReply, SameReply
  <2>19. DeliveredOnce'
        BY <1>1, <1>2 DEF ReplyInv, DeliveredOnce
  <2>20. RepliedFromBatch'
    <3> SUFFICES ASSUME NEW r \in Outgoing', NEW q \in Places', RequestAt(q)'.ops # <<>>,
                        RequestAt(q)'.identity = r.to, RequestAt(q)'.id = r.id
                 PROVE  q[1] = "batch" /\ Answered(q[2], <<q[3], q[4]>>, r.op)'
        BY DEF RepliedFromBatch
    <3>1. Unmoved(q)
          BY <1>2, PlaceOfKind DEF Unmoved
    <3>2. q \in Places /\ RequestAt(q) = RequestAt(q)'
          BY <3>1, UnmovedPlaces
    <3>3. CASE r \in Outgoing
      <4>1. q[1] = "batch" /\ Answered(q[2], <<q[3], q[4]>>, r.op)
            BY <1>1, <3>2, <3>3 DEF ReplyInv, RepliedFromBatch
      <4>2. q[2] \in Executors
            BY <4>1, PlaceOfKind
      <4>3. Replies(q[2]) \subseteq Replies(q[2])'
            BY <2>6, <4>2 DEF Replies, Range
      <4> QED
            BY <4>1, <4>3 DEF Answered
    <3>4. CASE r = new
      <4>1. q = p
            BY <2>8, <2>9, <3>2, <3>4 DEF StoreInv, OnePlace
      <4>2. reply \in Replies(e)'
            BY <2>6 DEF Replies, Range
      <4>3. Answered(e, <<l, n>>, i)'
            BY <2>5, <4>2 DEF Answered
      <4> QED
            BY <2>9, <2>10, <3>4, <4>1, <4>3
    <3> QED
          BY <2>16, <3>3, <3>4
  <2> QED
        BY <2>17, <2>18, <2>19, <2>20 DEF ReplyInv
<1> QED
      BY <1>5, <1>6

-----------------------------------------------------------------------------
(* The theorems.                                                           *)

\* Before anything is sent all requests are at the clients, and there are no replies.
LEMMA StoreInvInit == StoreInit => StoreInv
<1> SUFFICES ASSUME StoreInit
             PROVE  StoreInv
    OBVIOUS
<1>1. StoreTypeInv
      BY TypeInit
<1>2. Outgoing = {} /\ BagToSet(delivered) = {} /\ \A d \in Definers : DOMAIN sink[d] = {}
  <2>1. DOMAIN delivered = {}
        BY DEF StoreInit, EmptyBag, SetToBag
  <2>2. \A d \in Definers : sink[d] = <<>>
        BY DEF StoreInit
  <2> QED
        BY <2>1, <2>2, EmptySequence DEF Outgoing, BagToSet
<1>3. GenuineReplies /\ OneReply /\ RepliedFromBatch /\ DeliveredOnce
      BY <1>2 DEF GenuineReplies, OneReply, RepliedFromBatch, DeliveredOnce
<1>4. ASSUME NEW p \in Places
      PROVE  \E m \in Traffic : \E n \in DOMAIN Requests(m) :
                p = <<"client", m, n>> /\ p[1] = "client" /\ RequestAt(p) = Requests(m)[n]
  <2>1. /\ unsent = Traffic
        /\ \A d \in Definers : DOMAIN inbox[d] = {} /\ DOMAIN outbox[d] = {}
        /\ \A d \in Definers, e \in Executors : DOMAIN pipe[d][e] = {}
        /\ \A e \in Executors : DOMAIN batch[e] = {}
        BY EmptySequence DEF StoreInit, ServiceInit
  <2>2. PICK m \in Traffic : \E n \in DOMAIN Requests(m) : p = <<"client", m, n>>
        BY <2>1, PlaceForms DEF PlaceForm
  <2>3. PICK n \in DOMAIN Requests(m) : p = <<"client", m, n>>
        BY <2>2
  <2> QED
        BY <2>3, RequestAtForms
<1>5. GenuineRequests
      BY <1>4 DEF GenuineRequests
<1>6. OnePlace
      BY <1>4, RequestsDiffer DEF OnePlace
<1> QED
      BY <1>1, <1>3, <1>5, <1>6 DEF StoreInv

\* Every step of every thread keeps the invariant.
LEMMA StoreInvStep ==
    ASSUME StoreInv, [StoreNext]_storeVars
    PROVE  StoreInv'
<1>1. StoreTypeInv /\ GenuineRequests /\ OnePlace /\ ReplyInv
      BY DEF StoreInv, ReplyInv
<1>2. StoreTypeInv'
      BY <1>1, TypeStep
<1>3. unsent' \subseteq unsent
      BY <1>1, StepMoves
<1>4. PICK from : Moves(from)
      BY <1>1, StepMoves
<1>5. GenuineRequests' /\ OnePlace'
      BY <1>1, <1>3, <1>4, GenuineMoves, OnePlaceMoves
<1>6. ASSUME UNCHANGED <<sent, sink, delivered>>
      PROVE  ReplyInv'
      BY <1>1, <1>3, <1>4, <1>6, QuietStep
<1>7. ReplyInv'
  <2>1. ASSUME NEW message \in unsent, NEW d \in Definers, ClientSends(message, d)
        PROVE  UNCHANGED <<sent, sink, delivered>>
        BY <2>1 DEF ClientSends, serviceVars
  <2>2. ASSUME NEW d \in Definers, ReceiveRequests(d)
        PROVE  UNCHANGED <<sent, sink, delivered>>
        BY <2>2 DEF ReceiveRequests, serviceVars
  <2>3. ASSUME NEW d \in Definers, SendTaskToExecutor(d)
        PROVE  UNCHANGED <<sent, sink, delivered>>
        BY <2>3 DEF SendTaskToExecutor, serviceVars
  <2>4. ASSUME NEW d \in Definers, TurnToSink(d)
        PROVE  UNCHANGED <<sent, sink, delivered>>
        BY <2>4 DEF TurnToSink, serviceVars
  <2>5. ASSUME NEW e \in Executors, ReceiveTasks(e)
        PROVE  UNCHANGED <<sent, sink, delivered>>
        BY <1>1, <2>5, ReceiveStep
  <2>6. ASSUME UNCHANGED storeVars
        PROVE  UNCHANGED <<sent, sink, delivered>>
        BY <2>6 DEF storeVars, serviceVars
  <2>7. ASSUME NEW d \in Definers, DefinerStep(d)
        PROVE  ReplyInv'
        BY <1>1, <1>6, <2>2, <2>3, <2>4, <2>7, ForwardKeepsReplies DEF DefinerStep
  <2>8. ASSUME NEW e \in Executors, ExecutorStep(e)
        PROVE  ReplyInv'
        BY <1>1, <1>6, <2>5, <2>8, ExecuteKeepsReplies, ReturnKeepsReplies DEF ExecutorStep
  <2> QED
        BY <1>6, <2>1, <2>6, <2>7, <2>8 DEF StoreNext
<1> QED
      BY <1>2, <1>5, <1>7 DEF StoreInv, ReplyInv

\* The inductive invariant holds in every behaviour of the server.
THEOREM StoreInvariant == StoreSpec => []StoreInv
<1>1. StoreInit => StoreInv
      BY StoreInvInit
<1>2. StoreInv /\ [StoreNext]_storeVars => StoreInv'
      BY StoreInvStep
<1> QED
      BY <1>1, <1>2, PTL DEF StoreSpec

\* A reply only ever reaches the client that sent the request it names, however many
\* definers, executors and clients share the way (replyWithResult, worker_thread_handler).
THEOREM RepliesToRequesters == StoreSpec => []RepliesReachTheRequester
<1>1. StoreInv => RepliesReachTheRequester
      BY DEF StoreInv, GenuineReplies, HasSent, Outgoing, RepliesReachTheRequester
<1> QED
      BY <1>1, StoreInvariant, PTL

\* The server never answers the same operation twice, nor in two ways.
THEOREM OneReplyEach == StoreSpec => []DeliveredOnce
<1>1. StoreInv => DeliveredOnce
      BY DEF StoreInv
<1> QED
      BY <1>1, StoreInvariant, PTL
=============================================================================
