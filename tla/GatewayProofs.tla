----------------------------- MODULE GatewayProofs -----------------------------
(***************************************************************************)
(* Proofs about Gateway for every number of requests, clients and          *)
(* connections, whatever functions are called and sections are read.       *)
(***************************************************************************)
EXTENDS Gateway, TLAPS

\* The leases a request may have, by its record.
LeasesFor(n) ==
  CASE n.pc = "connect" -> {"main"}
    [] n.pc = "ask" -> {"main", "caller"}
    [] n.pc \in {"gate", "handle"} -> {"main"}
    [] n.pc \in {"read", "answered"} -> {s \in Section \cup {Probe} : n.left[s] > 0}
    [] OTHER -> {}

\* LeasesLive, in these terms.
Fits(l) == l[2] \in LeasesFor(request[l[1]])

RecordsLive ==
  /\ \A c \in Connection : lent[c] # Free => Fits(lent[c])
  /\ \A i \in DOMAIN queue : Fits(queue[i])
  /\ \A c, d \in Connection : lent[c] = lent[d] /\ lent[c] # Free => c = d
  /\ \A i, j \in DOMAIN queue : queue[i] = queue[j] => i = j
  /\ \A c \in Connection, i \in DOMAIN queue : lent[c] # queue[i]
  /\ \A r \in Slot : request[r].pc \in {"ask", "gate", "handle"} => Has(<<r, "main">>)

IInv == GatewayTypeOK /\ RecordsLive

LEMMA LiveByRecord == RecordsLive => LeasesLive
<1>1. \A r : LeasesOf(r) = LeasesFor(request[r])
  BY DEF LeasesOf, LeasesFor
<1> QED BY <1>1 DEF RecordsLive, LeasesLive, Fits

LEMMA LeasesByPc ==
  ASSUME NEW n
  PROVE  /\ n.pc = "connect" => LeasesFor(n) = {"main"}
         /\ n.pc = "ask" => LeasesFor(n) = {"main", "caller"}
         /\ n.pc \in {"gate", "handle"} => LeasesFor(n) = {"main"}
         /\ n.pc \in {"read", "answered"} =>
              LeasesFor(n) = {s \in Section \cup {Probe} : n.left[s] > 0}
         /\ n.pc \in {"idle", "limit", "screen"} => LeasesFor(n) = {}
BY DEF LeasesFor

\* A lease is a pair, and no lease is nothing.
LEMMA LeasePairs ==
  /\ \A l \in Lease : l = <<l[1], l[2]>> /\ l[1] \in Slot /\ l[2] \in Purpose /\ l # Free
  /\ \A r \in Slot, p \in Purpose : <<r, p>> \in Lease
BY DEF Lease, Free

LEMMA Names == /\ "main" \notin Section \cup {Probe} /\ "caller" \notin Section \cup {Probe}
               /\ Probe \notin Section /\ "main" # "caller"
               /\ {"main", "caller"} \cup Section \cup {Probe} = Purpose
BY GatewayAssumption DEF Probe, Purpose

\* What the invariant says of one request.
LEMMA LeasesKnown ==
  ASSUME IInv, NEW r \in Slot, NEW p
  PROVE  /\ Has(<<r, p>>) => p \in LeasesFor(request[r])
         /\ Awaits(<<r, p>>) => p \in LeasesFor(request[r])
         /\ ~(Has(<<r, p>>) /\ Awaits(<<r, p>>))
         /\ request[r].pc \in {"ask", "gate", "handle"} => Has(<<r, "main">>)
<1>1. <<r, p>> # Free /\ <<r, p>>[1] = r /\ <<r, p>>[2] = p
  BY DEF Free
<1>2. \A l : l = <<r, p>> => (Fits(l) <=> p \in LeasesFor(request[r]))
  BY <1>1 DEF Fits
<1>3. Has(<<r, p>>) => p \in LeasesFor(request[r])
  BY <1>1, <1>2 DEF IInv, RecordsLive, Has
<1>4. Awaits(<<r, p>>) => p \in LeasesFor(request[r])
  BY <1>2 DEF IInv, RecordsLive, Awaits
<1> QED BY <1>3, <1>4 DEF IInv, RecordsLive, Has, Awaits

-----------------------------------------------------------------------------
\* A queue after a step of request r that becomes n and gives leases back: each other
\* place was there, and each of its own is for a lease that fits n and is not lent.
Places(q, r, n, back) ==
  /\ q \in Seq(Lease)
  /\ \A i, j \in DOMAIN q : q[i] = q[j] => i = j
  /\ \A i \in DOMAIN q :
       \/ q[i][1] # r /\ Awaits(q[i])
       \/ /\ q[i][1] = r /\ q[i][2] \in LeasesFor(n)
          /\ ~Has(q[i]) \/ q[i] \in back

\* A step of one request: it becomes n, gives leases of its own back, and the queue
\* keeps the places of others and has places for it that fit n.
LEMMA RequestMoves ==
  ASSUME IInv, NEW r \in Slot, NEW n \in RequestRecord, request' = [request EXCEPT ![r] = n],
         window' \in [Client -> 0 .. Limit],
         NEW back, \A l \in back : l[1] = r, lent' = Returned(back),
         \A p : Has(<<r, p>>) /\ <<r, p>> \notin back => p \in LeasesFor(n),
         n.pc \in {"ask", "gate", "handle"} => Has(<<r, "main">>) /\ <<r, "main">> \notin back,
         Places(queue', r, n, back)
  PROVE  IInv'
<1>1. /\ request \in [Slot -> RequestRecord] /\ lent \in [Connection -> Lease \cup {Free}]
      /\ queue \in Seq(Lease)
  BY DEF IInv, GatewayTypeOK
<1>2. /\ request'[r] = n /\ \A q \in Slot : q # r => request'[q] = request[q]
      /\ \A c \in Connection : lent'[c] = IF lent[c] \in back THEN Free ELSE lent[c]
  BY <1>1 DEF Returned
<1>3. GatewayTypeOK'
  BY <1>1 DEF Places, GatewayTypeOK, Returned
<1>5. ASSUME NEW c \in Connection, lent'[c] # Free
      PROVE  /\ lent'[c] = lent[c] /\ lent[c] \notin back
             /\ lent'[c][2] \in LeasesFor(request'[lent'[c][1]])
  <2>1. lent'[c] = lent[c] /\ lent[c] \notin back /\ lent[c] \in Lease
    BY <1>1, <1>2, <1>5
  <2>2. lent[c] = <<lent[c][1], lent[c][2]>> /\ lent[c][1] \in Slot
    BY <2>1, LeasePairs
  <2>3. CASE lent[c][1] = r
    BY <1>2, <2>1, <2>2, <2>3 DEF Has
  <2>4. CASE lent[c][1] # r
    BY <1>2, <1>5, <2>1, <2>2, <2>4 DEF IInv, RecordsLive, Fits
  <2> QED BY <2>1, <2>3, <2>4
<1>6. ASSUME NEW i \in DOMAIN queue'
      PROVE  /\ queue'[i][2] \in LeasesFor(request'[queue'[i][1]])
             /\ \A c \in Connection : lent'[c] # queue'[i]
  <2> DEFINE l == queue'[i]
  <2>1. l \in Lease
    BY <1>6 DEF Places
  <2>2. l[1] \in Slot /\ l # Free
    BY <2>1, LeasePairs
  <2>3. CASE l[1] # r /\ Awaits(l)
    <3>1. l[2] \in LeasesFor(request[l[1]]) /\ \A c \in Connection : lent[c] # l
      BY <2>3 DEF IInv, RecordsLive, Awaits, Fits
    <3>2. request'[l[1]] = request[l[1]]
      BY <1>2, <2>2, <2>3
    <3>3. \A c \in Connection : lent'[c] # l
      BY <1>5, <2>2, <3>1
    <3> HIDE DEF l
    <3>4. l[2] \in LeasesFor(request'[l[1]])
      BY <3>1, <3>2
    <3> QED BY <3>3, <3>4 DEF l
  <2>4. CASE l[1] = r /\ l[2] \in LeasesFor(n) /\ (~Has(l) \/ l \in back)
    <3>1. \A c \in Connection : lent'[c] # l
      BY <1>5, <2>2, <2>4 DEF Has
    <3> QED BY <1>2, <2>4, <3>1
  <2> QED BY <1>6, <2>3, <2>4 DEF Places
<1>7. \A c, d \in Connection : lent'[c] = lent'[d] /\ lent'[c] # Free => c = d
  BY <1>5 DEF IInv, RecordsLive
<1>8. ASSUME NEW q \in Slot, request'[q].pc \in {"ask", "gate", "handle"}
      PROVE  \E c \in Connection : lent'[c] = <<q, "main">>
  <2>1. Has(<<q, "main">>) /\ <<q, "main">> \notin back
    <3>1. CASE q = r
      BY <1>2, <1>8, <3>1
    <3>2. CASE q # r
      BY <1>2, <1>8, <3>2 DEF IInv, RecordsLive
    <3> QED BY <3>1, <3>2
  <2> QED BY <1>2, <2>1 DEF Has
<1>9. \A i, j \in DOMAIN queue' : queue'[i] = queue'[j] => i = j
  BY DEF Places
<1> QED BY <1>3, <1>5, <1>6, <1>7, <1>8, <1>9 DEF IInv, RecordsLive, Fits, Has

-----------------------------------------------------------------------------
\* The queues that steps leave behind.
LEMMA OldPlaces ==
  ASSUME IInv, NEW r \in Slot, NEW n, NEW back, NEW i \in DOMAIN queue,
         queue[i][1] = r => queue[i][2] \in LeasesFor(n)
  PROVE  \/ queue[i][1] # r /\ Awaits(queue[i])
         \/ /\ queue[i][1] = r /\ queue[i][2] \in LeasesFor(n)
            /\ ~Has(queue[i]) \/ queue[i] \in back
BY DEF IInv, RecordsLive, Awaits, Has

LEMMA SameQueue ==
  ASSUME IInv, NEW r \in Slot, NEW n, NEW back,
         \A p : Awaits(<<r, p>>) => p \in LeasesFor(n)
  PROVE  Places(queue, r, n, back)
<1>1. queue \in Seq(Lease) /\ \A i, j \in DOMAIN queue : queue[i] = queue[j] => i = j
  BY DEF IInv, GatewayTypeOK, RecordsLive
<1>2. ASSUME NEW i \in DOMAIN queue, queue[i][1] = r PROVE queue[i][2] \in LeasesFor(n)
  <2>1. queue[i] = <<r, queue[i][2]>>
    BY <1>1, <1>2, LeasePairs
  <2> QED BY <2>1 DEF Awaits
<1> QED BY <1>1, <1>2, OldPlaces DEF Places

LEMMA Appended ==
  ASSUME IInv, NEW r \in Slot, NEW n, NEW back, NEW p \in Purpose,
         p \in LeasesFor(n), ~Awaits(<<r, p>>), ~Has(<<r, p>>) \/ <<r, p>> \in back,
         \A o : Awaits(<<r, o>>) => o \in LeasesFor(n)
  PROVE  Places(Append(queue, <<r, p>>), r, n, back)
<1> DEFINE l == <<r, p>>
           q == Append(queue, l)
<1>1. queue \in Seq(Lease) /\ l \in Lease /\ l[1] = r /\ l[2] = p
  BY LeasePairs DEF IInv, GatewayTypeOK
<1>2. Places(queue, r, n, back)
  BY SameQueue
<1> HIDE DEF l
<1>3. /\ q \in Seq(Lease) /\ DOMAIN q = 1 .. Len(queue) + 1 /\ DOMAIN queue = 1 .. Len(queue)
      /\ q[Len(queue) + 1] = l /\ \A i \in DOMAIN queue : q[i] = queue[i]
  BY <1>1
<1>4. \A i \in DOMAIN queue : queue[i] # l
  BY DEF Awaits, l
<1>5. \A i \in DOMAIN q : i \in DOMAIN queue \/ i = Len(queue) + 1
  BY <1>1, <1>3
<1> HIDE DEF q
<1>6. \A i, j \in DOMAIN q : q[i] = q[j] => i = j
  BY <1>2, <1>3, <1>4, <1>5 DEF Places
<1>7. ~Has(l) \/ l \in back
  BY DEF l
<1>8. Places(q, r, n, back)
  BY <1>1, <1>2, <1>3, <1>5, <1>6, <1>7 DEF Places
<1> QED BY <1>8 DEF q, l

LEMMA RemoveAtFacts ==
  ASSUME NEW S, NEW q \in Seq(S), NEW i \in DOMAIN q
  PROVE  /\ RemoveAt(q, i) \in Seq(S) /\ DOMAIN RemoveAt(q, i) = 1 .. Len(q) - 1
         /\ \A j \in 1 .. Len(q) - 1 : RemoveAt(q, i)[j] = q[IF j < i THEN j ELSE j + 1]
<1> DEFINE a == SubSeq(q, 1, i - 1)
           b == SubSeq(q, i + 1, Len(q))
<1>1. Len(q) \in Nat /\ i \in 1 .. Len(q) /\ \A j \in 1 .. Len(q) : q[j] \in S
  OBVIOUS
<1>2. a \in Seq(S) /\ Len(a) = i - 1 /\ \A j \in 1 .. i - 1 : a[j] = q[j]
  BY <1>1
<1>3. /\ b \in Seq(S) /\ Len(b) = Len(q) - i
      /\ \A j \in 1 .. Len(q) - i : b[j] = q[i + j]
  BY <1>1
<1> HIDE DEF a, b
<1>4. /\ a \o b \in Seq(S) /\ Len(a \o b) = Len(q) - 1
      /\ \A j \in 1 .. Len(q) - 1 : (a \o b)[j] = IF j <= i - 1 THEN a[j] ELSE b[j - (i - 1)]
  BY <1>1, <1>2, <1>3
<1>5. ASSUME NEW j \in 1 .. Len(q) - 1
      PROVE  (a \o b)[j] = q[IF j < i THEN j ELSE j + 1]
  <2>1. CASE j < i
    BY <1>1, <1>2, <1>4, <2>1
  <2>2. CASE ~(j < i)
    <3>1. /\ j - (i - 1) \in 1 .. Len(q) - i /\ i + (j - (i - 1)) = j + 1
          /\ ~(j <= i - 1)
      BY <1>1, <2>2
    <3> QED BY <1>3, <1>4, <2>2, <3>1
  <2> QED BY <2>1, <2>2
<1>6. RemoveAt(q, i) = a \o b
  BY DEF RemoveAt, a, b
<1>7. DOMAIN (a \o b) = 1 .. Len(q) - 1
  BY <1>1, <1>4
<1> QED BY <1>4, <1>5, <1>6, <1>7

LEMMA Removed ==
  ASSUME IInv, NEW r \in Slot, NEW n, NEW back, NEW i \in DOMAIN queue,
         \A o : Awaits(<<r, o>>) /\ <<r, o>> # queue[i] => o \in LeasesFor(n)
  PROVE  Places(RemoveAt(queue, i), r, n, back)
<1> DEFINE q == RemoveAt(queue, i)
           Old(j) == IF j < i THEN j ELSE j + 1
<1>1. queue \in Seq(Lease) /\ \A j, k \in DOMAIN queue : queue[j] = queue[k] => j = k
  BY DEF IInv, GatewayTypeOK, RecordsLive
<1>2. q \in Seq(Lease) /\ DOMAIN q = 1 .. Len(queue) - 1 /\ \A j \in DOMAIN q : q[j] = queue[Old(j)]
  BY <1>1, RemoveAtFacts
<1>3. /\ \A j \in DOMAIN q : Old(j) \in DOMAIN queue /\ Old(j) # i
      /\ \A j, k \in DOMAIN q : Old(j) = Old(k) => j = k
  BY <1>1, <1>2
<1>4. ASSUME NEW j \in DOMAIN queue, j # i, queue[j][1] = r PROVE queue[j][2] \in LeasesFor(n)
  <2>1. queue[j] = <<r, queue[j][2]>> /\ queue[j] # queue[i]
    BY <1>1, <1>4, LeasePairs
  <2> QED BY <2>1 DEF Awaits
<1> HIDE DEF q, Old
<1>5. ASSUME NEW j \in DOMAIN q
      PROVE  \/ q[j][1] # r /\ Awaits(q[j])
             \/ /\ q[j][1] = r /\ q[j][2] \in LeasesFor(n)
                /\ ~Has(q[j]) \/ q[j] \in back
  <2>1. PICK k \in DOMAIN queue : k # i /\ q[j] = queue[k]
    BY <1>2, <1>3
  <2>2. queue[k][1] = r => queue[k][2] \in LeasesFor(n)
    BY <1>4, <2>1
  <2>3. \/ queue[k][1] # r /\ Awaits(queue[k])
        \/ /\ queue[k][1] = r /\ queue[k][2] \in LeasesFor(n)
           /\ ~Has(queue[k]) \/ queue[k] \in back
    BY <2>2, OldPlaces
  <2> QED BY <2>1, <2>3
<1>6. Places(q, r, n, back)
  BY <1>1, <1>2, <1>3, <1>5 DEF Places
<1> QED BY <1>6 DEF q

LEMMA Concatenated ==
  ASSUME NEW S, NEW a \in Seq(S), NEW b \in Seq(S)
  PROVE  /\ a \o b \in Seq(S) /\ DOMAIN (a \o b) = 1 .. Len(a) + Len(b)
         /\ Len(a) \in Nat /\ Len(b) \in Nat
         /\ DOMAIN a = 1 .. Len(a) /\ DOMAIN b = 1 .. Len(b)
         /\ \A i \in 1 .. Len(a) + Len(b) :
              (a \o b)[i] = IF i <= Len(a) THEN a[i] ELSE b[i - Len(a)]
<1>1. Len(a) \in Nat /\ Len(b) \in Nat
  OBVIOUS
<1>2. a \o b \in Seq(S)
  OBVIOUS
<1>3. Len(a \o b) = Len(a) + Len(b)
  OBVIOUS
<1> QED BY <1>1, <1>2, <1>3

LEMMA Joined ==
  ASSUME IInv, NEW r \in Slot, NEW n, NEW back, NEW more \in Seq(Lease),
         \A i, j \in DOMAIN more : more[i] = more[j] => i = j,
         \A i \in DOMAIN more : more[i][1] = r /\ more[i][2] \in LeasesFor(n),
         \A p : ~Has(<<r, p>>) /\ ~Awaits(<<r, p>>)
  PROVE  Places(queue \o more, r, n, back)
<1> DEFINE q == queue \o more
<1>1. queue \in Seq(Lease) /\ Places(queue, r, n, back)
  BY SameQueue DEF IInv, GatewayTypeOK
<1>2. /\ q \in Seq(Lease) /\ DOMAIN q = 1 .. Len(queue) + Len(more)
      /\ Len(queue) \in Nat /\ Len(more) \in Nat
      /\ DOMAIN queue = 1 .. Len(queue) /\ DOMAIN more = 1 .. Len(more)
      /\ \A i \in 1 .. Len(queue) + Len(more) :
           q[i] = IF i <= Len(queue) THEN queue[i] ELSE more[i - Len(queue)]
  BY <1>1, Concatenated
<1> HIDE DEF q
<1>3. ASSUME NEW i \in DOMAIN more PROVE ~Has(more[i]) /\ ~Awaits(more[i])
  <2>1. more[i] \in Lease
    OBVIOUS
  <2>2. more[i] = <<r, more[i][2]>>
    BY <2>1, LeasePairs
  <2> QED BY <2>2
<1>4. ASSUME NEW i \in DOMAIN q, i <= Len(queue)
      PROVE  i \in DOMAIN queue /\ q[i] = queue[i]
  BY <1>2, <1>4
<1>5. ASSUME NEW i \in DOMAIN q, ~(i <= Len(queue))
      PROVE  i - Len(queue) \in DOMAIN more /\ q[i] = more[i - Len(queue)]
  BY <1>2, <1>5
<1>6. \A i \in DOMAIN queue, j \in DOMAIN more : queue[i] # more[j]
  BY <1>3 DEF Awaits
<1>7. \A i, j \in DOMAIN q : q[i] = q[j] => i = j
  <2> TAKE i, j \in DOMAIN q
  <2> HAVE q[i] = q[j]
  <2>1. CASE i <= Len(queue) /\ j <= Len(queue)
    BY <1>1, <1>4, <2>1 DEF Places
  <2>2. CASE ~(i <= Len(queue)) /\ ~(j <= Len(queue))
    <3>1. i - Len(queue) = j - Len(queue)
      BY <1>5, <2>2
    <3>2. i \in Int /\ j \in Int /\ Len(queue) \in Int
      BY <1>2
    <3> QED BY <3>1, <3>2
  <2>3. CASE ~(i <= Len(queue)) /\ j <= Len(queue)
    BY <1>4, <1>5, <1>6, <2>3
  <2>4. CASE i <= Len(queue) /\ ~(j <= Len(queue))
    BY <1>4, <1>5, <1>6, <2>4
  <2> QED BY <2>1, <2>2, <2>3, <2>4
<1>8. ASSUME NEW i \in DOMAIN q
      PROVE  \/ q[i][1] # r /\ Awaits(q[i])
             \/ /\ q[i][1] = r /\ q[i][2] \in LeasesFor(n)
                /\ ~Has(q[i]) \/ q[i] \in back
  <2>1. CASE i <= Len(queue)
    BY <1>1, <1>4, <2>1 DEF Places
  <2>2. CASE ~(i <= Len(queue))
    BY <1>3, <1>5, <2>2
  <2> QED BY <2>1, <2>2
<1>9. Places(q, r, n, back)
  BY <1>2, <1>7, <1>8 DEF Places
<1> QED BY <1>9 DEF q

-----------------------------------------------------------------------------
\* What a request that is answered or goes on needs of the others: nothing.
LEMMA NoneAwaited ==
  ASSUME IInv, NEW r \in Slot
  PROVE  /\ request[r].pc \in {"idle", "limit", "screen"} =>
              \A p : ~Has(<<r, p>>) /\ ~Awaits(<<r, p>>)
         /\ request[r].pc = "connect" /\ Has(<<r, "main">>) => \A p : ~Awaits(<<r, p>>)
         /\ request[r].pc = "ask" /\ Has(<<r, "caller">>) => \A p : ~Awaits(<<r, p>>)
         /\ request[r].pc \in {"gate", "handle"} => \A p : ~Awaits(<<r, p>>)
<1>1. ASSUME NEW p
      PROVE  /\ Has(<<r, p>>) => p \in LeasesFor(request[r])
             /\ Awaits(<<r, p>>) => p \in LeasesFor(request[r])
             /\ ~(Has(<<r, p>>) /\ Awaits(<<r, p>>))
  BY LeasesKnown
<1>2. request[r].pc \in {"ask", "gate", "handle"} => Has(<<r, "main">>)
  BY LeasesKnown
<1>3. /\ request[r].pc = "connect" => LeasesFor(request[r]) = {"main"}
      /\ request[r].pc = "ask" => LeasesFor(request[r]) = {"main", "caller"}
      /\ request[r].pc \in {"gate", "handle"} => LeasesFor(request[r]) = {"main"}
      /\ request[r].pc \in {"idle", "limit", "screen"} => LeasesFor(request[r]) = {}
  BY LeasesByPc
<1> QED BY <1>1, <1>2, <1>3

LEMMA Kept == ASSUME IInv, UNCHANGED lent PROVE lent' = Returned({})
BY DEF IInv, GatewayTypeOK, Returned

LEMMA Records ==
  ASSUME IInv, NEW r \in Slot
  PROVE  /\ request[r] \in RequestRecord /\ request \in [Slot -> RequestRecord]
         /\ window \in [Client -> 0 .. Limit]
BY DEF IInv, GatewayTypeOK

\* The reply of a request that reads nothing side by side.
LEMMA Answered ==
  ASSUME IInv, NEW r \in Slot, Answer(r), window' \in [Client -> 0 .. Limit],
         request[r].pc \notin {"read", "answered"},
         Places(queue', r, [request[r] EXCEPT !.pc = "answered"], {r} \X {"main", "caller"})
  PROVE  IInv'
<1> DEFINE n == [request[r] EXCEPT !.pc = "answered"]
           back == {r} \X {"main", "caller"}
<1>1. n \in RequestRecord /\ n.pc = "answered"
  BY Records DEF RequestRecord, GatewayPc
<1>2. request' = [request EXCEPT ![r] = n] /\ lent' = Returned(back)
  BY Records DEF Answer, Move
<1>3. ASSUME NEW p, Has(<<r, p>>) PROVE <<r, p>> \in back
  <2>1. p \in LeasesFor(request[r])
    BY <1>3, LeasesKnown
  <2>2. LeasesFor(request[r]) \subseteq {"main", "caller"}
    BY LeasesByPc, Records DEF RequestRecord, GatewayPc
  <2> QED BY <2>1, <2>2
<1>4. \A l \in back : l[1] = r
  OBVIOUS
<1>5. Places(queue', r, n, back)
  OBVIOUS
<1> HIDE DEF n, back
<1> QED BY <1>1, <1>2, <1>3, <1>4, <1>5, RequestMoves

LEMMA DeniedStep ==
  ASSUME IInv, NEW r \in Slot, Denied(r), window' \in [Client -> 0 .. Limit],
         request[r].pc \notin {"read", "answered"}, \A p : ~Awaits(<<r, p>>)
  PROVE  IInv'
<1>1. Places(queue, r, [request[r] EXCEPT !.pc = "answered"], {r} \X {"main", "caller"})
  BY SameQueue
<1> QED BY <1>1, Answered DEF Denied

\* A step that lends nothing and gives nothing back.
LEMMA Moved ==
  ASSUME IInv, NEW r \in Slot, NEW n \in RequestRecord, request' = [request EXCEPT ![r] = n],
         window' \in [Client -> 0 .. Limit], UNCHANGED lent,
         \A p : Has(<<r, p>>) => p \in LeasesFor(n),
         n.pc \in {"ask", "gate", "handle"} => Has(<<r, "main">>),
         Places(queue', r, n, {})
  PROVE  IInv'
<1> DEFINE back == {}
<1>1. lent' = Returned(back) /\ Places(queue', r, n, back)
  BY Kept
<1>2. \A l : l \notin back
  OBVIOUS
<1> HIDE DEF back
<1> QED BY <1>1, <1>2, RequestMoves

\* A question as the caller: the connection the request has stays, one more is asked for.
LEMMA Asked ==
  ASSUME IInv, NEW r \in Slot, NEW question \in {"firm", "record", "document"},
         AskAsCaller(r, question), UNCHANGED window,
         Has(<<r, "main">>), \A p : ~Awaits(<<r, p>>),
         \/ UNCHANGED lent /\ request[r].pc \in {"connect", "gate", "handle"}
         \/ lent' = Returned({<<r, "caller">>}) /\ request[r].pc = "ask"
  PROVE  IInv'
<1> DEFINE n == [request[r] EXCEPT !.pc = "ask", !.asks = question]
<1>1. n \in RequestRecord /\ n.pc = "ask" /\ request' = [request EXCEPT ![r] = n]
  BY Records DEF RequestRecord, GatewayPc, AskAsCaller
<1> HIDE DEF n
<1>2. LeasesFor(n) = {"main", "caller"}
  BY <1>1, LeasesByPc
<1>3. window' \in [Client -> 0 .. Limit] /\ queue' = Append(queue, <<r, "caller">>)
  BY Records DEF AskAsCaller, Connect
<1>4. \A p : Has(<<r, p>>) => p \in LeasesFor(request[r])
  BY LeasesKnown
<1>5. "caller" \in Purpose /\ "main" # "caller"
  BY DEF Purpose
<1>6. CASE UNCHANGED lent /\ request[r].pc \in {"connect", "gate", "handle"}
  <2>1. LeasesFor(request[r]) = {"main"}
    BY <1>6, LeasesByPc
  <2>2. Places(queue', r, n, {})
    BY <1>2, <1>3, <1>4, <1>5, <2>1, Appended
  <2> QED BY <1>1, <1>2, <1>3, <1>4, <1>6, <2>1, <2>2, Moved
<1>7. CASE lent' = Returned({<<r, "caller">>}) /\ request[r].pc = "ask"
  <2>1. LeasesFor(request[r]) = {"main", "caller"}
    BY <1>7, LeasesByPc
  <2> DEFINE back == {<<r, "caller">>}
  <2>2. <<r, "caller">> \in back /\ <<r, "main">> \notin back /\ \A l \in back : l[1] = r
    BY <1>5
  <2>3. lent' = Returned(back)
    BY <1>7
  <2> HIDE DEF back
  <2>4. Places(queue', r, n, back)
    BY <1>2, <1>3, <1>5, <2>2, Appended
  <2> QED BY <1>1, <1>2, <1>3, <1>4, <2>1, <2>2, <2>3, <2>4, RequestMoves
<1> QED BY <1>6, <1>7

-----------------------------------------------------------------------------
\* The actions, one by one.
LEMMA ArriveStep ==
  ASSUME IInv, NEW r \in Slot, NEW kind \in Kinds, NEW k \in Client,
         NEW call \in Calls \cup {NoCall}, NEW role \in Roles \cup {None}, NEW paid \in BOOLEAN,
         Arrive(r, kind, k, call, role, paid)
  PROVE  IInv'
<1> DEFINE n == [Quiet EXCEPT !.kind = kind, !.client = k, !.call = call, !.role = role,
                   !.paid = paid,
                   !.pc = IF kind \in {"webhook", "function"} THEN "limit" ELSE "screen"]
<1>1. n \in RequestRecord /\ n.pc \in {"limit", "screen"}
  BY GatewayAssumption DEF Quiet, RequestRecord, GatewayPc
<1>2. request' = [request EXCEPT ![r] = n] /\ UNCHANGED <<window, lent, queue>>
  BY DEF Arrive
<1>3. \A p : ~Has(<<r, p>>) /\ ~Awaits(<<r, p>>)
  BY NoneAwaited DEF Arrive, At
<1> HIDE DEF n
<1>4. Places(queue', r, n, {})
  BY <1>2, <1>3, SameQueue
<1> QED BY <1>1, <1>2, <1>3, <1>4, Records, Moved

LEMMA ThrottleStep == ASSUME IInv, NEW r \in Slot, Throttle(r) PROVE IInv'
<1> DEFINE k == request[r].client
<1>1. \A p : ~Has(<<r, p>>) /\ ~Awaits(<<r, p>>)
  BY NoneAwaited DEF Throttle, At
<1>2. CASE window[k] < Limit
  <2> DEFINE n == [request[r] EXCEPT !.pc = "screen"]
  <2>1. n \in RequestRecord /\ n.pc = "screen"
    BY Records DEF RequestRecord, GatewayPc
  <2>2. request' = [request EXCEPT ![r] = n] /\ UNCHANGED <<lent, queue>>
    BY <1>2, Records DEF Throttle, Move
  <2>3. window' \in [Client -> 0 .. Limit]
    <3>1. window' = [window EXCEPT ![k] = window[k] + 1]
      BY <1>2 DEF Throttle
    <3>2. window' = [c \in Client |-> IF c = k THEN window[c] + 1 ELSE window[c]]
      BY <3>1, Records
    <3>3. ASSUME NEW c \in Client
          PROVE  (IF c = k THEN window[c] + 1 ELSE window[c]) \in 0 .. Limit
      <4>1. window[c] \in 0 .. Limit /\ Limit \in Nat
        BY Records, GatewayAssumption
      <4> QED BY <1>2, <4>1
    <3> HIDE DEF k
    <3> QED BY <3>2, <3>3
  <2> HIDE DEF n
  <2>4. Places(queue', r, n, {})
    BY <1>1, <2>2, SameQueue
  <2> QED BY <1>1, <2>1, <2>2, <2>3, <2>4, Moved
<1>3. CASE ~(window[k] < Limit)
  <2>1. Denied(r) /\ UNCHANGED window /\ request[r].pc = "limit"
    BY <1>3 DEF Throttle, Denied, At
  <2> QED BY <1>1, <2>1, Records, DeniedStep
<1> QED BY <1>2, <1>3

LEMMA WindowElapsesStep == ASSUME IInv, NEW k \in Client, WindowElapses(k) PROVE IInv'
<1>1. UNCHANGED <<request, lent, queue>>
  BY DEF WindowElapses
<1>2. GatewayTypeOK'
  BY <1>1, GatewayAssumption DEF IInv, GatewayTypeOK, WindowElapses
<1>3. RecordsLive'
  BY <1>1 DEF IInv, RecordsLive, Fits, Has
<1> QED BY <1>2, <1>3 DEF IInv

LEMMA RefuseStep == ASSUME IInv, NEW r \in Slot, Refuse(r) PROVE IInv'
<1>1. Denied(r) /\ UNCHANGED window /\ request[r].pc = "screen"
  BY DEF Refuse, Denied, At
<1> QED BY <1>1, NoneAwaited, Records, DeniedStep

LEMMA EnterStep == ASSUME IInv, NEW r \in Slot, Enter(r) PROVE IInv'
<1> DEFINE n == [request[r] EXCEPT !.pc = "connect"]
<1>1. n \in RequestRecord /\ n.pc = "connect"
  BY Records DEF RequestRecord, GatewayPc
<1>2. /\ request' = [request EXCEPT ![r] = n] /\ UNCHANGED <<window, lent>>
      /\ queue' = Append(queue, <<r, "main">>)
  BY Records DEF Enter, Move, Connect
<1>3. \A p : ~Has(<<r, p>>) /\ ~Awaits(<<r, p>>)
  BY NoneAwaited DEF Enter, At
<1> HIDE DEF n
<1>4. LeasesFor(n) = {"main"}
  BY <1>1, LeasesByPc
<1>5. Places(queue', r, n, {})
  BY <1>2, <1>3, <1>4, Appended DEF Purpose
<1> QED BY <1>1, <1>2, <1>3, <1>5, Records, Moved

LEMMA EnterReadsStep == ASSUME IInv, NEW r \in Slot, EnterReads(r) PROVE IInv'
<1> DEFINE parts == IF request[r].kind = "ready" THEN <<Probe>> ELSE Sections
           many(s) == IF ~ \E i \in DOMAIN parts : parts[i] = s THEN 0
                      ELSE IF s = Probe THEN 1 ELSE Queries[s]
           left == [s \in Section \cup {Probe} |-> many(s)]
           n == [request[r] EXCEPT !.pc = "read", !.left = left]
           more == [i \in DOMAIN parts |-> <<r, parts[i]>>]
<1>1. /\ parts \in Seq(Section \cup {Probe})
      /\ \A i, j \in DOMAIN parts : parts[i] = parts[j] => i = j
  <2>1. CASE request[r].kind = "ready"
    BY <2>1
  <2>2. CASE request[r].kind # "ready"
    <3>1. Sections \in Seq(Section \cup {Probe})
      BY GatewayAssumption
    <3> QED BY <2>2, <3>1, GatewayAssumption
  <2> QED BY <2>1, <2>2
<1>2. /\ request' = [request EXCEPT ![r].pc = "read", ![r].left = left]
      /\ queue' = queue \o more /\ UNCHANGED <<window, lent>>
  BY DEF EnterReads
<1>3. \A p : ~Has(<<r, p>>) /\ ~Awaits(<<r, p>>)
  BY NoneAwaited DEF EnterReads, At
<1> HIDE DEF parts
<1>4. \A s \in Section \cup {Probe} : many(s) \in Nat
  BY GatewayAssumption
<1>5. \A i \in DOMAIN parts : parts[i] \in Section \cup {Probe}
  BY <1>1
<1>6. \A i \in DOMAIN parts : many(parts[i]) > 0
  <2> TAKE i \in DOMAIN parts
  <2>1. CASE parts[i] = Probe
    BY <2>1
  <2>2. CASE parts[i] # Probe
    <3>1. Queries[parts[i]] \in Nat \ {0}
      BY <1>5, <2>2, GatewayAssumption
    <3> QED BY <2>2, <3>1
  <2> QED BY <2>1, <2>2
<1> HIDE DEF many
<1>7. left \in [Section \cup {Probe} -> Nat] /\ \A i \in DOMAIN parts : left[parts[i]] > 0
  BY <1>4, <1>5, <1>6
<1> HIDE DEF left
<1>8. n \in RequestRecord /\ n.pc = "read" /\ n.left = left
  BY <1>7, Records DEF RequestRecord, GatewayPc
<1>9. request' = [request EXCEPT ![r] = n]
  BY <1>2, Records
<1> HIDE DEF n
<1>10. \A i \in DOMAIN parts : parts[i] \in LeasesFor(n)
  BY <1>5, <1>7, <1>8, LeasesByPc
<1>11. /\ more \in Seq(Lease) /\ DOMAIN more = DOMAIN parts
       /\ \A i \in DOMAIN more : more[i] = <<r, parts[i]>>
  <2>1. \A i \in DOMAIN parts : <<r, parts[i]>> \in Lease
    BY <1>5, LeasePairs, Names
  <2>2. DOMAIN parts = 1 .. Len(parts) /\ Len(parts) \in Nat
    BY <1>1
  <2> QED BY <2>1, <2>2
<1> HIDE DEF more
<1>12. /\ \A i, j \in DOMAIN more : more[i] = more[j] => i = j
       /\ \A i \in DOMAIN more : more[i][1] = r /\ more[i][2] \in LeasesFor(n)
  BY <1>1, <1>10, <1>11
<1>13. Places(queue', r, n, {})
  BY <1>2, <1>3, <1>11, <1>12, Joined
<1> QED BY <1>2, <1>3, <1>8, <1>9, <1>13, Records, Moved

LEMMA GrantStep == ASSUME IInv, NEW c \in Connection, Grant(c) PROVE IInv'
<1> DEFINE l == Head(queue)
<1>1. /\ request \in [Slot -> RequestRecord] /\ lent \in [Connection -> Lease \cup {Free}]
      /\ queue \in Seq(Lease) /\ window \in [Client -> 0 .. Limit]
  BY DEF IInv, GatewayTypeOK
<1>2. queue # <<>> /\ lent[c] = Free /\ UNCHANGED <<window, request>>
  BY DEF Grant
<1>3. lent' = [lent EXCEPT ![c] = l] /\ queue' = Tail(queue)
  BY DEF Grant
<1>4. /\ 1 \in DOMAIN queue /\ l = queue[1] /\ l \in Lease
      /\ Tail(queue) \in Seq(Lease)
      /\ \A i \in DOMAIN Tail(queue) : i + 1 \in DOMAIN queue /\ Tail(queue)[i] = queue[i + 1]
      /\ DOMAIN Tail(queue) \subseteq Nat \ {0}
  BY <1>1, <1>2
<1> HIDE DEF l
<1>5. GatewayTypeOK'
  BY <1>1, <1>2, <1>3, <1>4 DEF GatewayTypeOK
<1>6. /\ lent'[c] = l /\ \A d \in Connection : d # c => lent'[d] = lent[d]
      /\ \A d \in Connection : lent[d] # l
      /\ \A i \in DOMAIN queue' : i + 1 \in DOMAIN queue /\ queue'[i] = queue[i + 1]
                                  /\ i + 1 # 1 /\ i \in Nat
  BY <1>1, <1>3, <1>4 DEF IInv, RecordsLive
<1>7. \A i \in DOMAIN queue' : queue'[i] # l
  BY <1>4, <1>6 DEF IInv, RecordsLive
<1>8. \A d \in Connection : lent'[d] # Free => lent'[d][2] \in LeasesFor(request'[lent'[d][1]])
  BY <1>2, <1>4, <1>6 DEF IInv, RecordsLive, Fits
<1>9. \A i \in DOMAIN queue' : queue'[i][2] \in LeasesFor(request'[queue'[i][1]])
  BY <1>2, <1>6 DEF IInv, RecordsLive, Fits
<1>10. \A d, e \in Connection : lent'[d] = lent'[e] /\ lent'[d] # Free => d = e
  BY <1>6 DEF IInv, RecordsLive
<1>11. \A i, j \in DOMAIN queue' : queue'[i] = queue'[j] => i = j
  <2> TAKE i, j \in DOMAIN queue'
  <2> HAVE queue'[i] = queue'[j]
  <2>1. i + 1 = j + 1
    BY <1>6 DEF IInv, RecordsLive
  <2> QED BY <1>6, <2>1
<1>12. \A d \in Connection, i \in DOMAIN queue' : lent'[d] # queue'[i]
  BY <1>6, <1>7 DEF IInv, RecordsLive
<1>13. ASSUME NEW q \in Slot, request'[q].pc \in {"ask", "gate", "handle"}
       PROVE  \E d \in Connection : lent'[d] = <<q, "main">>
  <2>1. PICK d \in Connection : lent[d] = <<q, "main">>
    BY <1>2, <1>13 DEF IInv, RecordsLive, Has
  <2>2. <<q, "main">> # Free
    BY DEF Free
  <2> QED BY <1>2, <1>6, <2>1, <2>2
<1> QED
  BY <1>5, <1>8, <1>9, <1>10, <1>11, <1>12, <1>13 DEF IInv, RecordsLive, Fits, Has

\* A step of a section: what is left of the others stays.
LEMMA ReadersKnown ==
  ASSUME IInv, NEW r \in Slot, NEW s \in Section \cup {Probe}, Has(<<r, s>>) \/ Awaits(<<r, s>>)
  PROVE  /\ request[r].pc \in {"read", "answered"}
         /\ request[r].left \in [Section \cup {Probe} -> Nat] /\ request[r].left[s] > 0
         /\ \A p : Has(<<r, p>>) \/ Awaits(<<r, p>>) =>
              p \in Section \cup {Probe} /\ request[r].left[p] > 0
<1>1. s \in LeasesFor(request[r])
  BY LeasesKnown
<1>2. request[r].pc \in GatewayPc /\ request[r].left \in [Section \cup {Probe} -> Nat]
  BY Records DEF RequestRecord
<1>3. request[r].pc \in {"read", "answered"}
  BY <1>1, <1>2, LeasesByPc, Names DEF GatewayPc
<1>4. LeasesFor(request[r]) = {t \in Section \cup {Probe} : request[r].left[t] > 0}
  BY <1>3, LeasesByPc
<1> QED BY <1>1, <1>2, <1>3, <1>4, LeasesKnown

LEMMA ConnectFailsStep == ASSUME IInv, NEW i \in DOMAIN queue, ConnectFails(i) PROVE IInv'
<1> DEFINE r == queue[i][1]
           p == queue[i][2]
<1>1. queue[i] \in Lease /\ queue[i] = <<r, p>> /\ r \in Slot /\ p \in Purpose
  <2>1. queue[i] \in Lease
    BY DEF IInv, GatewayTypeOK
  <2> QED BY <2>1, LeasePairs
<1>2. queue' = RemoveAt(queue, i) /\ UNCHANGED window
  BY DEF ConnectFails
<1>3. CASE p \in {"main", "caller"}
  <2>1. Answer(r)
    BY <1>3 DEF ConnectFails
  <2> HIDE DEF r, p
  <2>2. Awaits(<<r, p>>)
    BY <1>1 DEF Awaits
  <2>3. request[r].pc \in {"connect", "ask", "gate", "handle"}
    <3>1. p \in LeasesFor(request[r]) /\ request[r].pc \in GatewayPc
      BY <1>1, <2>2, LeasesKnown, Records DEF RequestRecord
    <3> QED BY <1>3, <3>1, LeasesByPc, Names DEF GatewayPc
  <2>4. ASSUME NEW o, Awaits(<<r, o>>), <<r, o>> # queue[i] PROVE FALSE
    <3>1. /\ o \in LeasesFor(request[r]) /\ p \in LeasesFor(request[r])
          /\ ~(Has(<<r, o>>) /\ Awaits(<<r, o>>)) /\ ~(Has(<<r, p>>) /\ Awaits(<<r, p>>))
          /\ request[r].pc \in {"ask", "gate", "handle"} => Has(<<r, "main">>)
      BY <1>1, <2>2, <2>4, LeasesKnown
    <3>2. o # p
      BY <1>1, <2>4
    <3>3. CASE request[r].pc \in {"connect", "gate", "handle"}
      BY <3>1, <3>2, <3>3, LeasesByPc
    <3>4. CASE request[r].pc = "ask"
      <4>1. o \in {"main", "caller"} /\ p \in {"main", "caller"}
        BY <3>1, <3>4, LeasesByPc
      <4> QED BY <2>2, <2>4, <3>1, <3>2, <3>4, <4>1
    <3> QED BY <2>3, <3>3, <3>4
  <2>5. Places(queue', r, [request[r] EXCEPT !.pc = "answered"], {r} \X {"main", "caller"})
    BY <1>1, <1>2, <2>4, Removed
  <2>6. request[r].pc \notin {"read", "answered"} /\ window' \in [Client -> 0 .. Limit]
    BY <1>1, <1>2, <2>3, Records
  <2> QED BY <1>1, <2>1, <2>5, <2>6, Answered
<1>4. CASE p \notin {"main", "caller"}
  <2> DEFINE n == [request[r] EXCEPT !.pc = "answered", !.left[p] = 0]
  <2>1. /\ request' = [request EXCEPT ![r].pc = "answered", ![r].left[p] = 0]
        /\ UNCHANGED lent
    BY <1>4 DEF ConnectFails
  <2> HIDE DEF r, p
  <2>2. p \in Section \cup {Probe} /\ Awaits(<<r, p>>)
    BY <1>1, <1>4 DEF Purpose, Awaits
  <2>3. /\ request[r].left \in [Section \cup {Probe} -> Nat]
        /\ \A o : Has(<<r, o>>) \/ Awaits(<<r, o>>) =>
             o \in Section \cup {Probe} /\ request[r].left[o] > 0
        /\ ~Has(<<r, p>>)
    BY <1>1, <2>2, ReadersKnown, LeasesKnown
  <2>4. /\ n \in RequestRecord /\ n.pc = "answered"
        /\ n.left = [request[r].left EXCEPT ![p] = 0]
        /\ request' = [request EXCEPT ![r] = n]
    BY <1>1, <2>1, <2>2, <2>3, Records DEF RequestRecord, GatewayPc
  <2> HIDE DEF n
  <2>5. ASSUME NEW o, Has(<<r, o>>) \/ Awaits(<<r, o>>), o # p PROVE o \in LeasesFor(n)
    <3>1. o \in Section \cup {Probe} /\ request[r].left[o] > 0
      BY <2>3, <2>5
    <3>2. n.left[o] = request[r].left[o]
      BY <2>3, <2>4, <2>5, <3>1
    <3> QED BY <2>4, <3>1, <3>2, LeasesByPc
  <2>6. \A o : Awaits(<<r, o>>) /\ <<r, o>> # queue[i] => o \in LeasesFor(n)
    BY <1>1, <2>5
  <2>7. Places(queue', r, n, {})
    BY <1>1, <1>2, <2>6, Removed
  <2>8. \A o : Has(<<r, o>>) => o \in LeasesFor(n)
    BY <2>3, <2>5
  <2> QED BY <1>1, <1>2, <2>1, <2>4, <2>7, <2>8, Records, Moved
<1> QED BY <1>3, <1>4

LEMMA ReadNextStep ==
  ASSUME IInv, NEW r \in Slot, NEW s \in Section \cup {Probe}, ReadNext(r, s)
  PROVE  IInv'
<1> DEFINE rest == [request[r].left EXCEPT ![s] = @ - 1]
           pc == IF \A t \in DOMAIN rest : rest[t] = 0 THEN "answered" ELSE request[r].pc
           n == [request[r] EXCEPT !.left = rest, !.pc = pc]
           back == {<<r, s>>}
<1>1. Has(<<r, s>>) /\ lent' = Returned(back) /\ UNCHANGED window
  BY DEF ReadNext
<1>2. /\ request[r].pc \in {"read", "answered"} /\ ~Awaits(<<r, s>>)
      /\ request[r].left \in [Section \cup {Probe} -> Nat] /\ request[r].left[s] > 0
      /\ \A p : Has(<<r, p>>) \/ Awaits(<<r, p>>) =>
           p \in Section \cup {Probe} /\ request[r].left[p] > 0
  BY <1>1, ReadersKnown, LeasesKnown
<1>3. /\ rest \in [Section \cup {Probe} -> Nat]
      /\ \A p \in Section \cup {Probe} : p # s => rest[p] = request[r].left[p]
  BY <1>2
<1>4. request' = [request EXCEPT ![r].left = rest, ![r].pc = pc]
  BY Records DEF ReadNext
<1>5. queue' = IF rest[s] > 0 THEN Append(queue, <<r, s>>) ELSE queue
  BY DEF ReadNext, Connect
<1> HIDE DEF rest
<1>6. pc \in {"read", "answered"}
  BY <1>2
<1> HIDE DEF pc
<1>7. n \in RequestRecord /\ n.pc = pc /\ n.left = rest /\ request' = [request EXCEPT ![r] = n]
  <2>1. rest \in [Section \cup {Probe} -> Nat] /\ pc \in GatewayPc
    BY <1>3, <1>6 DEF GatewayPc
  <2>2. n \in RequestRecord /\ n.pc = pc /\ n.left = rest
    BY <2>1, Records DEF RequestRecord
  <2>3. request' = [request EXCEPT ![r] = n]
    BY <1>4, Records
  <2> HIDE DEF n
  <2> QED BY <2>2, <2>3
<1> HIDE DEF n
<1>8. LeasesFor(n) = {t \in Section \cup {Probe} : rest[t] > 0}
  BY <1>6, <1>7, LeasesByPc
<1>9. \A p : (Has(<<r, p>>) \/ Awaits(<<r, p>>)) /\ p # s => p \in LeasesFor(n)
  BY <1>2, <1>3, <1>8
<1>10. \A p : Awaits(<<r, p>>) => p \in LeasesFor(n)
  BY <1>2, <1>9
<1>11. <<r, s>> \in back /\ \A l \in back : l[1] = r
  OBVIOUS
<1>12. \A p : Has(<<r, p>>) /\ <<r, p>> \notin back => p \in LeasesFor(n)
  BY <1>9
<1> HIDE DEF back
<1>13. Places(queue', r, n, back)
  <2>1. CASE rest[s] > 0
    BY <1>2, <1>5, <1>8, <1>10, <1>11, <2>1, Appended, Names
  <2>2. CASE ~(rest[s] > 0)
    BY <1>5, <1>10, <2>2, SameQueue
  <2> QED BY <2>1, <2>2
<1> QED BY <1>1, <1>6, <1>7, <1>11, <1>12, <1>13, Records, RequestMoves

LEMMA ReadFailsStep ==
  ASSUME IInv, NEW r \in Slot, NEW s \in Section \cup {Probe}, ReadFails(r, s)
  PROVE  IInv'
<1> DEFINE n == [request[r] EXCEPT !.pc = "answered", !.left[s] = 0]
           back == {<<r, s>>}
<1>1. Has(<<r, s>>) /\ lent' = Returned(back) /\ UNCHANGED <<window, queue>>
  BY DEF ReadFails
<1>2. /\ ~Awaits(<<r, s>>) /\ request[r].left \in [Section \cup {Probe} -> Nat]
      /\ \A p : Has(<<r, p>>) \/ Awaits(<<r, p>>) =>
           p \in Section \cup {Probe} /\ request[r].left[p] > 0
  BY <1>1, ReadersKnown, LeasesKnown
<1>3. /\ n \in RequestRecord /\ n.pc = "answered"
      /\ n.left = [request[r].left EXCEPT ![s] = 0]
      /\ request' = [request EXCEPT ![r] = n]
  BY <1>2, Records DEF ReadFails, RequestRecord, GatewayPc
<1> HIDE DEF n
<1>4. \A p : (Has(<<r, p>>) \/ Awaits(<<r, p>>)) /\ p # s => p \in LeasesFor(n)
  BY <1>2, <1>3, LeasesByPc
<1>5. \A l \in back : l[1] = r
  OBVIOUS
<1>6. \A p : Has(<<r, p>>) /\ <<r, p>> \notin back => p \in LeasesFor(n)
  BY <1>4
<1> HIDE DEF back
<1>7. Places(queue', r, n, back)
  BY <1>1, <1>2, <1>4, SameQueue
<1> QED BY <1>1, <1>3, <1>5, <1>6, <1>7, Records, RequestMoves

LEMMA ReadTimesOutStep == ASSUME IInv, NEW r \in Slot, ReadTimesOut(r) PROVE IInv'
<1> DEFINE n == [request[r] EXCEPT !.pc = "answered"]
<1>1. n \in RequestRecord /\ n.pc = "answered" /\ n.left = request[r].left
  BY Records DEF RequestRecord, GatewayPc
<1>2. request' = [request EXCEPT ![r] = n] /\ UNCHANGED <<window, lent, queue>>
  BY Records DEF ReadTimesOut, Move
<1> HIDE DEF n
<1>3. LeasesFor(n) = LeasesFor(request[r])
  BY <1>1, LeasesByPc DEF ReadTimesOut, At
<1>4. \A p : Has(<<r, p>>) \/ Awaits(<<r, p>>) => p \in LeasesFor(n)
  BY <1>3, LeasesKnown
<1>5. Places(queue', r, n, {})
  BY <1>2, <1>4, SameQueue
<1> QED BY <1>1, <1>2, <1>4, <1>5, Records, Moved

\* A request that holds what it needs goes on in its next state, or is denied.
LEMMA PassesStep ==
  ASSUME IInv, NEW r \in Slot, NEW pc \in {"gate", "handle"}, Move(r, pc),
         UNCHANGED <<window, queue>>, Has(<<r, "main">>), \A p : ~Awaits(<<r, p>>),
         \/ UNCHANGED lent /\ request[r].pc \in {"connect", "gate", "handle"}
         \/ lent' = Returned({<<r, "caller">>}) /\ request[r].pc = "ask"
  PROVE  IInv'
<1> DEFINE n == [request[r] EXCEPT !.pc = pc]
<1>1. n \in RequestRecord /\ n.pc = pc /\ request' = [request EXCEPT ![r] = n]
  BY Records DEF RequestRecord, GatewayPc, Move
<1> HIDE DEF n
<1>2. LeasesFor(n) = {"main"} /\ window' \in [Client -> 0 .. Limit]
  BY <1>1, LeasesByPc, Records
<1>3. \A back : Places(queue', r, n, back)
  BY SameQueue
<1>4. CASE UNCHANGED lent /\ request[r].pc \in {"connect", "gate", "handle"}
  <2>1. \A p : Has(<<r, p>>) => p \in LeasesFor(n)
    BY <1>2, <1>4, LeasesByPc, LeasesKnown
  <2> QED BY <1>1, <1>2, <1>3, <1>4, <2>1, Moved
<1>5. CASE lent' = Returned({<<r, "caller">>}) /\ request[r].pc = "ask"
  <2> DEFINE back == {<<r, "caller">>}
  <2>1. <<r, "main">> \notin back /\ lent' = Returned(back) /\ \A l \in back : l[1] = r
    BY <1>5
  <2>2. \A p : Has(<<r, p>>) /\ <<r, p>> \notin back => p \in LeasesFor(n)
    BY <1>2, <1>5, LeasesByPc, LeasesKnown
  <2> HIDE DEF back
  <2> QED BY <1>1, <1>2, <1>3, <2>1, <2>2, RequestMoves
<1> QED BY <1>4, <1>5

LEMMA ServeStep == ASSUME IInv, NEW r \in Slot, Serve(r) PROVE IInv'
<1>1. Denied(r) /\ UNCHANGED window /\ request[r].pc = "connect" /\ Has(<<r, "main">>)
  BY DEF Serve, Denied, At
<1> QED BY <1>1, NoneAwaited, Records, DeniedStep

LEMMA AuthorizeStep == ASSUME IInv, NEW r \in Slot, Authorize(r) PROVE IInv'
<1>1. request[r].pc = "connect" /\ Has(<<r, "main">>) /\ UNCHANGED window
  BY DEF Authorize, At
<1>2. \A p : ~Awaits(<<r, p>>)
  BY <1>1, NoneAwaited
<1>3. CASE \E q \in {"firm", "record"} : AskAsCaller(r, q) /\ UNCHANGED lent
  BY <1>1, <1>2, <1>3, Asked
<1>4. CASE Passes(r)
  BY <1>1, <1>2, <1>4, PassesStep DEF Passes
<1>5. CASE Denied(r)
  BY <1>1, <1>2, <1>5, Records, DeniedStep
<1> QED BY <1>3, <1>4, <1>5 DEF Authorize

LEMMA FirmKnownStep == ASSUME IInv, NEW r \in Slot, FirmKnown(r) PROVE IInv'
<1>1. request[r].pc = "ask" /\ Has(<<r, "caller">>) /\ UNCHANGED window
  BY DEF FirmKnown, At
<1>2. (\A p : ~Awaits(<<r, p>>)) /\ Has(<<r, "main">>)
  BY <1>1, NoneAwaited, LeasesKnown
<1>3. CASE ReturnCaller(r) /\ AskAsCaller(r, "record")
  BY <1>1, <1>2, <1>3, Asked DEF ReturnCaller
<1>4. CASE ReturnCaller(r) /\ Move(r, "gate") /\ UNCHANGED queue
  BY <1>1, <1>2, <1>4, PassesStep DEF ReturnCaller
<1>5. CASE Denied(r)
  BY <1>1, <1>2, <1>5, Records, DeniedStep
<1> QED BY <1>3, <1>4, <1>5 DEF FirmKnown

LEMMA RecordSeenStep == ASSUME IInv, NEW r \in Slot, RecordSeen(r) PROVE IInv'
<1>1. request[r].pc = "ask" /\ Has(<<r, "caller">>) /\ UNCHANGED window
  BY DEF RecordSeen, At
<1>2. (\A p : ~Awaits(<<r, p>>)) /\ Has(<<r, "main">>)
  BY <1>1, NoneAwaited, LeasesKnown
<1>3. CASE ReturnCaller(r) /\ Move(r, "gate") /\ UNCHANGED queue
  BY <1>1, <1>2, <1>3, PassesStep DEF ReturnCaller
<1>4. CASE Denied(r)
  BY <1>1, <1>2, <1>4, Records, DeniedStep
<1> QED BY <1>3, <1>4 DEF RecordSeen

LEMMA GateStep == ASSUME IInv, NEW r \in Slot, Gate(r) PROVE IInv'
<1>1. request[r].pc = "gate" /\ UNCHANGED window
  BY DEF Gate, At
<1>2. (\A p : ~Awaits(<<r, p>>)) /\ Has(<<r, "main">>)
  BY <1>1, NoneAwaited, LeasesKnown
<1>3. CASE Move(r, "handle") /\ UNCHANGED <<lent, queue>>
  BY <1>1, <1>2, <1>3, PassesStep
<1>4. CASE Denied(r)
  BY <1>1, <1>2, <1>4, Records, DeniedStep
<1> QED BY <1>3, <1>4 DEF Gate

LEMMA HandleStep == ASSUME IInv, NEW r \in Slot, Handle(r) PROVE IInv'
<1>1. request[r].pc = "handle" /\ UNCHANGED window
  BY DEF Handle, At
<1>2. (\A p : ~Awaits(<<r, p>>)) /\ Has(<<r, "main">>)
  BY <1>1, NoneAwaited, LeasesKnown
<1>3. CASE AskAsCaller(r, "document") /\ UNCHANGED lent
  BY <1>1, <1>2, <1>3, Asked
<1>4. CASE Denied(r)
  BY <1>1, <1>2, <1>4, Records, DeniedStep
<1> QED BY <1>3, <1>4 DEF Handle

LEMMA RenderedStep == ASSUME IInv, NEW r \in Slot, Rendered(r) PROVE IInv'
<1>1. Denied(r) /\ UNCHANGED window /\ request[r].pc = "ask" /\ Has(<<r, "caller">>)
  BY DEF Rendered, At
<1> QED BY <1>1, NoneAwaited, Records, DeniedStep

LEMMA CloseStep == ASSUME IInv, NEW r \in Slot, Close(r) PROVE IInv'
<1>1. request' = [request EXCEPT ![r] = Quiet] /\ UNCHANGED <<window, lent, queue>>
  BY DEF Close
<1>2. Quiet \in RequestRecord /\ Quiet.pc = "idle"
  BY DEF Quiet, RequestRecord, GatewayPc
<1>3. ASSUME NEW p PROVE ~Has(<<r, p>>) /\ ~Awaits(<<r, p>>)
  <2>1. CASE p \in Purpose
    BY <2>1 DEF Close
  <2>2. CASE p \notin Purpose
    <3>1. LeasesFor(request[r]) = {t \in Section \cup {Probe} : request[r].left[t] > 0}
      BY LeasesByPc DEF Close, At
    <3> QED BY <2>2, <3>1, LeasesKnown, Names
  <2> QED BY <2>1, <2>2
<1>4. Places(queue', r, Quiet, {})
  BY <1>1, <1>3, SameQueue
<1> QED BY <1>1, <1>2, <1>3, <1>4, Records, Moved

-----------------------------------------------------------------------------
LEMMA InitInv == GatewayInit => IInv
<1> SUFFICES ASSUME GatewayInit PROVE IInv
  OBVIOUS
<1>1. Quiet \in RequestRecord /\ Quiet.pc = "idle"
  BY DEF Quiet, RequestRecord, GatewayPc
<1>2. \A r \in Slot : request[r].pc \notin {"ask", "gate", "handle"}
  BY <1>1 DEF GatewayInit
<1>3. GatewayTypeOK
  BY <1>1, GatewayAssumption DEF GatewayInit, GatewayTypeOK
<1>4. RecordsLive
  BY <1>2 DEF GatewayInit, RecordsLive, Free
<1> QED BY <1>3, <1>4 DEF IInv

LEMMA NextInv == IInv /\ [GatewayNext]_gatewayVars => IInv'
<1> SUFFICES ASSUME IInv, [GatewayNext]_gatewayVars PROVE IInv'
  OBVIOUS
<1>1. CASE \E r \in Slot, kind \in Kinds, k \in Client, call \in Calls \cup {NoCall},
              role \in Roles \cup {None}, paid \in BOOLEAN : Arrive(r, kind, k, call, role, paid)
  BY <1>1, ArriveStep
<1>2. CASE \E k \in Client : WindowElapses(k)
  BY <1>2, WindowElapsesStep
<1>3. CASE \E c \in Connection : Grant(c)
  BY <1>3, GrantStep
<1>4. ASSUME NEW r \in Slot, RequestStep(r) PROVE IInv'
  BY <1>4, ThrottleStep, RefuseStep, EnterStep, EnterReadsStep, ServeStep, AuthorizeStep,
     FirmKnownStep, RecordSeenStep, GateStep, HandleStep, RenderedStep, ReadNextStep,
     ReadFailsStep
  DEF RequestStep
<1>5. ASSUME NEW r \in Slot, GoesOn(r) \/ Close(r) PROVE IInv'
  BY <1>4, <1>5, ConnectFailsStep, ReadTimesOutStep, CloseStep DEF GoesOn, Waiting
<1>6. CASE UNCHANGED gatewayVars
  BY <1>6
  DEF gatewayVars, IInv, GatewayTypeOK, RecordsLive, Fits, Has
<1> QED BY <1>1, <1>2, <1>3, <1>5, <1>6 DEF GatewayNext

THEOREM Invariance == GatewaySpec => []IInv
BY InitInv, NextInv, PTL DEF GatewaySpec

\* Every count stays within the limit, every request is in a state the code has, and
\* the pool and its queue hold leases (server/ratelimit.ts, server/http.ts).
THEOREM TypeCorrect == GatewaySpec => []GatewayTypeOK
<1>1. IInv => GatewayTypeOK
  BY DEF IInv
<1> QED BY <1>1, Invariance, PTL

\* No connection leaks and none is asked for twice, however a request ends: with its
\* reply, a refusal, a connect that timed out or a section that failed, for any number
\* of requests, connections and sections (server/functions.ts, server/http.ts).
THEOREM Leases == GatewaySpec => []LeasesLive
<1>1. IInv => LeasesLive
  BY LiveByRecord DEF IInv
<1> QED BY <1>1, Invariance, PTL
=============================================================================
