------------------------------ MODULE Gateway ------------------------------
(***************************************************************************)
(* The HTTP service (server/http.ts, server/ratelimit.ts) and the gateway  *)
(* it mounts (server/functions.ts): a request is throttled, screened, lent *)
(* connections of one small pool, authorized, gated and answered.  A       *)
(* function call keeps one connection and borrows a second for every       *)
(* question it asks as the caller, so calls can wait for each other; the   *)
(* connect timeout is what ends that.                                      *)
(*                                                                         *)
(* The pool (node-postgres) is external: it lends what is free in the      *)
(* order of its queue and forgets a waiter that timed out.                 *)
(***************************************************************************)
EXTENDS Registry, Integers, Sequences, SequencesExt

CONSTANTS
    Slot,        \* requests in flight
    Client,      \* rate-limit keys: a limiter (functions or webhooks) and an address
    Connection,  \* the pool
    Limit,       \* requests of a client in a window
    Sections,    \* what /internal/metrics reads side by side, in the order it starts them
    Queries,     \* how many queries each of them makes, one after another
    Calls,       \* the functions that are called
    Roles,       \* the roles callers have; "none": no profile
    Kinds        \* the routes that are called

Free == <<>>
None == "none"
Probe == "probe"
Kind == {"ready", "metrics", "download", "webhook", "function"}
Section == {Sections[i] : i \in DOMAIN Sections}

ASSUME GatewayAssumption ==
    /\ Limit \in Nat
    /\ Sections \in Seq(Section)
    /\ \A i, j \in DOMAIN Sections : Sections[i] = Sections[j] => i = j
    /\ Section \cap {"main", "caller", Probe} = {}
    /\ Queries \in [Section -> Nat \ {0}]
    /\ Calls \subseteq Function
    /\ Kinds \subseteq Kind

VARIABLES
    window,   \* requests counted in a client's current window
    request,  \* what each request is doing
    lent,     \* who has each connection
    queue     \* who waits for one, in order

gatewayVars == <<window, request, lent, queue>>

\* A lease: the request and what it is for.
Purpose == {"main", "caller", Probe} \cup Section
Lease == Slot \X Purpose

NoCall == [fn |-> None, scope |-> None, gated |-> FALSE]
Quiet == [pc |-> "idle", kind |-> None, client |-> None, call |-> NoCall, role |-> None,
          paid |-> FALSE, asks |-> None, left |-> [s \in Section \cup {Probe} |-> 0]]

GatewayPc == {"idle", "limit", "screen", "connect", "ask", "gate", "handle", "read", "answered"}

RequestRecord == [
    pc : GatewayPc,
    kind : Kind \cup {None},
    client : Client \cup {None},
    call : Calls \cup {NoCall},
    role : Roles \cup {None},
    paid : BOOLEAN,                                \* its firm is entitled
    asks : {None, "firm", "record", "document"},   \* the question asked as the caller
    left : [Section \cup {Probe} -> Nat]]          \* queries still to make

GatewayTypeOK ==
    /\ window \in [Client -> 0 .. Limit]
    /\ request \in [Slot -> RequestRecord]
    /\ lent \in [Connection -> Lease \cup {Free}]
    /\ queue \in Seq(Lease)

GatewayInit ==
    /\ window = [k \in Client |-> 0]
    /\ request = [r \in Slot |-> Quiet]
    /\ lent = [c \in Connection |-> Free]
    /\ queue = <<>>

-----------------------------------------------------------------------------
At(r, pc) == request[r].pc = pc
Has(lease) == \E c \in Connection : lent[c] = lease
Awaits(lease) == \E i \in DOMAIN queue : queue[i] = lease
Move(r, pc) == request' = [request EXCEPT ![r].pc = pc]

\* What is lent after the leases in S are released.
Returned(S) == [c \in Connection |-> IF lent[c] \in S THEN Free ELSE lent[c]]

\* Faulty variant: the second connection is not released on the way out.
AnswerKeepingCaller(r) ==
    /\ Move(r, "answered")
    /\ lent' = Returned({<<r, "main">>})

\* The reply: every finally block of the request has run by then, and nothing
\* else runs in between.
Answer(r) ==
    /\ Move(r, "answered")
    /\ lent' = Returned({r} \X {"main", "caller"})

\* Pool.connect: whoever cannot be served at once is queued.
Connect(r, purpose) == queue' = Append(queue, <<r, purpose>>)

AskAsCaller(r, question) ==
    /\ request' = [request EXCEPT ![r].pc = "ask", ![r].asks = question]
    /\ Connect(r, "caller")

-----------------------------------------------------------------------------
\* A route, its client and, for a function, who calls what.  /health, an unknown
\* path, an unknown function and a route that is not configured answer at once
\* and are left out.
Arrive(r, kind, client, call, role, paid) ==
    /\ At(r, "idle")
    /\ call = NoCall <=> kind # "function"
    /\ call = NoCall => role = None
    /\ role = None => ~paid
    /\ request' = [request EXCEPT ![r] =
         [Quiet EXCEPT !.kind = kind, !.client = client, !.call = call, !.role = role,
             !.paid = paid,
             !.pc = IF kind \in {"webhook", "function"} THEN "limit" ELSE "screen"]]
    /\ UNCHANGED <<window, lent, queue>>

\* Faulty variant: one request too many.
ThrottleLate(r) ==
    LET k == request[r].client IN
    /\ At(r, "limit")
    /\ IF window[k] <= Limit
       THEN window' = [window EXCEPT ![k] = @ + 1] /\ Move(r, "screen") /\ UNCHANGED lent
       ELSE Answer(r) /\ UNCHANGED window
    /\ UNCHANGED queue

\* The limiter comes before a token or a signature is verified: 429, or counted.
Throttle(r) ==
    LET k == request[r].client IN
    /\ At(r, "limit")
    /\ IF window[k] < Limit
       THEN window' = [window EXCEPT ![k] = @ + 1] /\ Move(r, "screen") /\ UNCHANGED lent
       ELSE Answer(r) /\ UNCHANGED window
    /\ UNCHANGED queue

\* windowMs have passed since the client's window opened.  (The sweep of old
\* windows, when ten thousand keys are known, forgets only such windows.)
WindowElapses(k) ==
    /\ window[k] > 0
    /\ window' = [window EXCEPT ![k] = 0]
    /\ UNCHANGED <<request, lent, queue>>

\* A token, signature or secret, a timestamp or a body that will not do: 400, 401, 403.
Refuse(r) ==
    /\ At(r, "screen")
    /\ request[r].kind # "ready"
    /\ Answer(r)
    /\ UNCHANGED <<window, queue>>

\* The download, the webhooks and the functions take a connection of their own.
Enter(r) ==
    /\ At(r, "screen")
    /\ request[r].kind \notin {"ready", "metrics"}
    /\ Move(r, "connect")
    /\ Connect(r, "main")
    /\ UNCHANGED <<window, lent>>

\* The probe and the metrics give their queries to the pool, all sections at once.
EnterReads(r) ==
    LET parts == IF request[r].kind = "ready" THEN <<Probe>> ELSE Sections
        many(s) == IF ~ \E i \in DOMAIN parts : parts[i] = s THEN 0
                   ELSE IF s = Probe THEN 1 ELSE Queries[s] IN
    /\ At(r, "screen")
    /\ request[r].kind \in {"ready", "metrics"}
    /\ request' = [request EXCEPT ![r].pc = "read",
                                  ![r].left = [s \in Section \cup {Probe} |-> many(s)]]
    /\ queue' = queue \o [i \in DOMAIN parts |-> <<r, parts[i]>>]
    /\ UNCHANGED <<window, lent>>

-----------------------------------------------------------------------------
\* The pool lends a free connection to whoever waited longest.
Grant(c) ==
    /\ queue # <<>>
    /\ lent[c] = Free
    /\ lent' = [lent EXCEPT ![c] = Head(queue)]
    /\ queue' = Tail(queue)
    /\ UNCHANGED <<window, request>>

\* Faulty variant: the pool has no connect timeout.
NeverFails(i) == FALSE

\* connectionTimeoutMillis, or a database that cannot be reached: the waiter is
\* dropped and its request answered with an error.  A section that fails so makes
\* no further query; if the reply has gone already, nobody hears of it.
ConnectFails(i) ==
    LET r == queue[i][1]  p == queue[i][2] IN
    /\ queue' = RemoveAt(queue, i)
    /\ IF p \in {"main", "caller"}
       THEN Answer(r)
       ELSE /\ request' = [request EXCEPT ![r].pc = "answered", ![r].left[p] = 0]
            /\ UNCHANGED lent
    /\ UNCHANGED window

\* One query of a section ends and its connection goes back to the pool.  The section
\* goes on with the next, whether or not its request was answered meanwhile; the
\* last section to end answers.
ReadNext(r, s) ==
    LET rest == [request[r].left EXCEPT ![s] = @ - 1] IN
    /\ Has(<<r, s>>)
    /\ lent' = Returned({<<r, s>>})
    /\ request' = [request EXCEPT ![r].left = rest,
         ![r].pc = IF \A t \in DOMAIN rest : rest[t] = 0 THEN "answered" ELSE @]
    /\ IF rest[s] > 0 THEN Connect(r, s) ELSE UNCHANGED queue
    /\ UNCHANGED window

\* A query fails: its section ends, and with it the reply; the others go on.
ReadFails(r, s) ==
    /\ Has(<<r, s>>)
    /\ lent' = Returned({<<r, s>>})
    /\ request' = [request EXCEPT ![r].pc = "answered", ![r].left[s] = 0]
    /\ UNCHANGED <<window, queue>>

\* withTimeout: the reply goes out, the queries stay where they are.
ReadTimesOut(r) ==
    /\ At(r, "read")
    /\ Move(r, "answered")
    /\ UNCHANGED <<window, lent, queue>>

\* A download or a webhook does its work on its connection, or fails: either way
\* it is answered.
Serve(r) ==
    /\ At(r, "connect")
    /\ request[r].kind # "function"
    /\ Has(<<r, "main">>)
    /\ Answer(r)
    /\ UNCHANGED <<window, queue>>

-----------------------------------------------------------------------------
Passes(r) == Move(r, "gate") /\ UNCHANGED <<lent, queue>>
Denied(r) == Answer(r) /\ UNCHANGED queue

\* authorize: by the scope the registry declares, the caller's firm comes first.  The
\* record the call is about must be named (400); a pending connection that is gone
\* needs no company.  A platform admin is on the allowlist or is not (403).
Authorize(r) ==
    LET scope == request[r].call.scope IN
    /\ At(r, "connect")
    /\ Has(<<r, "main">>)
    /\ request[r].kind = "function"
    /\ IF ResolvesFirm(scope)
       THEN AskAsCaller(r, "firm") /\ UNCHANGED lent
       ELSE \/ LooksUp(scope) /\ AskAsCaller(r, "record") /\ UNCHANGED lent
            \/ (~LooksUp(scope) \/ MayLackRecord(scope)) /\ Passes(r)
            \/ scope # "assessment" /\ Denied(r)
    /\ UNCHANGED window

\* asUser ends: the caller's connection is released, then its answer is used.
ReturnCaller(r) == lent' = Returned({<<r, "caller">>})

\* firmFromProfile: 403 for a role the scope does not admit; then as in Authorize.  A
\* review item is first looked up for its engagement; a company may still have to be
\* created.
FirmKnown(r) ==
    LET scope == request[r].call.scope IN
    /\ At(r, "ask")
    /\ request[r].asks = "firm"
    /\ Has(<<r, "caller">>)
    /\ \/ Denied(r)
       \/ /\ request[r].role \in Admits(scope)
          /\ ReturnCaller(r)
          /\ \/ LooksUp(scope) /\ AskAsCaller(r, "record")
             \/ (~LooksUp(scope) \/ MayLackRecord(scope)) /\ Move(r, "gate") /\ UNCHANGED queue
    /\ UNCHANGED window

\* visibleUnderRls: 404 for what the caller's row policies hide.
RecordSeen(r) ==
    /\ At(r, "ask")
    /\ request[r].asks = "record"
    /\ Has(<<r, "caller">>)
    /\ \/ Denied(r)
       \/ ReturnCaller(r) /\ Move(r, "gate") /\ UNCHANGED queue
    /\ UNCHANGED window

\* entitlementGate, with BILLING_ENFORCED on: 402 for a paid action of a firm that
\* is known and not entitled.
Gate(r) ==
    LET call == request[r].call
        asked == call.gated /\ ResolvesFirm(call.scope) IN
    /\ At(r, "gate")
    /\ \/ asked /\ Denied(r)
       \/ (asked => request[r].paid) /\ Move(r, "handle") /\ UNCHANGED <<lent, queue>>
    /\ UNCHANGED window

\* The handler ends, or throws (400); the renderers first read as the caller.
Handle(r) ==
    /\ At(r, "handle")
    /\ \/ Denied(r)
       \/ RendersAsCaller(request[r].call.fn) /\ AskAsCaller(r, "document") /\ UNCHANGED lent
    /\ UNCHANGED window

Rendered(r) ==
    /\ At(r, "ask")
    /\ request[r].asks = "document"
    /\ Has(<<r, "caller">>)
    /\ Denied(r)
    /\ UNCHANGED window

\* The client has its reply and no query of the request is left: the slot is free.
Close(r) ==
    /\ At(r, "answered")
    /\ \A p \in Purpose : ~Has(<<r, p>>) /\ ~Awaits(<<r, p>>)
    /\ request' = [request EXCEPT ![r] = Quiet]
    /\ UNCHANGED <<window, lent, queue>>

-----------------------------------------------------------------------------
Waiting(r) == \E i \in DOMAIN queue : queue[i][1] = r /\ ConnectFails(i)

RequestStep(r) ==
    \/ Throttle(r) \/ Refuse(r) \/ Enter(r) \/ EnterReads(r) \/ Serve(r)
    \/ Authorize(r) \/ FirmKnown(r) \/ RecordSeen(r) \/ Gate(r) \/ Handle(r) \/ Rendered(r)
    \/ \E s \in Section \cup {Probe} : ReadNext(r, s) \/ ReadFails(r, s)

GoesOn(r) == RequestStep(r) \/ Waiting(r) \/ ReadTimesOut(r)

GatewayNext ==
    \/ \E r \in Slot, kind \in Kinds, k \in Client, call \in Calls \cup {NoCall},
          role \in Roles \cup {None}, paid \in BOOLEAN : Arrive(r, kind, k, call, role, paid)
    \/ \E k \in Client : WindowElapses(k)
    \/ \E c \in Connection : Grant(c)
    \/ \E r \in Slot : GoesOn(r) \/ Close(r)

\* The database answers every query, failed or not, the timers fire and Node
\* runs what can be run: a request that can go on does, in one of these ways.
GatewayFairness == \A r \in Slot : WF_gatewayVars(GoesOn(r))

GatewaySpec == GatewayInit /\ [][GatewayNext]_gatewayVars /\ GatewayFairness

-----------------------------------------------------------------------------
\* The leases a request may have, by what it is doing.
LeasesOf(r) ==
    CASE request[r].pc = "connect" -> {"main"}
      [] request[r].pc = "ask" -> {"main", "caller"}
      [] request[r].pc \in {"gate", "handle"} -> {"main"}
      [] request[r].pc \in {"read", "answered"} ->
            {s \in Section \cup {Probe} : request[r].left[s] > 0}
      [] OTHER -> {}

\* No connection leaks and none is asked for twice, however a request ends: each
\* lease that is lent or awaited has one holder or one place in the queue, and is
\* for what its request is doing; every request past its connect has its own
\* connection while it waits for a second.
LeasesLive ==
    /\ \A c \in Connection : lent[c] # Free => lent[c][2] \in LeasesOf(lent[c][1])
    /\ \A i \in DOMAIN queue : queue[i][2] \in LeasesOf(queue[i][1])
    /\ \A c, d \in Connection : lent[c] = lent[d] /\ lent[c] # Free => c = d
    /\ \A i, j \in DOMAIN queue : queue[i] = queue[j] => i = j
    /\ \A c \in Connection, i \in DOMAIN queue : lent[c] # queue[i]
    /\ \A r \in Slot : request[r].pc \in {"ask", "gate", "handle"} => Has(<<r, "main">>)

\* Every request that arrives is answered, although calls that hold the last
\* connections wait for one more (server/http.ts, connectionTimeoutMillis).
AllAnswered ==
    \A r \in Slot : request[r].pc # "idle" ~> request[r].pc \in {"answered", "idle"}
=============================================================================
