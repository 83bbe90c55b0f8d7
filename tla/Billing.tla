------------------------------ MODULE Billing ------------------------------
(***************************************************************************)
(* The subscription cache and what fills it: Stripe's webhook events       *)
(* (server/stripe.ts, the /webhooks/stripe route of server/http.ts) and    *)
(* the redemption of access codes (server/comp-codes.ts).  Entitled is the *)
(* paywall's reading of the cache (shared/entitlements.ts).                *)
(*                                                                         *)
(* Neither path opens a transaction: every statement commits on its own,   *)
(* so each is an action here, and a failure between two of them keeps the  *)
(* first.  Stripe is external: its subscriptions move, a move emits        *)
(* events, and an event is delivered in any order, more than once, and     *)
(* again until it is answered with a 2xx.                                  *)
(***************************************************************************)
EXTENDS Integers, Sequences, FiniteSets

CONSTANTS
    Firm,
    Subscription,  \* checkout sessions, and the subscriptions they become
    Code,          \* comp_codes
    MaxEvents,     \* bound: events Stripe emits
    MaxSlots,      \* bound: max_redemptions of a code
    Handler,       \* webhook requests in flight
    Redeemer       \* redemption requests in flight

NoFirm == "no firm"
NoCustomer == "no customer"
NoCode == "no code"

ASSUME BoundsAssumption == MaxEvents \in Nat /\ MaxSlots \in Nat
ASSUME NamesAssumption ==
    NoFirm \notin Firm /\ NoCustomer \notin Subscription /\ NoCode \notin Code

VARIABLES
    stripe,     \* Stripe's side: a subscription's firm, customer and status
    sent,       \* the events emitted so far; an event's index is its id
    acked,      \* the events answered with a 2xx
    customer,   \* firms.stripe_customer_id
    sub,        \* the firm_subscriptions row: status ("absent": no row) and comp
    logged,     \* billing_events, by event id
    slots,      \* comp_codes.max_redemptions, 0 while the code does not exist
    live,       \* comp_codes.expires_at lies ahead
    count,      \* comp_codes.redeemed_count
    redeemed,   \* comp_code_redemptions: the firms of a code
    hook,       \* what each webhook request is doing
    claim,      \* what each redemption request is doing
    dispatched, \* history: how often an event was dispatched
    granted     \* history: the firms told that their code was redeemed

external == <<stripe, sent>>
codes == <<slots, live, count, redeemed>>
vars == <<external, acked, customer, sub, logged, codes, hook, claim, dispatched, granted>>

EventId == 1 .. MaxEvents
Status == {"active", "past_due", "canceled"}

\* The session's customer is the firm's linked one, or a new one named after it.
StripeRow == [firm : Firm \cup {NoFirm}, customer : Subscription \cup {NoCustomer},
              status : {"unused", "open"} \cup Status]

Event == [type : {"checkout", "subscription", "invoice"},
          of : Subscription, status : Status]

Hook == [pc : {"idle", "log", "resolve", "write", "stamp"},
         event : 0 .. MaxEvents, firm : Firm \cup {NoFirm}]
Claim == [pc : {"idle", "read", "check", "insert", "count", "comp"},
          firm : Firm \cup {NoFirm}, code : Code \cup {NoCode}, room : BOOLEAN]

IdleHook == [pc |-> "idle", event |-> 0, firm |-> NoFirm]
IdleClaim == [pc |-> "idle", firm |-> NoFirm, code |-> NoCode, room |-> FALSE]

TypeOK ==
    /\ stripe \in [Subscription -> StripeRow]
    /\ sent \in Seq(Event)
    /\ Len(sent) <= MaxEvents
    /\ acked \in SUBSET EventId
    /\ customer \in [Firm -> Subscription \cup {NoCustomer}]
    /\ sub \in [Firm -> [status : {"absent"} \cup Status, comp : BOOLEAN]]
    /\ logged \in SUBSET EventId
    /\ slots \in [Code -> 0 .. MaxSlots]
    /\ live \in [Code -> BOOLEAN]
    /\ count \in [Code -> Nat]
    /\ redeemed \in [Code -> SUBSET Firm]
    /\ hook \in [Handler -> Hook]
    /\ claim \in [Redeemer -> Claim]
    /\ dispatched \in [EventId -> Nat]
    /\ granted \in SUBSET Firm

Init ==
    /\ stripe = [s \in Subscription |->
                   [firm |-> NoFirm, customer |-> NoCustomer, status |-> "unused"]]
    /\ sent = <<>>
    /\ acked = {}
    /\ customer = [f \in Firm |-> NoCustomer]
    /\ sub = [f \in Firm |-> [status |-> "absent", comp |-> FALSE]]
    /\ logged = {}
    /\ slots = [k \in Code |-> 0]
    /\ live = [k \in Code |-> FALSE]
    /\ count = [k \in Code |-> 0]
    /\ redeemed = [k \in Code |-> {}]
    /\ hook = [h \in Handler |-> IdleHook]
    /\ claim = [r \in Redeemer |-> IdleClaim]
    /\ dispatched = [e \in EventId |-> 0]
    /\ granted = {}

-----------------------------------------------------------------------------
\* Stripe.  A firm may pay through several sessions: nothing looks for a
\* subscription it already has.

Emit(events) ==
    /\ Len(sent) + Len(events) <= MaxEvents
    /\ sent' = sent \o events

Note(type, s, status) == [type |-> type, of |-> s, status |-> status]

HookOnly == UNCHANGED <<external, customer, sub, codes, claim, dispatched, granted>>

StripeOnly == UNCHANGED <<acked, customer, sub, logged, codes, hook, claim, dispatched, granted>>

\* create-checkout-session reads the firm's customer and hands it to Stripe.
OpenCheckout(s, f) ==
    /\ stripe[s].status = "unused"
    /\ stripe' = [stripe EXCEPT ![s] =
         [firm |-> f, status |-> "open",
          customer |-> IF customer[f] = NoCustomer THEN s ELSE customer[f]]]
    /\ UNCHANGED sent /\ StripeOnly

CompleteCheckout(s) ==
    /\ stripe[s].status = "open"
    /\ stripe' = [stripe EXCEPT ![s].status = "active"]
    /\ Emit(<<Note("subscription", s, "active"), Note("checkout", s, "active")>>)
    /\ StripeOnly

\* An invoice is paid or fails; a live subscription follows it.
BillInvoice(s, status) ==
    /\ stripe[s].status \in Status
    /\ status \in {"active", "past_due"}
    /\ \/ /\ stripe[s].status \notin {status, "canceled"}
          /\ stripe' = [stripe EXCEPT ![s].status = status]
          /\ Emit(<<Note("invoice", s, status), Note("subscription", s, status)>>)
       \/ /\ stripe[s].status \in {status, "canceled"}
          /\ Emit(<<Note("invoice", s, status)>>)
          /\ UNCHANGED stripe
    /\ StripeOnly

CancelSubscription(s) ==
    /\ stripe[s].status \in {"active", "past_due"}
    /\ stripe' = [stripe EXCEPT ![s].status = "canceled"]
    /\ Emit(<<Note("subscription", s, "canceled")>>)
    /\ StripeOnly

\* A delivery, or a redelivery: of an event that was answered, too.
Deliver(h, e) ==
    /\ hook[h].pc = "idle"
    /\ e \in 1 .. Len(sent)
    /\ hook' = [hook EXCEPT ![h] = [IdleHook EXCEPT !.pc = "log", !.event = e]]
    /\ UNCHANGED <<acked, logged>> /\ HookOnly

-----------------------------------------------------------------------------
\* Faulty variant: the count of inserted rows is not looked at.
LogEventAlways(h) ==
    /\ hook[h].pc = "log"
    /\ logged' = logged \cup {hook[h].event}
    /\ hook' = [hook EXCEPT ![h].pc = "resolve"]
    /\ UNCHANGED acked /\ HookOnly

\* applyStripeEvent.  The insert's unique event id decides which of two
\* deliveries goes on; the other is answered as a duplicate.
LogEvent(h) ==
    LET e == hook[h].event IN
    /\ hook[h].pc = "log"
    /\ logged' = logged \cup {e}
    /\ \/ /\ e \notin logged
          /\ hook' = [hook EXCEPT ![h].pc = "resolve"]
          /\ UNCHANGED acked
       \/ /\ e \in logged
          /\ acked' = acked \cup {e}
          /\ hook' = [hook EXCEPT ![h] = IdleHook]
    /\ HookOnly

\* Faulty variants: the customer's id is taken for the firm's; a firm without a
\* customer matches any.
ResolveFirmToCustomer(h) ==
    /\ hook[h].pc = "resolve"
    /\ hook' = [hook EXCEPT ![h].pc = "write",
                            ![h].firm = stripe[sent[hook[h].event].of].customer]
    /\ UNCHANGED <<acked, logged>> /\ HookOnly

ResolveFirmUnlinked(h) ==
    /\ hook[h].pc = "resolve"
    /\ \E f \in Firm :
         /\ customer[f] \in {NoCustomer, stripe[sent[hook[h].event].of].customer}
         /\ hook' = [hook EXCEPT ![h].pc = "write", ![h].firm = f]
    /\ UNCHANGED <<acked, logged>> /\ HookOnly

\* resolveFirmId: sessions and subscriptions carry the firm, an invoice only the
\* customer, which is known once the checkout was applied.
ResolveFirm(h) ==
    LET note == sent[hook[h].event]
        s == stripe[note.of]
        byCustomer == {f \in Firm : customer[f] = s.customer} IN
    /\ hook[h].pc = "resolve"
    /\ \E f \in IF note.type # "invoice" THEN {s.firm}
                ELSE IF byCustomer = {} THEN {NoFirm} ELSE byCustomer :
         hook' = [hook EXCEPT ![h].pc = "write", ![h].firm = f]
    /\ UNCHANGED <<acked, logged>> /\ HookOnly

\* Faulty variant: the upsert writes a whole new row.
ApplyEventResettingComp(h) ==
    LET note == sent[hook[h].event] IN
    /\ hook[h].pc = "write"
    /\ hook' = [hook EXCEPT ![h].pc = "stamp"]
    /\ dispatched' = [dispatched EXCEPT ![hook[h].event] = @ + 1]
    /\ sub' = [sub EXCEPT ![hook[h].firm] = [status |-> note.status, comp |-> FALSE]]
    /\ UNCHANGED <<external, acked, customer, logged, codes, claim, granted>>

\* linkCustomer, upsertSubscription and setSubscriptionStatus, one statement each.
\* Nothing compares the event with what was applied before it: not its time,
\* nor, for a subscription, the id of the cached one.
ApplyEvent(h) ==
    LET note == sent[hook[h].event]
        f == hook[h].firm IN
    /\ hook[h].pc = "write"
    /\ hook' = [hook EXCEPT ![h].pc = "stamp"]
    /\ dispatched' = [dispatched EXCEPT ![hook[h].event] = @ + 1]
    /\ \/ /\ note.type = "checkout"
          /\ customer' = [customer EXCEPT ![f] = stripe[note.of].customer]
          /\ UNCHANGED sub
       \/ /\ note.type = "subscription"
          /\ sub' = [sub EXCEPT ![f].status = note.status]
          /\ UNCHANGED customer
       \/ /\ note.type = "invoice"
          /\ sub' = IF f = NoFirm \/ sub[f].status = "absent" THEN sub
                    ELSE [sub EXCEPT ![f].status = note.status]
          /\ UNCHANGED customer
    /\ UNCHANGED <<external, acked, logged, codes, claim, granted>>

\* processed_at, which nothing reads, and the reply.
AcknowledgeEvent(h) ==
    /\ hook[h].pc = "stamp"
    /\ acked' = acked \cup {hook[h].event}
    /\ hook' = [hook EXCEPT ![h] = IdleHook]
    /\ UNCHANGED logged /\ HookOnly

\* A statement fails (500), the process dies, or the reply is lost.
FailEvent(h) ==
    /\ hook[h].pc # "idle"
    /\ hook' = [hook EXCEPT ![h] = IdleHook]
    /\ UNCHANGED <<acked, logged>> /\ HookOnly

-----------------------------------------------------------------------------
OperatorOnly == UNCHANGED <<external, acked, customer, sub, logged, hook, claim, dispatched, granted>>

\* createCompCode mints a code, or changes its limits: the count stays.
CreateCompCode(k, n) ==
    /\ slots' = [slots EXCEPT ![k] = n]
    /\ live' = [live EXCEPT ![k] = TRUE]
    /\ UNCHANGED <<count, redeemed>> /\ OperatorOnly

ExpireCode(k) ==
    /\ live[k]
    /\ live' = [live EXCEPT ![k] = FALSE]
    /\ UNCHANGED <<slots, count, redeemed>> /\ OperatorOnly

ClaimOnly == UNCHANGED <<external, acked, customer, logged, slots, live, hook, dispatched>>

RequestRedeem(r, f, k) ==
    /\ claim[r].pc = "idle"
    /\ claim' = [claim EXCEPT ![r] = [IdleClaim EXCEPT !.pc = "read", !.firm = f, !.code = k]]
    /\ UNCHANGED <<sub, count, redeemed, granted>> /\ ClaimOnly

\* redeemCompCode: the code row is read once and never again.  A code that does
\* not exist is refused; expiry and room matter only to a firm's first time.
ReadCode(r) ==
    LET k == claim[r].code IN
    /\ claim[r].pc = "read"
    /\ \/ /\ slots[k] # 0
          /\ claim' = [claim EXCEPT ![r].pc = "check",
                                    ![r].room = live[k] /\ count[k] < slots[k]]
       \/ /\ slots[k] = 0
          /\ claim' = [claim EXCEPT ![r] = IdleClaim]
    /\ UNCHANGED <<sub, count, redeemed, granted>> /\ ClaimOnly

CheckRedemption(r) ==
    LET already == claim[r].firm \in redeemed[claim[r].code] IN
    /\ claim[r].pc = "check"
    /\ \/ already /\ claim' = [claim EXCEPT ![r].pc = "comp"]
       \/ ~already /\ claim[r].room /\ claim' = [claim EXCEPT ![r].pc = "insert"]
       \/ ~already /\ ~claim[r].room /\ claim' = [claim EXCEPT ![r] = IdleClaim]
    /\ UNCHANGED <<sub, count, redeemed, granted>> /\ ClaimOnly

\* Faulty variant: counts whether or not a row was inserted.
InsertRedemptionCounting(r) ==
    /\ claim[r].pc = "insert"
    /\ redeemed' = [redeemed EXCEPT ![claim[r].code] = @ \cup {claim[r].firm}]
    /\ claim' = [claim EXCEPT ![r].pc = "count"]
    /\ UNCHANGED <<sub, count, granted>> /\ ClaimOnly

\* on conflict (code, firm_id) do nothing: a rival request of the same firm wins.
InsertRedemption(r) ==
    LET f == claim[r].firm
        k == claim[r].code IN
    /\ claim[r].pc = "insert"
    /\ redeemed' = [redeemed EXCEPT ![k] = @ \cup {f}]
    /\ claim' = [claim EXCEPT ![r].pc = IF f \in redeemed[k] THEN "comp" ELSE "count"]
    /\ UNCHANGED <<sub, count, granted>> /\ ClaimOnly

CountRedemption(r) ==
    /\ claim[r].pc = "count"
    /\ count' = [count EXCEPT ![claim[r].code] = @ + 1]
    /\ claim' = [claim EXCEPT ![r].pc = "comp"]
    /\ UNCHANGED <<sub, redeemed, granted>> /\ ClaimOnly

\* The upsert keeps the status of a row Stripe's events wrote.  Then the reply.
ApplyComp(r) ==
    LET f == claim[r].firm IN
    /\ claim[r].pc = "comp"
    /\ sub' = [sub EXCEPT ![f] = [status |-> IF @.status = "absent" THEN "active" ELSE @.status,
                                  comp |-> TRUE]]
    /\ granted' = granted \cup {f}
    /\ claim' = [claim EXCEPT ![r] = IdleClaim]
    /\ UNCHANGED <<count, redeemed>> /\ ClaimOnly

FailRedeem(r) ==
    /\ claim[r].pc # "idle"
    /\ claim' = [claim EXCEPT ![r] = IdleClaim]
    /\ UNCHANGED <<sub, count, redeemed, granted>> /\ ClaimOnly

-----------------------------------------------------------------------------
StripeStep ==
    \E s \in Subscription :
        \/ \E f \in Firm : OpenCheckout(s, f)
        \/ CompleteCheckout(s)
        \/ \E status \in Status : BillInvoice(s, status)
        \/ CancelSubscription(s)

HookStep(h) ==
    \/ \E e \in EventId : Deliver(h, e)
    \/ LogEvent(h)
    \/ ResolveFirm(h)
    \/ ApplyEvent(h)
    \/ AcknowledgeEvent(h)
    \/ FailEvent(h)

RedeemStep(r) ==
    \/ \E f \in Firm, k \in Code : RequestRedeem(r, f, k)
    \/ ReadCode(r)
    \/ CheckRedemption(r)
    \/ InsertRedemption(r)
    \/ CountRedemption(r)
    \/ ApplyComp(r)
    \/ FailRedeem(r)

OperatorStep ==
    \E k \in Code : ExpireCode(k) \/ \E n \in 1 .. MaxSlots : CreateCompCode(k, n)

Next ==
    \/ StripeStep
    \/ OperatorStep
    \/ \E h \in Handler : HookStep(h)
    \/ \E r \in Redeemer : RedeemStep(r)

Spec == Init /\ [][Next]_vars

-----------------------------------------------------------------------------
\* resolveEntitlement: the grace window counts a past-due firm in.
Entitled(f) == sub[f].comp \/ sub[f].status \in {"active", "past_due"}

\* However an event is delivered, duplicated or retried, on however many
\* connections, it is dispatched at most once.
EventsApplyOnce == \A e \in EventId : dispatched[e] <= 1

\* A firm that was told its code is redeemed stays entitled, whatever events of
\* its own or of other subscriptions are applied meanwhile or later.
GrantsLast == \A f \in granted : Entitled(f)

\* Nobody is let in for nothing: an entitled firm redeemed a code, or Stripe
\* emitted an event of one of its own subscriptions with an entitled status.
AccessEarned ==
    \A f \in Firm : Entitled(f) =>
        \/ \E k \in Code : f \in redeemed[k]
        \/ \E e \in 1 .. Len(sent) :
             /\ sent[e].status \in {"active", "past_due"}
             /\ stripe[sent[e].of].firm = f

\* A firm takes at most one slot of a code, however many of its requests race or
\* are retried after a failure.
SlotsCountFirms == \A k \in Code : count[k] <= Cardinality(redeemed[k])

\* Subscription state in our DB always reconciles to Stripe (docs/24): once
\* every event is answered and no request runs, a firm Stripe has no entitled
\* subscription for, and no comp, is not entitled, and the converse.
CacheReconciles ==
    /\ acked = 1 .. Len(sent)
    /\ \A h \in Handler : hook[h].pc = "idle"
    => \A f \in Firm :
         Entitled(f) <=> \/ sub[f].comp
                         \/ \E s \in Subscription :
                              /\ stripe[s].firm = f
                              /\ stripe[s].status \in {"active", "past_due"}

=============================================================================
