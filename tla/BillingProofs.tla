--------------------------- MODULE BillingProofs ---------------------------
(***************************************************************************)
(* Type correctness of Billing, and for any number of deliveries,          *)
(* redemptions, firms, subscriptions and events: an event is dispatched at *)
(* most once, a granted firm stays entitled, and nobody is entitled for    *)
(* nothing.                                                                *)
(***************************************************************************)
EXTENDS Billing, SequenceTheorems, FiniteSetTheorems, TLAPS

\* A delivery handles an emitted event, a redemption has a firm and a code.
TypeInv ==
    /\ TypeOK
    /\ \A h \in Handler : hook[h].pc # "idle" => hook[h].event \in 1 .. Len(sent)
    /\ \A r \in Redeemer : claim[r].pc # "idle" => claim[r].firm \in Firm /\ claim[r].code \in Code

\* Nobody has dispatched the event of a delivery whose write is still ahead.
DeliveryOK(h) ==
    hook[h].pc \in {"resolve", "write"} =>
        hook[h].event \in logged /\ dispatched[hook[h].event] = 0

\* The unique event id as a mutual exclusion of deliveries.
OneDispatcher ==
    \A g, h \in Handler :
        /\ g # h
        /\ hook[g].pc \in {"resolve", "write"}
        /\ hook[h].pc \in {"resolve", "write"}
        => hook[g].event # hook[h].event

OnceInv ==
    /\ \A h \in Handler : DeliveryOK(h)
    /\ OneDispatcher
    /\ \A e \in EventId : dispatched[e] <= 1
    /\ \A e \in EventId : dispatched[e] # 0 => e \in logged

-----------------------------------------------------------------------------
LEMMA IdleType == IdleHook \in Hook /\ IdleClaim \in Claim
BY BoundsAssumption DEF IdleHook, IdleClaim, Hook, Claim

LEMMA InitType == Init => TypeOK
<1> SUFFICES ASSUME Init PROVE TypeOK
  OBVIOUS
<1>1. sent \in Seq(Event) /\ Len(sent) = 0
  BY DEF Init
<1> QED BY <1>1, IdleType, BoundsAssumption DEF Init, TypeOK, StripeRow

\* Stripe appends events and never changes one.
LEMMA Emitted ==
    ASSUME TypeOK, NEW events \in Seq(Event), Emit(events)
    PROVE  /\ sent' \in Seq(Event)
           /\ Len(sent') <= MaxEvents
           /\ Len(sent') = Len(sent) + Len(events)
           /\ \A e \in 1 .. Len(sent) : sent'[e] = sent[e]
           /\ \A e \in 1 .. Len(events) : sent'[Len(sent) + e] = events[e]
BY BoundsAssumption DEF Emit, TypeOK

LEMMA NoteType ==
    ASSUME NEW type \in {"checkout", "subscription", "invoice"},
           NEW s \in Subscription, NEW status \in Status
    PROVE  Note(type, s, status) \in Event
BY DEF Note, Event

LEMMA StatusType ==
    ASSUME TypeOK, NEW s \in Subscription, NEW status \in Status
    PROVE  [stripe EXCEPT ![s].status = status] \in [Subscription -> StripeRow]
<1> DEFINE row == [stripe[s] EXCEPT !.status = status]
<1>0. stripe[s] \in StripeRow
  BY DEF TypeOK
<1>1. row \in StripeRow
  BY <1>0 DEF StripeRow
<1>2. [stripe EXCEPT ![s].status = status] = [stripe EXCEPT ![s] = row]
  OBVIOUS
<1> HIDE DEF row
<1> QED BY <1>1, <1>2 DEF TypeOK

\* A write of the cached status, of a firm or of none.
LEMMA SubType ==
    ASSUME TypeOK, NEW f, NEW status \in Status
    PROVE  [sub EXCEPT ![f].status = status] \in
             [Firm -> [status : {"absent"} \cup Status, comp : BOOLEAN]]
<1> DEFINE Row == [status : {"absent"} \cup Status, comp : BOOLEAN]
<1>1. ASSUME NEW row \in Row
      PROVE  [row EXCEPT !.status = status] \in Row
  OBVIOUS
<1>2. sub \in [Firm -> Row]
  BY DEF TypeOK
<1> HIDE DEF Row
<1>3. [sub EXCEPT ![f].status = status] \in [Firm -> Row]
  <2>1. [sub EXCEPT ![f].status = status]
          = [x \in Firm |-> IF x = f THEN [sub[x] EXCEPT !.status = status] ELSE sub[x]]
    BY <1>2
  <2> QED BY <1>1, <1>2, <2>1
<1> QED BY <1>3 DEF Row

LEMMA StripeType ==
    ASSUME TypeOK, StripeStep
    PROVE  /\ stripe' \in [Subscription -> StripeRow]
           /\ sent' \in Seq(Event)
           /\ Len(sent') <= MaxEvents
           /\ Len(sent) <= Len(sent')
           /\ \A e \in 1 .. Len(sent) : sent'[e] = sent[e]
           /\ StripeOnly
<1> USE DEF TypeOK
<1> PICK s \in Subscription :
        \/ \E f \in Firm : OpenCheckout(s, f)
        \/ CompleteCheckout(s)
        \/ \E status \in Status : BillInvoice(s, status)
        \/ CancelSubscription(s)
  BY DEF StripeStep
<1>0. Len(sent) \in Nat
  OBVIOUS
<1>1. ASSUME NEW f \in Firm, OpenCheckout(s, f)
      PROVE  /\ stripe' \in [Subscription -> StripeRow] /\ sent' = sent /\ StripeOnly
  BY <1>1 DEF OpenCheckout, StripeRow
<1>2. CASE CompleteCheckout(s)
  <2> DEFINE events == <<Note("subscription", s, "active"), Note("checkout", s, "active")>>
  <2>1. events \in Seq(Event)
    BY NoteType DEF Status
  <2>2. Len(events) = 2 /\ Emit(events) /\ StripeOnly
    BY <1>2 DEF CompleteCheckout
  <2>3. stripe' \in [Subscription -> StripeRow]
    BY <1>2, StatusType DEF CompleteCheckout, Status
  <2> HIDE DEF events
  <2> QED BY <1>0, <2>1, <2>2, <2>3, Emitted
<1>3. ASSUME NEW status \in Status, BillInvoice(s, status)
      PROVE  /\ stripe' \in [Subscription -> StripeRow]
             /\ sent' \in Seq(Event)
             /\ Len(sent') <= MaxEvents
             /\ Len(sent) <= Len(sent')
             /\ \A e \in 1 .. Len(sent) : sent'[e] = sent[e]
             /\ StripeOnly
  <2> DEFINE two == <<Note("invoice", s, status), Note("subscription", s, status)>>
             one == <<Note("invoice", s, status)>>
  <2>1. two \in Seq(Event) /\ one \in Seq(Event) /\ Len(two) = 2 /\ Len(one) = 1
    BY NoteType
  <2>2. Emit(two) \/ Emit(one)
    BY <1>3 DEF BillInvoice
  <2>3. stripe' \in [Subscription -> StripeRow]
    <3>1. stripe' = [stripe EXCEPT ![s].status = status] \/ stripe' = stripe
      BY <1>3 DEF BillInvoice
    <3>2. [stripe EXCEPT ![s].status = status] \in [Subscription -> StripeRow]
      BY StatusType
    <3> HIDE DEF TypeOK
    <3> QED BY <3>1, <3>2 DEF TypeOK
  <2>4. StripeOnly
    BY <1>3 DEF BillInvoice
  <2> HIDE DEF two, one
  <2> QED BY <1>0, <2>1, <2>2, <2>3, <2>4, Emitted
<1>4. CASE CancelSubscription(s)
  <2> DEFINE events == <<Note("subscription", s, "canceled")>>
  <2>1. events \in Seq(Event)
    BY NoteType DEF Status
  <2>2. Len(events) = 1 /\ Emit(events) /\ StripeOnly
    BY <1>4 DEF CancelSubscription
  <2>3. stripe' \in [Subscription -> StripeRow]
    BY <1>4, StatusType DEF CancelSubscription, Status
  <2> HIDE DEF events
  <2> QED BY <1>0, <2>1, <2>2, <2>3, Emitted
<1> QED BY <1>1, <1>2, <1>3, <1>4

\* The event a delivery holds, as ApplyEvent reads it.
LEMMA HeldEvent ==
    ASSUME TypeOK, NEW h \in Handler, hook[h].event \in 1 .. Len(sent)
    PROVE  /\ sent[hook[h].event] \in Event
           /\ hook[h].event \in EventId
           /\ stripe[sent[hook[h].event].of] \in StripeRow
<1>1. sent[hook[h].event] \in Event
  BY ElementOfSeq DEF TypeOK
<1>2. Len(sent) \in Nat
  BY DEF TypeOK
<1> QED BY <1>1, <1>2, BoundsAssumption DEF TypeOK, EventId, Event

-----------------------------------------------------------------------------
LEMMA HookType ==
    ASSUME TypeInv, NEW h \in Handler, HookStep(h)
    PROVE  TypeInv'
<1>0. /\ hook \in [Handler -> Hook] /\ hook[h] \in Hook
      /\ UNCHANGED <<stripe, sent, codes, claim>>
  BY DEF TypeInv, TypeOK, HookStep, Deliver, LogEvent, ResolveFirm, ApplyEvent,
         AcknowledgeEvent, FailEvent, HookOnly, external
<1>1. ASSUME hook[h].event \in 1 .. Len(sent)
      PROVE  hook[h].event \in EventId
  BY <1>1, BoundsAssumption DEF TypeInv, TypeOK, EventId
<1>k. ASSUME NEW k \in Hook, hook' = [hook EXCEPT ![h] = k],
             k.pc # "idle" => k.event \in 1 .. Len(sent),
             acked' \in SUBSET EventId, logged' \in SUBSET EventId,
             customer' \in [Firm -> Subscription \cup {NoCustomer}],
             sub' \in [Firm -> [status : {"absent"} \cup Status, comp : BOOLEAN]],
             dispatched' \in [EventId -> Nat], granted' = granted
      PROVE  TypeInv'
  BY <1>0, <1>k DEF TypeInv, TypeOK, codes
<1>2. ASSUME NEW e \in EventId, Deliver(h, e)
      PROVE  TypeInv'
  <2>1. [IdleHook EXCEPT !.pc = "log", !.event = e] \in Hook
    <3>1. e \in 0 .. MaxEvents
      BY BoundsAssumption DEF EventId
    <3> QED BY <3>1 DEF IdleHook, Hook
  <2>2. hook' = [hook EXCEPT ![h] = [IdleHook EXCEPT !.pc = "log", !.event = e]]
    BY <1>2 DEF Deliver
  <2>3. [IdleHook EXCEPT !.pc = "log", !.event = e].event \in 1 .. Len(sent)
    BY <1>2 DEF Deliver, IdleHook
  <2> QED BY <1>2, <1>k, <2>1, <2>2, <2>3 DEF Deliver, HookOnly, TypeInv, TypeOK
<1>3. CASE LogEvent(h)
  <2>0. hook[h].event \in 1 .. Len(sent)
    BY <1>3 DEF LogEvent, TypeInv
  <2>1. logged' \in SUBSET EventId /\ acked' \in SUBSET EventId
    BY <1>3, <2>0, <1>1 DEF LogEvent, TypeInv, TypeOK
  <2>2. CASE hook' = [hook EXCEPT ![h].pc = "resolve"]
    <3>1. [hook[h] EXCEPT !.pc = "resolve"] \in Hook
      BY <1>0 DEF Hook
    <3>2. hook' = [hook EXCEPT ![h] = [hook[h] EXCEPT !.pc = "resolve"]]
      BY <2>2, <1>0
    <3>3. [hook[h] EXCEPT !.pc = "resolve"].event = hook[h].event
      BY <1>0 DEF Hook
    <3> QED BY <1>3, <1>k, <2>0, <2>1, <3>1, <3>2, <3>3 DEF LogEvent, HookOnly, TypeInv, TypeOK
  <2>3. CASE hook' = [hook EXCEPT ![h] = IdleHook]
    <3>1. IdleHook.pc = "idle"
      BY DEF IdleHook
    <3> QED BY <1>3, <1>k, <2>1, <2>3, <3>1, IdleType DEF LogEvent, HookOnly, TypeInv, TypeOK
  <2> QED BY <1>3, <2>2, <2>3 DEF LogEvent
<1>4. CASE ResolveFirm(h)
  <2>0. hook[h].event \in 1 .. Len(sent)
    BY <1>4 DEF ResolveFirm, TypeInv
  <2>1. stripe[sent[hook[h].event].of].firm \in Firm \cup {NoFirm}
    BY <2>0, HeldEvent DEF TypeInv, StripeRow
  <2>2. PICK f \in Firm \cup {NoFirm} :
          hook' = [hook EXCEPT ![h].pc = "write", ![h].firm = f]
    BY <1>4, <2>1 DEF ResolveFirm
  <2> DEFINE k == [hook[h] EXCEPT !.pc = "write", !.firm = f]
  <2>3. k \in Hook /\ k.event = hook[h].event
    BY <1>0 DEF Hook
  <2>4. hook' = [hook EXCEPT ![h] = k]
    BY <2>2, <1>0
  <2> HIDE DEF k
  <2> QED BY <1>4, <1>k, <2>0, <2>3, <2>4 DEF ResolveFirm, HookOnly, TypeInv, TypeOK
<1>5. CASE ApplyEvent(h)
  <2>0. hook[h].event \in 1 .. Len(sent)
    BY <1>5 DEF ApplyEvent, TypeInv
  <2> DEFINE k == [hook[h] EXCEPT !.pc = "stamp"]
             note == sent[hook[h].event]
  <2>1. k \in Hook /\ k.event = hook[h].event
    BY <1>0 DEF Hook
  <2>2. hook' = [hook EXCEPT ![h] = k]
    BY <1>5, <1>0 DEF ApplyEvent
  <2>3. note \in Event /\ stripe[note.of] \in StripeRow
    BY <2>0, HeldEvent DEF TypeInv
  <2>4. customer' \in [Firm -> Subscription \cup {NoCustomer}]
    <3>1. stripe[note.of].customer \in Subscription \cup {NoCustomer}
      BY <2>3 DEF StripeRow
    <3>2. customer' = customer \/ customer' = [customer EXCEPT ![hook[h].firm] = stripe[note.of].customer]
      BY <1>5 DEF ApplyEvent
    <3> HIDE DEF note
    <3> QED BY <3>1, <3>2 DEF TypeInv, TypeOK
  <2>5. sub' \in [Firm -> [status : {"absent"} \cup Status, comp : BOOLEAN]]
    <3>1. note.status \in Status
      BY <2>3 DEF Event
    <3>2. \/ sub' = sub
          \/ sub' = [sub EXCEPT ![hook[h].firm].status = note.status]
      BY <1>5 DEF ApplyEvent
    <3>3. sub \in [Firm -> [status : {"absent"} \cup Status, comp : BOOLEAN]]
      BY DEF TypeInv, TypeOK
    <3> HIDE DEF note
    <3> QED BY <3>1, <3>2, <3>3, SubType DEF TypeInv
  <2>6. dispatched' \in [EventId -> Nat]
    <3>1. dispatched' = [dispatched EXCEPT ![hook[h].event] = @ + 1]
      BY <1>5 DEF ApplyEvent
    <3>2. dispatched \in [EventId -> Nat]
      BY DEF TypeInv, TypeOK
    <3>3. \A e \in EventId : dispatched'[e] \in Nat
      BY <3>1, <3>2
    <3> QED BY <3>1, <3>2, <3>3
  <2> HIDE DEF k, note
  <2> QED BY <1>5, <1>k, <2>0, <2>1, <2>2, <2>4, <2>5, <2>6 DEF ApplyEvent, TypeInv, TypeOK
<1>6. CASE AcknowledgeEvent(h) \/ FailEvent(h)
  <2>1. IdleHook.pc = "idle"
    BY DEF IdleHook
  <2>2. acked' \in SUBSET EventId
    BY <1>6, <1>1 DEF AcknowledgeEvent, FailEvent, TypeInv, TypeOK
  <2> QED BY <1>6, <1>k, <2>1, <2>2, IdleType
          DEF AcknowledgeEvent, FailEvent, HookOnly, TypeInv, TypeOK
<1> QED BY <1>2, <1>3, <1>4, <1>5, <1>6 DEF HookStep

LEMMA RedeemType ==
    ASSUME TypeInv, NEW r \in Redeemer, RedeemStep(r)
    PROVE  TypeInv'
<1>0. /\ claim \in [Redeemer -> Claim] /\ claim[r] \in Claim
      /\ ClaimOnly
  BY DEF TypeInv, TypeOK, RedeemStep, RequestRedeem, ReadCode, CheckRedemption,
         InsertRedemption, CountRedemption, ApplyComp, FailRedeem
<1>k. ASSUME NEW k \in Claim, claim' = [claim EXCEPT ![r] = k],
             k.pc # "idle" => k.firm \in Firm /\ k.code \in Code,
             sub' \in [Firm -> [status : {"absent"} \cup Status, comp : BOOLEAN]],
             count' \in [Code -> Nat], redeemed' \in [Code -> SUBSET Firm],
             granted' \in SUBSET Firm
      PROVE  TypeInv'
  BY <1>0, <1>k DEF TypeInv, TypeOK, ClaimOnly, external
<1>i. IdleClaim \in Claim /\ IdleClaim.pc = "idle"
  BY IdleType DEF IdleClaim
<1>p. ASSUME NEW pc \in {"comp", "insert", "count"}
      PROVE  LET k == [claim[r] EXCEPT !.pc = pc] IN
             /\ k \in Claim /\ k.firm = claim[r].firm /\ k.code = claim[r].code
             /\ [claim EXCEPT ![r].pc = pc] = [claim EXCEPT ![r] = k]
  BY <1>0 DEF Claim
<1>u. ASSUME UNCHANGED <<sub, count, redeemed, granted>>
      PROVE  /\ sub' \in [Firm -> [status : {"absent"} \cup Status, comp : BOOLEAN]]
             /\ count' \in [Code -> Nat] /\ redeemed' \in [Code -> SUBSET Firm]
             /\ granted' \in SUBSET Firm
  BY <1>u DEF TypeInv, TypeOK
<1>1. ASSUME NEW f \in Firm, NEW c \in Code, RequestRedeem(r, f, c)
      PROVE  TypeInv'
  <2> DEFINE k == [IdleClaim EXCEPT !.pc = "read", !.firm = f, !.code = c]
  <2>1. k \in Claim /\ k.firm = f /\ k.code = c
    BY DEF IdleClaim, Claim
  <2>2. claim' = [claim EXCEPT ![r] = k] /\ UNCHANGED <<sub, count, redeemed, granted>>
    BY <1>1 DEF RequestRedeem
  <2> HIDE DEF k
  <2> QED BY <1>k, <1>u, <2>1, <2>2
<1>2. CASE ReadCode(r)
  <2>1. ASSUME NEW b \in BOOLEAN
        PROVE  LET k == [claim[r] EXCEPT !.pc = "check", !.room = b] IN
               /\ k \in Claim /\ k.firm = claim[r].firm /\ k.code = claim[r].code
               /\ [claim EXCEPT ![r].pc = "check", ![r].room = b] = [claim EXCEPT ![r] = k]
    BY <1>0 DEF Claim
  <2>2. claim[r].firm \in Firm /\ claim[r].code \in Code /\ UNCHANGED <<sub, count, redeemed, granted>>
    BY <1>2 DEF ReadCode, TypeInv
  <2>3. \/ claim' = [claim EXCEPT ![r] = IdleClaim]
        \/ claim' = [claim EXCEPT ![r].pc = "check",
                     ![r].room = live[claim[r].code] /\ count[claim[r].code] < slots[claim[r].code]]
    BY <1>2 DEF ReadCode
  <2>4. (live[claim[r].code] /\ count[claim[r].code] < slots[claim[r].code]) \in BOOLEAN
    OBVIOUS
  <2> QED BY <1>k, <1>u, <1>i, <2>1, <2>2, <2>3, <2>4
<1>3. CASE CheckRedemption(r)
  <2>1. claim[r].firm \in Firm /\ claim[r].code \in Code /\ UNCHANGED <<sub, count, redeemed, granted>>
    BY <1>3 DEF CheckRedemption, TypeInv
  <2>2. \/ claim' = [claim EXCEPT ![r] = IdleClaim]
        \/ claim' = [claim EXCEPT ![r].pc = "comp"]
        \/ claim' = [claim EXCEPT ![r].pc = "insert"]
    BY <1>3 DEF CheckRedemption
  <2> QED BY <1>k, <1>u, <1>i, <1>p, <2>1, <2>2
<1>4. CASE InsertRedemption(r)
  <2>1. claim[r].firm \in Firm /\ claim[r].code \in Code
    BY <1>4 DEF InsertRedemption, TypeInv
  <2>2. redeemed' \in [Code -> SUBSET Firm]
    BY <1>4, <2>1 DEF InsertRedemption, TypeInv, TypeOK
  <2>3. \/ claim' = [claim EXCEPT ![r].pc = "comp"]
        \/ claim' = [claim EXCEPT ![r].pc = "count"]
    BY <1>4 DEF InsertRedemption
  <2>4. UNCHANGED <<sub, count, granted>>
    BY <1>4 DEF InsertRedemption
  <2> QED BY <1>k, <1>p, <2>1, <2>2, <2>3, <2>4 DEF TypeInv, TypeOK
<1>5. CASE CountRedemption(r)
  <2>1. claim[r].firm \in Firm /\ claim[r].code \in Code
    BY <1>5 DEF CountRedemption, TypeInv
  <2>2. count' \in [Code -> Nat]
    BY <1>5 DEF CountRedemption, TypeInv, TypeOK
  <2>3. claim' = [claim EXCEPT ![r].pc = "comp"] /\ UNCHANGED <<sub, redeemed, granted>>
    BY <1>5 DEF CountRedemption
  <2> QED BY <1>k, <1>p, <2>1, <2>2, <2>3 DEF TypeInv, TypeOK
<1>6. CASE ApplyComp(r)
  <2>1. claim[r].firm \in Firm
    BY <1>6 DEF ApplyComp, TypeInv
  <2>2. sub' \in [Firm -> [status : {"absent"} \cup Status, comp : BOOLEAN]]
    BY <1>6, <2>1 DEF ApplyComp, TypeInv, TypeOK, Status
  <2>3. granted' \in SUBSET Firm /\ claim' = [claim EXCEPT ![r] = IdleClaim]
        /\ UNCHANGED <<count, redeemed>>
    BY <1>6, <2>1 DEF ApplyComp, TypeInv, TypeOK
  <2> QED BY <1>k, <1>i, <2>2, <2>3 DEF TypeInv, TypeOK
<1>7. CASE FailRedeem(r)
  BY <1>7, <1>k, <1>u, <1>i DEF FailRedeem
<1> QED BY <1>1, <1>2, <1>3, <1>4, <1>5, <1>6, <1>7 DEF RedeemStep

LEMMA NextType ==
    ASSUME TypeInv, [Next]_vars
    PROVE  TypeInv'
<1>1. CASE StripeStep
  <2>1. Len(sent) \in Nat /\ Len(sent') \in Nat
    BY <1>1, StripeType DEF TypeInv, TypeOK
  <2> QED BY <1>1, <2>1, StripeType DEF TypeInv, TypeOK, StripeOnly, codes
<1>2. CASE OperatorStep
  <2>0. PICK k \in Code : ExpireCode(k) \/ \E n \in 1 .. MaxSlots : CreateCompCode(k, n)
    BY <1>2 DEF OperatorStep
  <2>1. slots' \in [Code -> 0 .. MaxSlots] /\ live' \in [Code -> BOOLEAN]
        /\ UNCHANGED <<count, redeemed>> /\ OperatorOnly
    <3>1. CASE ExpireCode(k)
      BY <3>1 DEF ExpireCode, TypeInv, TypeOK
    <3>2. ASSUME NEW n \in 1 .. MaxSlots, CreateCompCode(k, n)
          PROVE  slots' \in [Code -> 0 .. MaxSlots] /\ live' \in [Code -> BOOLEAN]
                 /\ UNCHANGED <<count, redeemed>> /\ OperatorOnly
      <4>1. n \in 0 .. MaxSlots
        BY BoundsAssumption
      <4> QED BY <3>2, <4>1 DEF CreateCompCode, TypeInv, TypeOK
    <3> QED BY <2>0, <3>1, <3>2
  <2> QED BY <2>1 DEF TypeInv, TypeOK, OperatorOnly, external
<1>3. CASE UNCHANGED vars
  BY <1>3 DEF TypeInv, TypeOK, vars, external, codes
<1> QED BY <1>1, <1>2, <1>3, HookType, RedeemType DEF Next

\* The types of every variable, and that a request in flight has what it works on.
THEOREM TypeCorrect == Spec => []TypeOK
<1>1. Init => TypeInv
  BY InitType DEF Init, TypeInv, IdleHook, IdleClaim
<1>2. TypeInv /\ [Next]_vars => TypeInv'
  BY NextType
<1>3. TypeInv => TypeOK
  BY DEF TypeInv
<1> QED BY <1>1, <1>2, <1>3, PTL DEF Spec

-----------------------------------------------------------------------------
\* What one delivery's step does to the log and to the dispatches.
LEMMA HookFrame ==
    ASSUME TypeInv, NEW h \in Handler, HookStep(h)
    PROVE  /\ \A g \in Handler \ {h} : hook'[g] = hook[g]
           /\ hook'[h].pc \in {"resolve", "write"} => hook'[h].event = hook[h].event
           /\ UNCHANGED <<codes, claim, granted, external>>
<1>0. hook \in [Handler -> Hook] /\ hook[h] \in Hook
  BY DEF TypeInv, TypeOK
<1>1. UNCHANGED <<codes, claim, granted, external>>
  BY DEF HookStep, Deliver, LogEvent, ResolveFirm, ApplyEvent, AcknowledgeEvent,
         FailEvent, HookOnly, external, codes
<1>2. ASSUME NEW k, hook' = [hook EXCEPT ![h] = k],
             k.pc \in {"resolve", "write"} => k.event = hook[h].event
      PROVE  /\ \A g \in Handler \ {h} : hook'[g] = hook[g]
             /\ hook'[h].pc \in {"resolve", "write"} => hook'[h].event = hook[h].event
  BY <1>0, <1>2
<1>3. ASSUME NEW e \in EventId, Deliver(h, e)
      PROVE  \E k : /\ hook' = [hook EXCEPT ![h] = k]
                    /\ k.pc \in {"resolve", "write"} => k.event = hook[h].event
  <2> DEFINE k == [IdleHook EXCEPT !.pc = "log", !.event = e]
  <2>1. k.pc = "log"
    BY DEF IdleHook
  <2>2. hook' = [hook EXCEPT ![h] = k]
    BY <1>3 DEF Deliver
  <2> HIDE DEF k
  <2> QED BY <2>1, <2>2
<1>4. ASSUME NEW pc, hook' = [hook EXCEPT ![h].pc = pc]
      PROVE  \E k : /\ hook' = [hook EXCEPT ![h] = k]
                    /\ k.pc \in {"resolve", "write"} => k.event = hook[h].event
  <2> DEFINE k == [hook[h] EXCEPT !.pc = pc]
  <2>1. k.event = hook[h].event
    BY <1>0 DEF Hook
  <2>2. hook' = [hook EXCEPT ![h] = k]
    BY <1>4, <1>0
  <2> HIDE DEF k
  <2> QED BY <2>1, <2>2
<1>5. ASSUME NEW f, hook' = [hook EXCEPT ![h].pc = "write", ![h].firm = f]
      PROVE  \E k : /\ hook' = [hook EXCEPT ![h] = k]
                    /\ k.pc \in {"resolve", "write"} => k.event = hook[h].event
  <2> DEFINE k == [hook[h] EXCEPT !.pc = "write", !.firm = f]
  <2>1. k.event = hook[h].event
    BY <1>0 DEF Hook
  <2>2. hook' = [hook EXCEPT ![h] = k]
    BY <1>5, <1>0
  <2> HIDE DEF k
  <2> QED BY <2>1, <2>2
<1>6. ASSUME hook' = [hook EXCEPT ![h] = IdleHook]
      PROVE  \E k : /\ hook' = [hook EXCEPT ![h] = k]
                    /\ k.pc \in {"resolve", "write"} => k.event = hook[h].event
  <2>1. IdleHook.pc = "idle"
    BY DEF IdleHook
  <2> QED BY <2>1, <1>6
<1>7. \/ \E e \in EventId : Deliver(h, e)
      \/ \E pc : hook' = [hook EXCEPT ![h].pc = pc]
      \/ hook' = [hook EXCEPT ![h] = IdleHook]
      \/ \E f : hook' = [hook EXCEPT ![h].pc = "write", ![h].firm = f]
  BY DEF HookStep, LogEvent, ResolveFirm, ApplyEvent, AcknowledgeEvent, FailEvent
<1> QED BY <1>1, <1>2, <1>3, <1>4, <1>5, <1>6, <1>7

LEMMA InitOnce == Init => OnceInv
BY DEF Init, OnceInv, DeliveryOK, OneDispatcher, IdleHook

LEMMA HookOnce ==
    ASSUME TypeInv, OnceInv, NEW h \in Handler, HookStep(h)
    PROVE  OnceInv'
<1>0. /\ hook[h] \in Hook /\ hook \in [Handler -> Hook]
      /\ dispatched \in [EventId -> Nat] /\ logged \in SUBSET EventId
  BY DEF TypeInv, TypeOK
<1>1. /\ \A g \in Handler \ {h} : hook'[g] = hook[g]
      /\ hook'[h].pc \in {"resolve", "write"} => hook'[h].event = hook[h].event
  BY HookFrame
<1>2. CASE LogEvent(h) /\ hook[h].event \notin logged
  <2>1. /\ hook'[h].pc = "resolve" /\ hook'[h].event = hook[h].event
        /\ logged' = logged \cup {hook[h].event} /\ dispatched' = dispatched
    <3>1. hook' = [hook EXCEPT ![h].pc = "resolve"]
      BY <1>2 DEF LogEvent
    <3>2. hook'[h] = [hook[h] EXCEPT !.pc = "resolve"]
      BY <1>0, <3>1
    <3>3. hook'[h].pc = "resolve"
      BY <1>0, <3>2 DEF Hook
    <3> QED BY <1>1, <1>2, <3>3 DEF LogEvent, HookOnly
  <2>2. hook[h].event \in EventId
    BY <1>2, BoundsAssumption DEF TypeInv, TypeOK, LogEvent, EventId
  <2> QED BY <1>1, <1>2, <2>1, <2>2 DEF OnceInv, DeliveryOK, OneDispatcher
<1>3. CASE ApplyEvent(h)
  <2>1. /\ hook[h].pc = "write" /\ hook'[h].pc = "stamp"
        /\ dispatched' = [dispatched EXCEPT ![hook[h].event] = @ + 1] /\ logged' = logged
    BY <1>0, <1>3 DEF ApplyEvent, Hook
  <2>2. hook[h].event \in EventId /\ dispatched'[hook[h].event] = 1 /\ hook[h].event \in logged
    BY <1>0, <2>1 DEF OnceInv, DeliveryOK
  <2>3. \A e \in EventId \ {hook[h].event} : dispatched'[e] = dispatched[e]
    BY <1>0, <2>1
  <2>4. \A g \in Handler : DeliveryOK(g)'
    <3> SUFFICES ASSUME NEW g \in Handler, hook'[g].pc \in {"resolve", "write"}
                 PROVE  hook'[g].event \in logged' /\ dispatched'[hook'[g].event] = 0
      BY DEF DeliveryOK
    <3>1. g # h /\ hook'[g] = hook[g]
      BY <1>1, <2>1
    <3>2. hook[g].event # hook[h].event
      BY <2>1, <3>1 DEF OnceInv, OneDispatcher
    <3> QED BY <1>0, <2>1, <2>3, <3>1, <3>2 DEF OnceInv, DeliveryOK
  <2>5. OneDispatcher'
    BY <1>1, <2>1 DEF OnceInv, OneDispatcher
  <2> QED BY <2>1, <2>2, <2>3, <2>4, <2>5 DEF OnceInv
<1>4. CASE /\ logged' = logged /\ dispatched' = dispatched
           /\ hook'[h].pc \in {"resolve", "write"} => hook[h].pc \in {"resolve", "write"}
  BY <1>1, <1>4 DEF OnceInv, DeliveryOK, OneDispatcher
<1>5. ASSUME NEW e \in EventId, Deliver(h, e)
      PROVE  hook'[h].pc = "log" /\ logged' = logged /\ dispatched' = dispatched
  BY <1>0, <1>5 DEF Deliver, IdleHook, HookOnly
<1>6. ASSUME LogEvent(h), hook[h].event \in logged
      PROVE  hook'[h].pc = "idle" /\ logged' = logged /\ dispatched' = dispatched
  BY <1>0, <1>6 DEF LogEvent, IdleHook, HookOnly
<1>7. ASSUME ResolveFirm(h)
      PROVE  hook[h].pc = "resolve" /\ logged' = logged /\ dispatched' = dispatched
  BY <1>7 DEF ResolveFirm, HookOnly
<1>8. ASSUME AcknowledgeEvent(h) \/ FailEvent(h)
      PROVE  hook'[h].pc = "idle" /\ logged' = logged /\ dispatched' = dispatched
  BY <1>0, <1>8 DEF AcknowledgeEvent, FailEvent, IdleHook, HookOnly
<1> QED BY <1>2, <1>3, <1>4, <1>5, <1>6, <1>7, <1>8 DEF HookStep

LEMMA NextOnce ==
    ASSUME TypeInv, OnceInv, [Next]_vars
    PROVE  OnceInv'
<1>1. CASE UNCHANGED <<hook, logged, dispatched>>
  BY <1>1 DEF OnceInv, DeliveryOK, OneDispatcher
<1>2. StripeStep => UNCHANGED <<hook, logged, dispatched>>
  BY DEF StripeStep, OpenCheckout, CompleteCheckout, BillInvoice, CancelSubscription, StripeOnly
<1>3. OperatorStep => UNCHANGED <<hook, logged, dispatched>>
  BY DEF OperatorStep, CreateCompCode, ExpireCode, OperatorOnly
<1>4. ASSUME NEW r \in Redeemer, RedeemStep(r)
      PROVE  UNCHANGED <<hook, logged, dispatched>>
  BY <1>4 DEF RedeemStep, RequestRedeem, ReadCode, CheckRedemption, InsertRedemption,
              CountRedemption, ApplyComp, FailRedeem, ClaimOnly
<1> QED BY <1>1, <1>2, <1>3, <1>4, HookOnce DEF Next, vars

\* However often and on however many connections an event is delivered, it is
\* dispatched at most once: the log's unique id is a mutual exclusion.
THEOREM AppliedOnce == Spec => []EventsApplyOnce
<1>1. Init => TypeInv /\ OnceInv
  BY InitType, InitOnce DEF Init, TypeInv, IdleHook, IdleClaim
<1>2. TypeInv /\ OnceInv /\ [Next]_vars => TypeInv' /\ OnceInv'
  BY NextType, NextOnce
<1>3. OnceInv => EventsApplyOnce
  BY DEF OnceInv, EventsApplyOnce
<1> QED BY <1>1, <1>2, <1>3, PTL DEF Spec

-----------------------------------------------------------------------------
\* The firms told so hold a comp, and no event takes a comp back.
GrantInv == \A f \in granted : sub[f].comp

LEMMA NextGrant ==
    ASSUME TypeInv, GrantInv, [Next]_vars
    PROVE  GrantInv'
<1>0. granted \in SUBSET Firm
      /\ sub \in [Firm -> [status : {"absent"} \cup Status, comp : BOOLEAN]]
  BY DEF TypeInv, TypeOK
<1>1. CASE UNCHANGED <<sub, granted>>
  BY <1>1 DEF GrantInv
<1>2. StripeStep \/ OperatorStep => UNCHANGED <<sub, granted>>
  BY DEF StripeStep, OpenCheckout, CompleteCheckout, BillInvoice, CancelSubscription, StripeOnly,
         OperatorStep, CreateCompCode, ExpireCode, OperatorOnly
<1>3. ASSUME NEW h \in Handler, ApplyEvent(h)
      PROVE  GrantInv'
  <2>1. \/ sub' = sub
        \/ \E f, status : sub' = [sub EXCEPT ![f].status = status]
    BY <1>3 DEF ApplyEvent
  <2>2. granted' = granted
    BY <1>3 DEF ApplyEvent
  <2>3. \A f \in Firm : sub'[f].comp = sub[f].comp
    BY <1>0, <2>1
  <2> QED BY <1>0, <2>2, <2>3 DEF GrantInv
<1>4. ASSUME NEW h \in Handler, HookStep(h), ~ApplyEvent(h)
      PROVE  UNCHANGED <<sub, granted>>
  BY <1>4 DEF HookStep, Deliver, LogEvent, ResolveFirm, AcknowledgeEvent, FailEvent, HookOnly
<1>5. ASSUME NEW r \in Redeemer, ApplyComp(r)
      PROVE  GrantInv'
  <2>1. claim[r].firm \in Firm
    BY <1>5 DEF ApplyComp, TypeInv
  <2>2. sub'[claim[r].firm].comp /\ \A f \in Firm \ {claim[r].firm} : sub'[f] = sub[f]
    BY <1>0, <1>5, <2>1 DEF ApplyComp
  <2>3. granted' = granted \cup {claim[r].firm}
    BY <1>5 DEF ApplyComp
  <2> QED BY <1>0, <2>2, <2>3 DEF GrantInv
<1>6. ASSUME NEW r \in Redeemer, RedeemStep(r), ~ApplyComp(r)
      PROVE  UNCHANGED <<sub, granted>>
  BY <1>6 DEF RedeemStep, RequestRedeem, ReadCode, CheckRedemption, InsertRedemption,
              CountRedemption, FailRedeem
<1> QED BY <1>1, <1>2, <1>3, <1>4, <1>5, <1>6 DEF Next, vars

\* A redeemed code is never undone by the webhook's writes of the same row.
THEOREM CompsLast == Spec => []GrantsLast
<1>1. Init => TypeInv /\ GrantInv
  BY InitType DEF Init, TypeInv, IdleHook, IdleClaim, GrantInv
<1>2. TypeInv /\ GrantInv /\ [Next]_vars => TypeInv' /\ GrantInv'
  BY NextType, NextGrant
<1>3. GrantInv => GrantsLast
  BY DEF GrantInv, GrantsLast, Entitled
<1> QED BY <1>1, <1>2, <1>3, PTL DEF Spec

-----------------------------------------------------------------------------
\* A session Stripe has events of belongs to a firm, and so does its customer.
SessionOK(s) ==
    stripe[s].status # "unused" =>
        /\ stripe[s].firm \in Firm
        /\ stripe[s].customer \in Subscription
        /\ stripe[stripe[s].customer].status # "unused"
        /\ stripe[stripe[s].customer].firm = stripe[s].firm

\* A linked customer is one of the firm's own sessions.
CustomerOK(f) ==
    customer[f] # NoCustomer =>
        /\ stripe[customer[f]].status # "unused"
        /\ stripe[customer[f]].firm = f

\* A delivery writes to the firm whose subscription the event is about.
WriterOK(h) ==
    hook[h].pc = "write" =>
        hook[h].firm \in {stripe[sent[hook[h].event].of].firm, NoFirm}

Paid(f) ==
    \E e \in 1 .. Len(sent) :
        /\ sent[e].status \in {"active", "past_due"}
        /\ stripe[sent[e].of].firm = f

Redeemed(f) == \E k \in Code : f \in redeemed[k]

EarnedInv ==
    /\ \A s \in Subscription : SessionOK(s)
    /\ \A f \in Firm : CustomerOK(f)
    /\ \A e \in 1 .. Len(sent) : stripe[sent[e].of].status # "unused"
    /\ \A h \in Handler : WriterOK(h)
    /\ \A r \in Redeemer : claim[r].pc \in {"count", "comp"} => claim[r].firm \in redeemed[claim[r].code]
    /\ \A f \in Firm : sub[f].comp => Redeemed(f)
    /\ \A f \in Firm : sub[f].status \in {"active", "past_due"} => Paid(f) \/ Redeemed(f)


LEMMA StripeRows ==
    ASSUME TypeInv, StripeStep
    PROVE  /\ \A s \in Subscription : stripe[s].status # "unused" =>
                /\ stripe'[s].status # "unused"
                /\ stripe'[s].firm = stripe[s].firm
                /\ stripe'[s].customer = stripe[s].customer
           /\ \A s \in Subscription : stripe[s].status = "unused" /\ stripe'[s] # stripe[s] =>
                \E f \in Firm :
                  /\ stripe'[s].firm = f
                  /\ stripe'[s].status # "unused"
                  /\ \/ customer[f] = NoCustomer /\ stripe'[s].customer = s
                     \/ customer[f] # NoCustomer /\ stripe'[s].customer = customer[f]
<1>0. stripe \in [Subscription -> StripeRow]
  BY DEF TypeInv, TypeOK
<1> PICK t \in Subscription :
        \/ \E f \in Firm : OpenCheckout(t, f)
        \/ CompleteCheckout(t)
        \/ \E status \in Status : BillInvoice(t, status)
        \/ CancelSubscription(t)
  BY DEF StripeStep
<1>1. ASSUME NEW f \in Firm, OpenCheckout(t, f)
      PROVE  /\ stripe[t].status = "unused"
             /\ \A s \in Subscription \ {t} : stripe'[s] = stripe[s]
             /\ stripe'[t] = [firm |-> f, status |-> "open",
                              customer |-> IF customer[f] = NoCustomer THEN t ELSE customer[f]]
  BY <1>0, <1>1 DEF OpenCheckout
<1>2. ASSUME NEW status \in Status, stripe[t].status # "unused",
             stripe' = [stripe EXCEPT ![t].status = status] \/ stripe' = stripe
      PROVE  /\ \A s \in Subscription \ {t} : stripe'[s] = stripe[s]
             /\ stripe[t].status # "unused" /\ stripe'[t].status # "unused"
             /\ stripe'[t].firm = stripe[t].firm
             /\ stripe'[t].customer = stripe[t].customer
  <2>1. stripe[t] \in StripeRow /\ status # "unused"
    BY <1>0 DEF Status
  <2>2. \/ stripe' = stripe
        \/ stripe'[t] = [stripe[t] EXCEPT !.status = status]
    BY <1>0, <1>2
  <2> QED BY <1>0, <1>2, <2>1, <2>2 DEF StripeRow
<1>3. CASE CompleteCheckout(t)
  <2>1. "active" \in Status /\ stripe[t].status # "unused"
        /\ stripe' = [stripe EXCEPT ![t].status = "active"]
    BY <1>3 DEF CompleteCheckout, Status
  <2> QED BY <1>2, <2>1
<1>4. ASSUME NEW status \in Status, BillInvoice(t, status)
      PROVE  /\ \A s \in Subscription \ {t} : stripe'[s] = stripe[s]
             /\ stripe[t].status # "unused" /\ stripe'[t].status # "unused"
             /\ stripe'[t].firm = stripe[t].firm
             /\ stripe'[t].customer = stripe[t].customer
  BY <1>2, <1>4 DEF BillInvoice, Status
<1>5. CASE CancelSubscription(t)
  <2>1. "canceled" \in Status /\ stripe[t].status # "unused"
        /\ stripe' = [stripe EXCEPT ![t].status = "canceled"]
    BY <1>5 DEF CancelSubscription, Status
  <2> QED BY <1>2, <2>1
<1>6. CASE \E f \in Firm : OpenCheckout(t, f)
  <2> PICK f \in Firm : OpenCheckout(t, f)
    BY <1>6
  <2> DEFINE c == IF customer[f] = NoCustomer THEN t ELSE customer[f]
             row == [firm |-> f, status |-> "open", customer |-> c]
  <2>1. /\ stripe[t].status = "unused"
        /\ \A s \in Subscription \ {t} : stripe'[s] = stripe[s]
        /\ stripe'[t] = row
    BY <1>1
  <2>2. row.firm = f /\ row.status = "open" /\ row.customer = c
    OBVIOUS
  <2>3. \/ customer[f] = NoCustomer /\ c = t
        \/ customer[f] # NoCustomer /\ c = customer[f]
    OBVIOUS
  <2> HIDE DEF row, c
  <2> QED BY <2>1, <2>2, <2>3
<1> QED BY <1>3, <1>4, <1>5, <1>6

\* A new event is about a session in use.
LEMMA StripeEvents ==
    ASSUME TypeInv, StripeStep
    PROVE  \A e \in 1 .. Len(sent') : e \notin 1 .. Len(sent) => stripe[sent'[e].of].status # "unused"
<1> USE DEF TypeInv
<1> PICK t \in Subscription :
        \/ \E f \in Firm : OpenCheckout(t, f)
        \/ CompleteCheckout(t)
        \/ \E status \in Status : BillInvoice(t, status)
        \/ CancelSubscription(t)
  BY DEF StripeStep
<1>0. Len(sent) \in Nat
  BY DEF TypeOK
<1>1. ASSUME NEW events \in Seq(Event), Emit(events), stripe[t].status # "unused",
             \A e \in 1 .. Len(events) : events[e].of = t
      PROVE  \A e \in 1 .. Len(sent') : e \notin 1 .. Len(sent) => stripe[sent'[e].of].status # "unused"
  <2> SUFFICES ASSUME NEW e \in 1 .. Len(sent'), e \notin 1 .. Len(sent)
               PROVE  sent'[e].of = t
    BY <1>1
  <2>1. Len(sent') = Len(sent) + Len(events) /\ Len(events) \in Nat
    BY <1>1, Emitted
  <2>2. e - Len(sent) \in 1 .. Len(events) /\ e = Len(sent) + (e - Len(sent))
    BY <1>0, <2>1
  <2>3. sent'[e] = events[e - Len(sent)]
    BY <1>1, <2>2, Emitted
  <2> QED BY <1>1, <2>2, <2>3
<1>2. ASSUME NEW f \in Firm, OpenCheckout(t, f)
      PROVE  sent' = sent
  BY <1>2 DEF OpenCheckout
<1>3. ASSUME NEW x \in Event, NEW y \in Event, x.of = t, y.of = t
      PROVE  /\ <<x>> \in Seq(Event) /\ <<x, y>> \in Seq(Event)
             /\ \A e \in 1 .. Len(<<x>>) : <<x>>[e].of = t
             /\ \A e \in 1 .. Len(<<x, y>>) : <<x, y>>[e].of = t
  BY <1>3
<1>4. ASSUME NEW type \in {"checkout", "subscription", "invoice"}, NEW status \in Status
      PROVE  Note(type, t, status) \in Event /\ Note(type, t, status).of = t
  BY DEF Note, Event
<1>5. CASE CompleteCheckout(t)
  <2>1. stripe[t].status # "unused"
        /\ Emit(<<Note("subscription", t, "active"), Note("checkout", t, "active")>>)
    BY <1>5 DEF CompleteCheckout
  <2> QED BY <1>1, <1>3, <1>4, <2>1 DEF Status
<1>6. ASSUME NEW status \in Status, BillInvoice(t, status)
      PROVE  \A e \in 1 .. Len(sent') : e \notin 1 .. Len(sent) => stripe[sent'[e].of].status # "unused"
  <2>1. stripe[t].status # "unused"
    BY <1>6 DEF BillInvoice, Status
  <2>2. \/ Emit(<<Note("invoice", t, status), Note("subscription", t, status)>>)
        \/ Emit(<<Note("invoice", t, status)>>)
    BY <1>6 DEF BillInvoice
  <2> QED BY <1>1, <1>3, <1>4, <2>1, <2>2
<1>7. CASE CancelSubscription(t)
  <2>1. stripe[t].status # "unused" /\ Emit(<<Note("subscription", t, "canceled")>>)
    BY <1>7 DEF CancelSubscription
  <2> QED BY <1>1, <1>3, <1>4, <2>1 DEF Status
<1>8. CASE \E f \in Firm : OpenCheckout(t, f)
  BY <1>2, <1>8
<1> QED BY <1>5, <1>6, <1>7, <1>8

LEMMA StripeEarned ==
    ASSUME TypeInv, EarnedInv, StripeStep
    PROVE  EarnedInv'
<1>0. /\ stripe \in [Subscription -> StripeRow] /\ Len(sent) \in Nat /\ Len(sent') \in Nat
      /\ sent \in Seq(Event) /\ sent' \in Seq(Event)
      /\ customer \in [Firm -> Subscription \cup {NoCustomer}]
      /\ Len(sent) <= Len(sent')
      /\ \A e \in 1 .. Len(sent) : sent'[e] = sent[e]
      /\ UNCHANGED <<customer, sub, codes, hook, claim>>
  BY StripeType DEF TypeInv, TypeOK, StripeOnly
<1>1. \A e \in 1 .. Len(sent) : /\ sent[e].of \in Subscription
                                /\ e \in 1 .. Len(sent')
                                /\ stripe'[sent[e].of].firm = stripe[sent[e].of].firm
  <2>1. \A e \in 1 .. Len(sent) : sent[e] \in Event
    BY <1>0, ElementOfSeq
  <2>2. \A e \in 1 .. Len(sent) : sent[e].of \in Subscription /\ e \in 1 .. Len(sent')
    BY <1>0, <2>1 DEF Event
  <2> QED BY <2>2, StripeRows DEF EarnedInv
<1>2. \A f \in Firm : CustomerOK(f)'
  BY <1>0, StripeRows DEF EarnedInv, CustomerOK
<1>3. \A s \in Subscription : SessionOK(s)'
  <2> SUFFICES ASSUME NEW s \in Subscription, stripe'[s].status # "unused"
               PROVE  /\ stripe'[s].firm \in Firm
                      /\ stripe'[s].customer \in Subscription
                      /\ stripe'[stripe'[s].customer].status # "unused"
                      /\ stripe'[stripe'[s].customer].firm = stripe'[s].firm
    BY DEF SessionOK
  <2>1. CASE stripe[s].status # "unused"
    BY <2>1, StripeRows DEF EarnedInv, SessionOK
  <2>2. CASE stripe[s].status = "unused"
    <3>1. stripe'[s] # stripe[s]
      BY <2>2
    <3>2. PICK f \in Firm :
            /\ stripe'[s].firm = f
            /\ stripe'[s].status # "unused"
            /\ \/ customer[f] = NoCustomer /\ stripe'[s].customer = s
               \/ customer[f] # NoCustomer /\ stripe'[s].customer = customer[f]
      BY <2>2, <3>1, StripeRows
    <3> QED BY <1>0, <1>2, <3>2 DEF CustomerOK
  <2> QED BY <2>1, <2>2
<1>4. \A e \in 1 .. Len(sent') : stripe'[sent'[e].of].status # "unused"
  <2> SUFFICES ASSUME NEW e \in 1 .. Len(sent')
               PROVE  stripe'[sent'[e].of].status # "unused"
    OBVIOUS
  <2>1. stripe[sent'[e].of].status # "unused"
    <3>1. CASE e \in 1 .. Len(sent)
      BY <1>0, <3>1 DEF EarnedInv
    <3>2. CASE e \notin 1 .. Len(sent)
      BY <3>2, StripeEvents
    <3> QED BY <3>1, <3>2
  <2>2. sent'[e].of \in Subscription
    <3>1. sent'[e] \in Event
      BY <1>0, ElementOfSeq
    <3> QED BY <3>1 DEF Event
  <2> QED BY <2>1, <2>2, StripeRows
<1>5. \A h \in Handler : WriterOK(h)'
  <2>1. \A h \in Handler : hook[h].pc = "write" => hook[h].event \in 1 .. Len(sent)
    BY DEF TypeInv
  <2> QED BY <1>0, <1>1, <2>1 DEF EarnedInv, WriterOK
<1>6. \A f \in Firm : Paid(f) => Paid(f)'
  BY <1>0, <1>1 DEF Paid
<1>7. \A f \in Firm : Redeemed(f) => Redeemed(f)'
  BY <1>0 DEF Redeemed, codes
<1> QED BY <1>0, <1>2, <1>3, <1>4, <1>5, <1>6, <1>7 DEF EarnedInv, codes

\* An invoice finds its firm through the customer, and finds the right one.
LEMMA HookEarned ==
    ASSUME TypeInv, EarnedInv, NEW h \in Handler, HookStep(h)
    PROVE  EarnedInv'
<1>0. /\ \A g \in Handler \ {h} : hook'[g] = hook[g]
      /\ hook'[h].pc \in {"resolve", "write"} => hook'[h].event = hook[h].event
      /\ UNCHANGED <<codes, claim, granted, external>>
      /\ hook \in [Handler -> Hook] /\ hook[h] \in Hook
      /\ customer \in [Firm -> Subscription \cup {NoCustomer}]
      /\ sub \in [Firm -> [status : {"absent"} \cup Status, comp : BOOLEAN]]
  BY HookFrame DEF TypeInv, TypeOK
<1>1. ASSUME UNCHANGED <<customer, sub>>, WriterOK(h)'
      PROVE  EarnedInv'
  BY <1>0, <1>1 DEF EarnedInv, SessionOK, CustomerOK, WriterOK, Paid, Redeemed, external, codes
<1>2. ASSUME hook[h].pc # "idle"
      PROVE  /\ hook[h].event \in 1 .. Len(sent)
             /\ sent[hook[h].event] \in Event
             /\ sent[hook[h].event].of \in Subscription
             /\ stripe[sent[hook[h].event].of].firm \in Firm
             /\ SessionOK(sent[hook[h].event].of)
             /\ stripe[sent[hook[h].event].of].status # "unused"
  <2>1. hook[h].event \in 1 .. Len(sent)
    BY <1>2 DEF TypeInv
  <2>2. sent[hook[h].event] \in Event
    BY <2>1, HeldEvent DEF TypeInv
  <2>3. sent[hook[h].event].of \in Subscription
    BY <2>2 DEF Event
  <2> QED BY <2>1, <2>2, <2>3 DEF EarnedInv, SessionOK
<1>3. CASE ResolveFirm(h)
  <2> DEFINE note == sent[hook[h].event]
             s == stripe[note.of]
  <2>1. hook[h].pc # "idle"
    BY <1>3 DEF ResolveFirm
  <2>2. PICK f : /\ \/ f = s.firm
                    \/ f = NoFirm
                    \/ f \in Firm /\ customer[f] = s.customer
                 /\ hook' = [hook EXCEPT ![h].pc = "write", ![h].firm = f]
    BY <1>3 DEF ResolveFirm
  <2>3. f \in {s.firm, NoFirm}
    <3> SUFFICES ASSUME f \in Firm, customer[f] = s.customer
                 PROVE  f = s.firm
      BY <2>2
    <3>1. s.customer \in Subscription /\ stripe[s.customer].firm = s.firm
      BY <1>2, <2>1 DEF SessionOK
    <3>2. customer[f] # NoCustomer
      BY <3>1, NamesAssumption
    <3> QED BY <3>1, <3>2 DEF EarnedInv, CustomerOK
  <2>4. hook'[h].firm = f /\ hook'[h].pc = "write"
    <3>1. hook'[h] = [hook[h] EXCEPT !.pc = "write", !.firm = f]
      BY <1>0, <2>2
    <3> QED BY <1>0, <3>1 DEF Hook
  <2>5. WriterOK(h)'
    BY <1>0, <2>3, <2>4 DEF WriterOK, external
  <2> QED BY <1>1, <1>3, <2>5 DEF ResolveFirm, HookOnly
<1>4. CASE ApplyEvent(h)
  <2> DEFINE e == hook[h].event
             f == hook[h].firm
             owner == stripe[sent[e].of].firm
  <2>1. hook[h].pc = "write" /\ hook'[h].pc = "stamp"
    <3>1. hook'[h] = [hook[h] EXCEPT !.pc = "stamp"] /\ hook[h].pc = "write"
      BY <1>0, <1>4 DEF ApplyEvent
    <3> QED BY <1>0, <3>1 DEF Hook
  <2>2. /\ e \in 1 .. Len(sent) /\ owner \in Firm /\ sent[e].status \in Status
        /\ SessionOK(sent[e].of) /\ stripe[sent[e].of].status # "unused"
    BY <1>2, <2>1 DEF Event
  <2>3. f \in {owner, NoFirm}
    BY <2>1 DEF EarnedInv, WriterOK
  <2>4. \A g \in Handler : WriterOK(g)'
    BY <1>0, <2>1 DEF EarnedInv, WriterOK, external
  <2>5. \A g \in Firm : CustomerOK(g)'
    <3>1. customer' = customer \/ customer' = [customer EXCEPT ![f] = stripe[sent[e].of].customer]
      BY <1>4 DEF ApplyEvent
    <3> SUFFICES ASSUME NEW g \in Firm
                 PROVE  CustomerOK(g)'
      OBVIOUS
    <3>2. CASE customer'[g] = customer[g]
      BY <1>0, <3>2 DEF EarnedInv, CustomerOK, external
    <3>3. CASE customer'[g] # customer[g]
      <4>1. g = f /\ customer'[g] = stripe[sent[e].of].customer
        BY <1>0, <3>1, <3>3
      <4>2. g = owner
        BY <2>3, <4>1, NamesAssumption
      <4> HIDE DEF e, f
      <4> QED BY <1>0, <2>2, <4>1, <4>2 DEF CustomerOK, SessionOK, external
    <3> QED BY <3>2, <3>3
  <2>6. \A g \in Firm : \/ sub'[g] = sub[g]
                        \/ /\ g = owner
                           /\ sub'[g].status = sent[e].status
                           /\ sub'[g].comp = sub[g].comp
    <3>1. sub' = sub \/ sub' = [sub EXCEPT ![f].status = sent[e].status]
      BY <1>4 DEF ApplyEvent
    <3> SUFFICES ASSUME NEW g \in Firm, sub'[g] # sub[g]
                 PROVE  g = owner /\ sub'[g].status = sent[e].status /\ sub'[g].comp = sub[g].comp
      OBVIOUS
    <3>2. g = f /\ sub'[g] = [sub[g] EXCEPT !.status = sent[e].status]
      BY <1>0, <3>1
    <3>3. sub[g] \in [status : {"absent"} \cup Status, comp : BOOLEAN]
      BY <1>0
    <3>4. g = owner
      BY <2>3, <3>2, NamesAssumption
    <3> HIDE DEF e, f, owner
    <3> QED BY <3>2, <3>3, <3>4
  <2>7. \A g \in Firm : /\ sub'[g].comp => Redeemed(g)
                        /\ sub'[g].status \in {"active", "past_due"} => Paid(g) \/ Redeemed(g)
    <3>1. sent[e].status \in {"active", "past_due"} => Paid(owner)
      BY <2>2 DEF Paid
    <3> HIDE DEF e, f, owner
    <3> QED BY <2>6, <3>1 DEF EarnedInv
  <2> HIDE DEF e, f, owner
  <2> QED BY <1>0, <2>4, <2>5, <2>7
          DEF EarnedInv, SessionOK, Paid, Redeemed, external, codes
<1>5. ASSUME NEW e \in EventId, Deliver(h, e)
      PROVE  hook'[h].pc # "write" /\ UNCHANGED <<customer, sub>>
  BY <1>0, <1>5 DEF Deliver, IdleHook, HookOnly
<1>6. ASSUME LogEvent(h)
      PROVE  hook'[h].pc # "write" /\ UNCHANGED <<customer, sub>>
  <2>1. hook' = [hook EXCEPT ![h].pc = "resolve"] \/ hook' = [hook EXCEPT ![h] = IdleHook]
    BY <1>6 DEF LogEvent
  <2>2. hook'[h] = [hook[h] EXCEPT !.pc = "resolve"] \/ hook'[h] = IdleHook
    BY <1>0, <2>1
  <2>3. [hook[h] EXCEPT !.pc = "resolve"].pc = "resolve" /\ IdleHook.pc = "idle"
    BY <1>0 DEF Hook, IdleHook
  <2> QED BY <1>6, <2>2, <2>3 DEF LogEvent, HookOnly
<1>7. ASSUME AcknowledgeEvent(h) \/ FailEvent(h)
      PROVE  hook'[h].pc # "write" /\ UNCHANGED <<customer, sub>>
  BY <1>0, <1>7 DEF AcknowledgeEvent, FailEvent, IdleHook, HookOnly
<1> QED BY <1>1, <1>3, <1>4, <1>5, <1>6, <1>7 DEF HookStep, WriterOK

\* What one redemption's step does to the other redemptions and to its own row.
LEMMA ClaimFrame ==
    ASSUME TypeInv, NEW r \in Redeemer, RedeemStep(r)
    PROVE  /\ \A q \in Redeemer \ {r} : claim'[q] = claim[q]
           /\ claim'[r].pc \in {"count", "comp"} =>
                claim'[r].firm = claim[r].firm /\ claim'[r].code = claim[r].code
           /\ UNCHANGED <<external, customer, hook>>
           /\ claim'[r].pc = "count" =>
                /\ InsertRedemption(r)
                /\ claim[r].firm \notin redeemed[claim[r].code]
           /\ claim'[r].pc = "comp" =>
                CheckRedemption(r) \/ InsertRedemption(r) \/ CountRedemption(r)
<1>0. claim \in [Redeemer -> Claim] /\ claim[r] \in Claim
  BY DEF TypeInv, TypeOK
<1>1. UNCHANGED <<external, customer, hook>>
  BY DEF RedeemStep, RequestRedeem, ReadCode, CheckRedemption, InsertRedemption,
         CountRedemption, ApplyComp, FailRedeem, ClaimOnly
<1>2. ASSUME NEW pc, claim' = [claim EXCEPT ![r].pc = pc]
      PROVE  /\ \A q \in Redeemer \ {r} : claim'[q] = claim[q]
             /\ claim'[r].firm = claim[r].firm /\ claim'[r].code = claim[r].code
             /\ claim'[r].pc = pc
  <2>1. claim'[r] = [claim[r] EXCEPT !.pc = pc]
    BY <1>0, <1>2
  <2> QED BY <1>0, <1>2, <2>1 DEF Claim
<1>3. ASSUME claim' = [claim EXCEPT ![r] = IdleClaim]
      PROVE  (\A q \in Redeemer \ {r} : claim'[q] = claim[q]) /\ claim'[r].pc = "idle"
  BY <1>0, <1>3 DEF IdleClaim
<1>4. ASSUME NEW f \in Firm, NEW k \in Code, RequestRedeem(r, f, k)
      PROVE  (\A q \in Redeemer \ {r} : claim'[q] = claim[q]) /\ claim'[r].pc = "read"
  BY <1>0, <1>4 DEF RequestRedeem, IdleClaim
<1>5. ASSUME NEW b, claim' = [claim EXCEPT ![r].pc = "check", ![r].room = b]
      PROVE  (\A q \in Redeemer \ {r} : claim'[q] = claim[q]) /\ claim'[r].pc = "check"
  <2>1. claim'[r] = [claim[r] EXCEPT !.pc = "check", !.room = b]
    BY <1>0, <1>5
  <2> QED BY <1>0, <1>5, <2>1 DEF Claim
<1>6. CASE ReadCode(r)
  <2>1. \/ claim' = [claim EXCEPT ![r] = IdleClaim]
        \/ \E b : claim' = [claim EXCEPT ![r].pc = "check", ![r].room = b]
    BY <1>6 DEF ReadCode
  <2> QED BY <1>1, <1>3, <1>5, <2>1
<1>7. CASE CheckRedemption(r)
  <2>1. \/ claim' = [claim EXCEPT ![r] = IdleClaim]
        \/ \E pc \in {"comp", "insert"} : claim' = [claim EXCEPT ![r].pc = pc]
    BY <1>7 DEF CheckRedemption
  <2> QED BY <1>1, <1>2, <1>3, <1>7, <2>1
<1>8. CASE InsertRedemption(r)
  <2> DEFINE already == claim[r].firm \in redeemed[claim[r].code]
  <2>1. claim' = [claim EXCEPT ![r].pc = IF already THEN "comp" ELSE "count"]
    BY <1>8 DEF InsertRedemption
  <2>2. claim'[r].pc = IF already THEN "comp" ELSE "count"
    BY <1>2, <2>1
  <2> QED BY <1>1, <1>2, <1>8, <2>1, <2>2
<1>9. CASE CountRedemption(r)
  <2>1. claim' = [claim EXCEPT ![r].pc = "comp"]
    BY <1>9 DEF CountRedemption
  <2>2. /\ \A q \in Redeemer \ {r} : claim'[q] = claim[q]
        /\ claim'[r].firm = claim[r].firm /\ claim'[r].code = claim[r].code
        /\ claim'[r].pc = "comp"
    BY <1>2, <2>1
  <2> QED BY <1>1, <1>9, <2>2
<1>10. CASE ApplyComp(r) \/ FailRedeem(r)
  BY <1>1, <1>3, <1>10 DEF ApplyComp, FailRedeem
<1> QED BY <1>1, <1>4, <1>6, <1>7, <1>8, <1>9, <1>10 DEF RedeemStep

LEMMA RedeemEarned ==
    ASSUME TypeInv, EarnedInv, NEW r \in Redeemer, RedeemStep(r)
    PROVE  EarnedInv'
<1>0. /\ \A q \in Redeemer \ {r} : claim'[q] = claim[q]
      /\ claim'[r].pc \in {"count", "comp"} =>
           claim'[r].firm = claim[r].firm /\ claim'[r].code = claim[r].code
      /\ UNCHANGED <<external, customer, hook>>
      /\ sub \in [Firm -> [status : {"absent"} \cup Status, comp : BOOLEAN]]
      /\ redeemed \in [Code -> SUBSET Firm]
      /\ claim[r].pc # "idle" => claim[r].firm \in Firm /\ claim[r].code \in Code
  BY ClaimFrame DEF TypeInv, TypeOK
<1>1. /\ \A k \in Code : redeemed[k] \subseteq redeemed'[k]
      /\ InsertRedemption(r) => claim[r].firm \in redeemed'[claim[r].code]
  <2>1. CASE InsertRedemption(r)
    <3>1. /\ redeemed' = [redeemed EXCEPT ![claim[r].code] = @ \cup {claim[r].firm}]
          /\ claim[r].code \in Code
      BY <1>0, <2>1 DEF InsertRedemption
    <3> QED BY <1>0, <3>1
  <2>2. CASE ~InsertRedemption(r)
    <3>1. redeemed' = redeemed
      BY <2>2 DEF RedeemStep, RequestRedeem, ReadCode, CheckRedemption, CountRedemption,
                  ApplyComp, FailRedeem
    <3> QED BY <2>2, <3>1
  <2> QED BY <2>1, <2>2
<1>2. \A q \in Redeemer :
        claim'[q].pc \in {"count", "comp"} => claim'[q].firm \in redeemed'[claim'[q].code]
  <2>1. ASSUME NEW q \in Redeemer \ {r}, claim[q].pc \in {"count", "comp"}
        PROVE  claim[q].firm \in redeemed'[claim[q].code]
    BY <1>1, <2>1 DEF EarnedInv, TypeInv
  <2>2. ASSUME claim'[r].pc \in {"count", "comp"}
        PROVE  claim[r].firm \in redeemed'[claim[r].code]
    <3>1. CASE InsertRedemption(r)
      BY <1>1, <3>1
    <3>2. CASE CheckRedemption(r) \/ CountRedemption(r)
      <4>1. claim[r].firm \in redeemed[claim[r].code] /\ claim[r].code \in Code
        <5>1. CASE CountRedemption(r)
          BY <1>0, <5>1 DEF CountRedemption, EarnedInv
        <5>2. CASE CheckRedemption(r) /\ claim[r].firm \in redeemed[claim[r].code]
          BY <1>0, <5>2 DEF CheckRedemption
        <5>3. CASE CheckRedemption(r) /\ claim[r].firm \notin redeemed[claim[r].code]
          <6>1. claim' = [claim EXCEPT ![r] = IdleClaim] \/ claim' = [claim EXCEPT ![r].pc = "insert"]
            BY <5>3 DEF CheckRedemption
          <6>2. claim \in [Redeemer -> Claim] /\ claim[r] \in Claim
            BY DEF TypeInv, TypeOK
          <6>3. claim'[r] = IdleClaim \/ claim'[r] = [claim[r] EXCEPT !.pc = "insert"]
            BY <6>1, <6>2
          <6>4. claim'[r].pc = "idle" \/ claim'[r].pc = "insert"
            BY <6>2, <6>3 DEF IdleClaim, Claim
          <6> QED BY <2>2, <6>4
        <5> QED BY <3>2, <5>1, <5>2, <5>3
      <4> QED BY <1>1, <4>1
    <3> QED BY <2>2, <3>1, <3>2, ClaimFrame
  <2> QED BY <1>0, <2>1, <2>2
<1>3. \A f \in Firm : \/ sub'[f] = sub[f]
                      \/ /\ f \in redeemed[claim[r].code]
                         /\ claim[r].code \in Code
  <2>1. CASE ApplyComp(r)
    <3>1. /\ claim[r].pc = "comp"
          /\ sub' = [sub EXCEPT ![claim[r].firm] =
                      [status |-> IF @.status = "absent" THEN "active" ELSE @.status, comp |-> TRUE]]
      BY <2>1 DEF ApplyComp
    <3>2. claim[r].firm \in redeemed[claim[r].code] /\ claim[r].code \in Code
      BY <1>0, <3>1 DEF EarnedInv
    <3> QED BY <1>0, <3>1, <3>2
  <2>2. CASE ~ApplyComp(r)
    BY <2>2 DEF RedeemStep, RequestRedeem, ReadCode, CheckRedemption, InsertRedemption,
                CountRedemption, FailRedeem
  <2> QED BY <2>1, <2>2
<1>4. \A f \in Firm : Redeemed(f) => Redeemed(f)'
  BY <1>1 DEF Redeemed
<1>5. \A f \in Firm : Paid(f) => Paid(f)'
  BY <1>0 DEF Paid, external
<1>6. \A f \in Firm : /\ sub'[f].comp => Redeemed(f)'
                      /\ sub'[f].status \in {"active", "past_due"} => Paid(f)' \/ Redeemed(f)'
  <2> SUFFICES ASSUME NEW f \in Firm
               PROVE  /\ sub'[f].comp => Redeemed(f)'
                      /\ sub'[f].status \in {"active", "past_due"} => Paid(f)' \/ Redeemed(f)'
    OBVIOUS
  <2>1. CASE sub'[f] = sub[f]
    BY <1>4, <1>5, <2>1 DEF EarnedInv
  <2>2. CASE f \in redeemed[claim[r].code] /\ claim[r].code \in Code
    BY <1>4, <2>2 DEF Redeemed
  <2> QED BY <1>3, <2>1, <2>2
<1> QED BY <1>0, <1>2, <1>6 DEF EarnedInv, SessionOK, CustomerOK, WriterOK, external

LEMMA NextEarned ==
    ASSUME TypeInv, EarnedInv, [Next]_vars
    PROVE  EarnedInv'
<1>1. CASE UNCHANGED vars
  BY <1>1 DEF vars, external, codes, EarnedInv, SessionOK, CustomerOK, WriterOK, Paid, Redeemed
<1>2. CASE OperatorStep
  <2>1. UNCHANGED <<external, customer, sub, hook, claim, redeemed>>
    BY <1>2 DEF OperatorStep, CreateCompCode, ExpireCode, OperatorOnly
  <2> QED BY <2>1 DEF external, EarnedInv, SessionOK, CustomerOK, WriterOK, Paid, Redeemed
<1> QED BY <1>1, <1>2, StripeEarned, HookEarned, RedeemEarned DEF Next

\* An entitled firm redeemed a code, or Stripe emitted an entitled event of one of
\* its own subscriptions: a delivery never writes another firm's row.
THEOREM AccessIsEarned == Spec => []AccessEarned
<1>1. Init => TypeInv /\ EarnedInv
  BY InitType DEF Init, TypeInv, IdleHook, IdleClaim, EarnedInv, SessionOK, CustomerOK, WriterOK
<1>2. TypeInv /\ EarnedInv /\ [Next]_vars => TypeInv' /\ EarnedInv'
  BY NextType, NextEarned
<1>3. EarnedInv => AccessEarned
  BY DEF EarnedInv, AccessEarned, Entitled, Paid, Redeemed
<1> QED BY <1>1, <1>2, <1>3, PTL DEF Spec

-----------------------------------------------------------------------------
\* The requests that inserted a redemption and have not counted it yet.
Counting(k) == {r \in Redeemer : claim[r].pc = "count" /\ claim[r].code = k}

SlotsInv ==
    \A k \in Code :
        /\ IsFiniteSet(redeemed[k])
        /\ IsFiniteSet(Counting(k))
        /\ count[k] + Cardinality(Counting(k)) <= Cardinality(redeemed[k])

LEMMA RedeemSlots ==
    ASSUME TypeInv, SlotsInv, NEW r \in Redeemer, RedeemStep(r)
    PROVE  SlotsInv'
<1> DEFINE c == claim[r].code
           f == claim[r].firm
<1>0. /\ \A q \in Redeemer \ {r} : claim'[q] = claim[q]
      /\ claim'[r].pc \in {"count", "comp"} => claim'[r].code = c
      /\ count \in [Code -> Nat] /\ redeemed \in [Code -> SUBSET Firm]
      /\ claim[r].pc # "idle" => c \in Code
  BY ClaimFrame DEF TypeInv, TypeOK
<1>1. \A k \in Code : /\ IsFiniteSet(redeemed[k]) /\ Cardinality(redeemed[k]) \in Nat
                      /\ IsFiniteSet(Counting(k)) /\ Cardinality(Counting(k)) \in Nat
                      /\ count[k] \in Nat
                      /\ count[k] + Cardinality(Counting(k)) <= Cardinality(redeemed[k])
  BY <1>0, FS_CardinalityType DEF SlotsInv
<1>2. ASSUME claim'[r].pc # "count"
      PROVE  \A k \in Code : /\ IsFiniteSet(Counting(k)') /\ Cardinality(Counting(k)') \in Nat
                             /\ Cardinality(Counting(k)') <= Cardinality(Counting(k))
  <2> SUFFICES ASSUME NEW k \in Code
               PROVE  /\ IsFiniteSet(Counting(k)') /\ Cardinality(Counting(k)') \in Nat
                      /\ Cardinality(Counting(k)') <= Cardinality(Counting(k))
    OBVIOUS
  <2>1. Counting(k)' \subseteq Counting(k)
    BY <1>0, <1>2 DEF Counting
  <2> QED BY <1>1, <2>1, FS_Subset, FS_CardinalityType
<1>3. CASE claim'[r].pc = "count"
  <2>1. /\ redeemed' = [redeemed EXCEPT ![c] = @ \cup {f}] /\ f \notin redeemed[c]
        /\ count' = count /\ claim[r].pc = "insert" /\ c \in Code
    BY <1>0, <1>3, ClaimFrame DEF InsertRedemption
  <2> SUFFICES ASSUME NEW k \in Code
               PROVE  /\ IsFiniteSet(redeemed'[k])
                      /\ IsFiniteSet(Counting(k)')
                      /\ count'[k] + Cardinality(Counting(k)') <= Cardinality(redeemed'[k])
    BY DEF SlotsInv
  <2>2. CASE k = c
    <3>1. Counting(k)' = Counting(k) \cup {r} /\ r \notin Counting(k)
      BY <1>0, <1>3, <2>1, <2>2 DEF Counting
    <3>2. redeemed'[k] = redeemed[k] \cup {f}
      BY <1>0, <2>1, <2>2
    <3>3. /\ IsFiniteSet(Counting(k)') /\ Cardinality(Counting(k)') = Cardinality(Counting(k)) + 1
      BY <1>1, <3>1, FS_AddElement
    <3>4. /\ IsFiniteSet(redeemed'[k]) /\ Cardinality(redeemed'[k]) = Cardinality(redeemed[k]) + 1
      <4>1. IsFiniteSet(redeemed[k]) /\ f \notin redeemed[k]
        BY <1>1, <2>1, <2>2
      <4> HIDE DEF f
      <4> QED BY <3>2, <4>1, FS_AddElement
    <3> QED BY <1>1, <2>1, <3>3, <3>4
  <2>3. CASE k # c
    <3>1. Counting(k)' = Counting(k)
      BY <1>0, <1>3, <2>1, <2>3 DEF Counting
    <3>2. redeemed'[k] = redeemed[k]
      BY <1>0, <2>1, <2>3
    <3> QED BY <1>1, <2>1, <3>1, <3>2
  <2> QED BY <2>2, <2>3
<1>4. CASE CountRedemption(r)
  <2>1. /\ count' = [count EXCEPT ![c] = @ + 1] /\ redeemed' = redeemed
        /\ claim[r].pc = "count" /\ c \in Code
    BY <1>0, <1>4 DEF CountRedemption
  <2>2. claim'[r].pc # "count"
    BY <2>1, ClaimFrame DEF InsertRedemption
  <2> SUFFICES ASSUME NEW k \in Code
               PROVE  /\ IsFiniteSet(redeemed'[k])
                      /\ IsFiniteSet(Counting(k)')
                      /\ count'[k] + Cardinality(Counting(k)') <= Cardinality(redeemed'[k])
    BY DEF SlotsInv
  <2>3. CASE k = c
    <3>1. Counting(k)' = Counting(k) \ {r} /\ r \in Counting(k)
      BY <1>0, <2>1, <2>2, <2>3 DEF Counting
    <3>2. IsFiniteSet(Counting(k)') /\ Cardinality(Counting(k)') = Cardinality(Counting(k)) - 1
      BY <1>1, <3>1, FS_RemoveElement
    <3>3. count'[k] = count[k] + 1
      BY <1>0, <2>1, <2>3
    <3> QED BY <1>1, <2>1, <3>2, <3>3
  <2>4. CASE k # c
    <3>1. count'[k] = count[k]
      BY <1>0, <2>1, <2>4
    <3> QED BY <1>1, <1>2, <2>1, <2>2, <3>1
  <2> QED BY <2>3, <2>4
<1>5. CASE claim'[r].pc # "count" /\ ~CountRedemption(r)
  <2>1. count' = count
    BY <1>5 DEF RedeemStep, RequestRedeem, ReadCode, CheckRedemption, InsertRedemption,
                ApplyComp, FailRedeem
  <2>2. redeemed' = redeemed
    <3>1. CASE InsertRedemption(r)
      <4>1. f \in redeemed[c] /\ c \in Code
        <5>1. claim' = [claim EXCEPT ![r].pc = IF f \in redeemed[c] THEN "comp" ELSE "count"]
          BY <3>1 DEF InsertRedemption
        <5>2. claim \in [Redeemer -> Claim] /\ claim[r] \in Claim
          BY DEF TypeInv, TypeOK
        <5>3. f \notin redeemed[c] => claim'[r] = [claim[r] EXCEPT !.pc = "count"]
          BY <5>1, <5>2
        <5>4. f \notin redeemed[c] => claim'[r].pc = "count"
          BY <5>2, <5>3 DEF Claim
        <5> QED BY <1>0, <1>5, <3>1, <5>4 DEF InsertRedemption
      <4>2. redeemed' = [redeemed EXCEPT ![c] = @ \cup {f}]
        BY <3>1 DEF InsertRedemption
      <4>3. redeemed[c] \cup {f} = redeemed[c]
        BY <4>1
      <4>4. redeemed' = [redeemed EXCEPT ![c] = redeemed[c]]
        BY <4>2, <4>3
      <4> QED BY <1>0, <4>4
    <3>2. CASE ~InsertRedemption(r)
      BY <1>5, <3>2 DEF RedeemStep, RequestRedeem, ReadCode, CheckRedemption, ApplyComp, FailRedeem
    <3> QED BY <3>1, <3>2
  <2> QED BY <1>1, <1>2, <1>5, <2>1, <2>2 DEF SlotsInv
<1> QED BY <1>3, <1>4, <1>5

LEMMA NextSlots ==
    ASSUME TypeInv, SlotsInv, [Next]_vars
    PROVE  SlotsInv'
<1>1. CASE UNCHANGED <<claim, count, redeemed>>
  BY <1>1 DEF SlotsInv, Counting
<1>2. StripeStep => UNCHANGED <<claim, count, redeemed>>
  BY DEF StripeStep, OpenCheckout, CompleteCheckout, BillInvoice, CancelSubscription, StripeOnly, codes
<1>3. OperatorStep => UNCHANGED <<claim, count, redeemed>>
  BY DEF OperatorStep, CreateCompCode, ExpireCode, OperatorOnly
<1>4. ASSUME NEW h \in Handler, HookStep(h)
      PROVE  UNCHANGED <<claim, count, redeemed>>
  BY <1>4, HookFrame DEF codes
<1> QED BY <1>1, <1>2, <1>3, <1>4, RedeemSlots DEF Next, vars, codes

\* The count of a code never runs ahead of the firms that redeemed it.
THEOREM SlotsAreFirms == Spec => []SlotsCountFirms
<1>1. Init => TypeInv /\ SlotsInv
  <2> SUFFICES ASSUME Init PROVE TypeInv /\ SlotsInv
    OBVIOUS
  <2>1. TypeInv
    BY InitType DEF Init, TypeInv, IdleHook, IdleClaim
  <2>2. \A k \in Code : Counting(k) = {} /\ redeemed[k] = {} /\ count[k] = 0
    BY DEF Init, Counting, IdleClaim
  <2>3. SlotsInv
    BY <2>2, FS_EmptySet DEF SlotsInv
  <2> QED BY <2>1, <2>3
<1>2. TypeInv /\ SlotsInv /\ [Next]_vars => TypeInv' /\ SlotsInv'
  BY NextType, NextSlots
<1>3. TypeInv /\ SlotsInv => SlotsCountFirms
  <2> SUFFICES ASSUME TypeInv, SlotsInv, NEW k \in Code
               PROVE  count[k] <= Cardinality(redeemed[k])
    BY DEF SlotsCountFirms
  <2>1. Cardinality(Counting(k)) \in Nat /\ Cardinality(redeemed[k]) \in Nat /\ count[k] \in Nat
    BY FS_CardinalityType DEF SlotsInv, TypeInv, TypeOK
  <2> QED BY <2>1 DEF SlotsInv
<1> QED BY <1>1, <1>2, <1>3, PTL DEF Spec
=============================================================================
