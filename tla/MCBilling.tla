------------------------------ MODULE MCBilling -----------------------------
EXTENDS Billing, TLC
CONSTANTS f1, f2, s1, s2, k1, h1, h2, r1, r2

\* Two scenarios, told apart for good by the initial state: deliveries race over
\* several subscriptions, or redemptions of a code race with each other and with
\* the events of one firm that pays.
VARIABLE scene

MCSymmetry == UNION {Permutations(S) : S \in {Firm, Subscription, Handler, Redeemer} \ {{}}}

\* A later moment: one firm pays, and the events of its checkout were applied.
PayingInit == \E f \in Firm, s \in Subscription :
    /\ stripe = [t \in Subscription |->
                   IF t = s THEN [firm |-> f, customer |-> s, status |-> "active"]
                   ELSE [firm |-> NoFirm, customer |-> NoCustomer, status |-> "unused"]]
    /\ sent = <<Note("subscription", s, "active"), Note("checkout", s, "active")>>
    /\ acked = {1, 2}
    /\ customer = [g \in Firm |-> IF g = f THEN s ELSE NoCustomer]
    /\ sub = [g \in Firm |-> [status |-> IF g = f THEN "active" ELSE "absent", comp |-> FALSE]]
    /\ logged = {1, 2}
    /\ slots = [k \in Code |-> 0]
    /\ live = [k \in Code |-> FALSE]
    /\ count = [k \in Code |-> 0]
    /\ redeemed = [k \in Code |-> {}]
    /\ hook = [h \in Handler |-> IdleHook]
    /\ claim = [r \in Redeemer |-> IdleClaim]
    /\ dispatched = [e \in EventId |-> IF e \in {1, 2} THEN 1 ELSE 0]
    /\ granted = {}

ScenarioInit ==
    \/ scene = "events" /\ Init
    \/ scene = "codes" /\ PayingInit

ScenarioNext ==
    /\ Next
    /\ UNCHANGED scene
    /\ scene = "events" => UNCHANGED <<codes, claim>>
    /\ scene = "codes" =>
         /\ Len(sent') <= 3
         /\ \A h, i \in Handler : h = i \/ hook'[h] = IdleHook \/ hook'[i] = IdleHook
         /\ \A s \in Subscription : stripe[s].status = "unused" => stripe'[s] = stripe[s]

ScenarioSpec == ScenarioInit /\ [][ScenarioNext]_<<vars, scene>>
=============================================================================
