----------------------------- MODULE MCAccounts -----------------------------
\* What surrounds an engagement: its firm and people, the ledger connection of its
\* company, its deletion.  The three share no table; the initial state says which one a
\* behaviour is about, and the others stay as they are.
EXTENDS Provisioning, LedgerConnect, Teardown, TLC

\* They share no identifiers either, so that one model value may stand for a firm here
\* and for a state there, and two permutations serve all components.
CONSTANTS a1, a2, b1, b2, o1, o2, p1, p2, p3

MCSymmetry == Permutations({a1, a2}) \cup Permutations({b1, b2})

VARIABLE part

accountVars == <<provisioningVars, ledgerVars, teardownVars, part>>

\* Provisioning is checked in three parts: organizations, collaborators, the draft.
PeoplePart == {"firms", "team", "intake"}

AccountsInit ==
    /\ part \in PeoplePart \cup {"ledger", "teardown"}
    /\ \E a, b \in Table : filled = IF part = "teardown" THEN {a, b} ELSE {}
    /\ owed = IF part = "firms" THEN Org \cup Staff ELSE {Home}
    /\ ProvisioningInit /\ LedgerInit /\ TeardownInit
    /\ part # "firms" => link = [f \in Firm |-> Unlinked]

TasksOf == CASE part = "team" -> {"none", "collaborator", "revoke"}
             [] part = "intake" -> {"none", "share", "submit", "staff"}
             [] OTHER -> {"none"}

\* Bounds: each part has its own tasks for the desks; for sharing, desks wait until
\* the firm is there, one of them at a time adds an owner or staff, and a delivery
\* about the organization is alone (among the events of organizations only, for the
\* team).
PeopleNext ==
    /\ ProvisioningNext
    /\ \A d \in Desk : desk'[d].task \in TasksOf
    /\ part = "intake" /\ Linked(Home) = {} => UNCHANGED desk
    /\ part = "intake" => Cardinality({d \in Desk : desk'[d].task \in {"share", "staff"}}) <= 1
    /\ \A g, h \in Hook :
         g # h /\ part # "firms" /\ hook'[g].event \in Org
           => hook'[h].event \notin IF part = "intake" THEN Event ELSE Org

AccountsNext ==
    /\ UNCHANGED part
    /\ \/ /\ part \in PeoplePart /\ PeopleNext
          /\ UNCHANGED <<ledgerVars, teardownVars>>
       \/ /\ part = "ledger" /\ LedgerNext /\ LedgerCallsApart'
          /\ UNCHANGED <<provisioningVars, teardownVars>>
       \/ /\ part = "teardown" /\ TeardownNext
          /\ UNCHANGED <<provisioningVars, ledgerVars>>

AccountsSpec == AccountsInit /\ [][AccountsNext]_accountVars

\* Each component's type invariant, over the behaviours that are about it.
AccountsTypeOK ==
    /\ part \in PeoplePart => ProvisioningTypeOK
    /\ part = "ledger" => LedgerTypeOK
    /\ part = "teardown" => TeardownTypeOK
=============================================================================
