---------------------------- MODULE Provisioning ----------------------------
(***************************************************************************)
(* How a firm and its people come to exist: Clerk's webhook               *)
(* (server/clerk-webhook.ts), the invitations (invite.ts,                  *)
(* invite-advisor.ts, collaborators.ts), the default agreement             *)
(* (agreements.ts) and the draft that an advisor shares with the client    *)
(* (client-portal.ts).  No handler opens a transaction: every statement    *)
(* commits by itself and a handler may end after any of them.  Clerk       *)
(* delivers an event until one delivery is acknowledged, so deliveries of  *)
(* one event may repeat and overlap.                                       *)
(*                                                                         *)
(* One engagement of the firm of organization Home is modelled, with the   *)
(* people that may be invited to it.  All firms and organizations share a  *)
(* name: the lookup by name is where two of them can meet.                 *)
(***************************************************************************)
EXTENDS Integers, FiniteSets

CONSTANTS Org,           \* Clerk organizations
          Home,          \* the organization of the engagement's firm
          Firm,          \* rows that table firms may come to hold
          Staff,         \* people invited as advisors
          Owner,         \* people invited as owners of the company
          Collaborator,  \* people invited to the engagement, view-only
          SeatLimit,     \* staff seats of the firm's plan
          Hook,          \* webhook deliveries that may be in progress at once
          Desk           \* advisor and client requests in progress at once

Person == Staff \cup Owner \cup Collaborator
Event == Org \cup Person          \* organization.created, membership.created

Unborn == "unborn"
Unlinked == "unlinked"

ASSUME ProvisioningAssumption ==
  /\ Home \in Org /\ SeatLimit \in Nat
  /\ Org \cap Person = {} /\ Unborn \notin Org /\ Unlinked \notin Org

VARIABLES link,       \* firms.clerk_org_id: a row's organization, if any
          agreement,  \* the firms with an active default agreement version
          profile,    \* the people with a row in profiles
          roster,     \* engagement_collaborators.status; only an active row
                      \* holds a user_id
          invited,    \* people with an open Clerk invitation
          member,     \* people who joined the Clerk organization
          owed,       \* events Clerk still has to deliver
          settled,    \* events acknowledged at least once
          hook,       \* the deliveries in progress
          desk,       \* the requests in progress
          draft,      \* the assessment the advisor shares with the client
          dismissed,  \* history: people whose profile a revocation deleted
          ousted      \* history: organizations whose firm was linked to another

firmVars == <<link, agreement, ousted>>
peopleVars == <<profile, roster, dismissed>>
clerkVars == <<invited, member>>
eventVars == <<owed, settled>>
provisioningVars ==
  <<firmVars, peopleVars, clerkVars, eventVars, hook, desk, draft>>

NoOne == "no one"
NoFirm == "no firm"
IdleHook == [step |-> "idle", event |-> NoOne, firm |-> NoFirm]
IdleDesk == [step |-> "idle", task |-> "none", who |-> NoOne]

HookStep == {"idle", "seek", "by name", "link", "insert", "seed",
             "profile", "roster", "answer"}
DeskStep == {"idle", "read", "check", "upsert", "send", "mark", "remove",
             "strike", "update"}
Task == {"none", "owner", "staff", "collaborator", "revoke", "share", "submit"}

(* Every table, delivery and request holds values of its own kind: one type *)
(* invariant for server/clerk-webhook.ts and the invitation modules.        *)
ProvisioningTypeOK ==
  /\ link \in [Firm -> Org \cup {Unborn, Unlinked}]
  /\ agreement \subseteq Firm /\ ousted \subseteq Org
  /\ profile \subseteq Person /\ dismissed \subseteq Collaborator
  /\ roster \in [Collaborator -> {"none", "invited", "active", "revoked"}]
  /\ invited \subseteq Person /\ member \subseteq Person
  /\ owed \subseteq Event /\ settled \subseteq Event
  /\ hook \in [Hook -> [step : HookStep, event : Event \cup {NoOne},
                        firm : Firm \cup {NoFirm}]]
  /\ desk \in [Desk -> [step : DeskStep, task : Task, who : Person \cup {NoOne}]]
  /\ draft \in [open : BOOLEAN, shared : BOOLEAN, submitted : BOOLEAN]

(* admin.ts create-firm may have inserted the firm before its organization *)
(* is heard of; a firm that predates the seeding has no agreement; not      *)
(* every organization of Clerk need be announced, and the membership of the *)
(* one who founds it may be delivered before it.                            *)
ProvisioningInit ==
  /\ link \in [Firm -> {Unborn, Unlinked}]
  /\ agreement = {} /\ ousted = {}
  /\ profile = {} /\ dismissed = {}
  /\ roster = [p \in Collaborator |-> "none"]
  /\ owed \in SUBSET (Org \cup Staff) /\ settled = {}
  /\ invited = {} /\ member = owed \cap Staff
  /\ hook = [w \in Hook |-> IdleHook]
  /\ desk = [d \in Desk |-> IdleDesk]
  /\ draft = [open |-> TRUE, shared |-> FALSE, submitted |-> FALSE]

Linked(o) == {f \in Firm : link[f] = o}

-----------------------------------------------------------------------------
(* Deliveries of Clerk's events.                                            *)

HookAt(w, step) == hook[w].step = step
HookGoes(w, step, firm) ==
  hook' = [hook EXCEPT ![w].step = step, ![w].firm = firm]

Deliver(w) ==
  /\ HookAt(w, "idle")
  /\ \E e \in owed :
       hook' = [hook EXCEPT ![w] = [IdleHook EXCEPT !.step = "seek", !.event = e]]
  /\ UNCHANGED <<firmVars, peopleVars, clerkVars, eventVars, desk, draft>>

(* Faulty variants: a firm that is linked already is not seeded; a           *)
(* membership of an organization that is not linked yet is acknowledged.     *)
SeekFirmUnseeded(w) ==
  /\ HookAt(w, "seek")
  /\ LET e == hook[w].event IN
       IF e \in Org
         THEN \/ \E f \in Linked(e) : HookGoes(w, "answer", f)
              \/ Linked(e) = {} /\ HookGoes(w, "by name", NoFirm)
         ELSE Linked(Home) # {} /\ HookGoes(w, "profile", NoFirm)
  /\ UNCHANGED <<firmVars, peopleVars, clerkVars, eventVars, desk, draft>>

SeekFirmAnyway(w) ==
  /\ HookAt(w, "seek")
  /\ LET e == hook[w].event IN
       IF e \in Org
         THEN \/ \E f \in Linked(e) : HookGoes(w, "seed", f)
              \/ Linked(e) = {} /\ HookGoes(w, "by name", NoFirm)
         ELSE HookGoes(w, IF Linked(Home) # {} THEN "profile" ELSE "answer", NoFirm)
  /\ UNCHANGED <<firmVars, peopleVars, clerkVars, eventVars, desk, draft>>

(* The firm linked to the organization.  A membership whose organization   *)
(* is not linked yet is refused, for Clerk to deliver it again.             *)
SeekFirm(w) ==
  /\ HookAt(w, "seek")
  /\ LET e == hook[w].event IN
       IF e \in Org
         THEN \/ \E f \in Linked(e) : HookGoes(w, "seed", f)
              \/ Linked(e) = {} /\ HookGoes(w, "by name", NoFirm)
         ELSE \/ Linked(Home) # {} /\ HookGoes(w, "profile", NoFirm)
              \/ Linked(Home) = {} /\ hook' = [hook EXCEPT ![w] = IdleHook]
  /\ UNCHANGED <<firmVars, peopleVars, clerkVars, eventVars, desk, draft>>

(* A firm of that name without an organization.                             *)
SeekByName(w) ==
  /\ HookAt(w, "by name")
  /\ LET unlinked == {f \in Firm : link[f] = Unlinked} IN
       \/ \E f \in unlinked : HookGoes(w, "link", f)
       \/ unlinked = {} /\ HookGoes(w, "insert", NoFirm)
  /\ UNCHANGED <<firmVars, peopleVars, clerkVars, eventVars, desk, draft>>

(* The update names the row found, whatever organization it has by now; an *)
(* organization linked elsewhere violates the unique index.                 *)
LinkFirm(w) ==
  /\ HookAt(w, "link")
  /\ Linked(hook[w].event) \subseteq {hook[w].firm}
  /\ link' = [link EXCEPT ![hook[w].firm] = hook[w].event]
  /\ ousted' = ousted \cup ({link[hook[w].firm]} \cap (Org \ {hook[w].event}))
  /\ HookGoes(w, "seed", hook[w].firm)
  /\ UNCHANGED <<agreement, peopleVars, clerkVars, eventVars, desk, draft>>

InsertFirm(w) ==
  /\ HookAt(w, "insert")
  /\ Linked(hook[w].event) = {}
  /\ \E f \in Firm :
       /\ link[f] = Unborn
       /\ link' = [link EXCEPT ![f] = hook[w].event]
       /\ HookGoes(w, "seed", f)
  /\ UNCHANGED <<agreement, ousted, peopleVars, clerkVars, eventVars, desk, draft>>

(* ensureDefaultAgreementVersion, on every path through provisionFirm.      *)
SeedAgreement(w) ==
  /\ HookAt(w, "seed")
  /\ agreement' = agreement \cup {hook[w].firm}
  /\ HookGoes(w, "answer", hook[w].firm)
  /\ UNCHANGED <<link, ousted, peopleVars, clerkVars, eventVars, desk, draft>>

(* The profile is inserted unless the person has one.  Only the delivery   *)
(* that inserts a collaborator goes on to the roster.                       *)
InsertProfile(w) ==
  /\ HookAt(w, "profile")
  /\ LET p == hook[w].event IN
       /\ profile' = profile \cup {p}
       /\ HookGoes(w, IF p \in Collaborator \ profile THEN "roster" ELSE "answer",
                   NoFirm)
  /\ UNCHANGED <<firmVars, roster, dismissed, clerkVars, eventVars, desk, draft>>

ActivateRoster(w) ==
  /\ HookAt(w, "roster")
  /\ LET p == hook[w].event IN
       roster' = [roster EXCEPT ![p] = IF @ \in {"none", "revoked"} THEN @ ELSE "active"]
  /\ HookGoes(w, "answer", NoFirm)
  /\ UNCHANGED <<firmVars, profile, dismissed, clerkVars, eventVars, desk, draft>>

Acknowledge(w) ==
  /\ HookAt(w, "answer")
  /\ owed' = owed \ {hook[w].event}
  /\ settled' = settled \cup {hook[w].event}
  /\ hook' = [hook EXCEPT ![w] = IdleHook]
  /\ UNCHANGED <<firmVars, peopleVars, clerkVars, desk, draft>>

(* A statement fails, the process dies, or the answer is lost: the event    *)
(* is still owed and Clerk delivers it again.                               *)
DeliveryFails(w) ==
  /\ hook[w].step # "idle"
  /\ hook' = [hook EXCEPT ![w] = IdleHook]
  /\ UNCHANGED <<firmVars, peopleVars, clerkVars, eventVars, desk, draft>>

(* An invited person joins the organization.                                *)
AcceptInvitation(p) ==
  /\ p \in invited \ member
  /\ invited' = invited \ {p}
  /\ member' = member \cup {p}
  /\ owed' = owed \cup {p}
  /\ UNCHANGED <<firmVars, peopleVars, settled, hook, desk, draft>>

-----------------------------------------------------------------------------
(* Requests of advisors and clients.                                        *)

DeskAt(d, task, step) == desk[d].task \in task /\ desk[d].step = step
DeskGoes(d, step) == desk' = [desk EXCEPT ![d].step = step]
DeskDone(d) == desk' = [desk EXCEPT ![d] = IdleDesk]

Ask(d) ==
  /\ desk[d].step = "idle"
  /\ \E task \in Task \ {"none"} :
       \E who \in CASE task \in {"owner", "share"} -> Owner
                    [] task = "staff" -> Staff
                    [] task \in {"collaborator", "revoke"} -> Collaborator
                    [] OTHER -> {NoOne} :
         desk' = [desk EXCEPT ![d] =
                    [task |-> task, who |-> who,
                     step |-> IF task \in {"owner", "staff", "collaborator"}
                                THEN "check" ELSE "read"]]
  /\ UNCHANGED <<firmVars, peopleVars, clerkVars, eventVars, hook, draft>>

(* An existing owner, a full plan or a collaborator already on the team     *)
(* ends the invitation before anything is written.                          *)
CheckInvitee(d) ==
  /\ \/ /\ DeskAt(d, {"owner", "share"}, "check")
        /\ IF Owner \cap profile = {} THEN DeskGoes(d, "send")
           ELSE IF desk[d].task = "share" THEN DeskGoes(d, "mark") ELSE DeskDone(d)
     \/ /\ DeskAt(d, {"staff"}, "check")
        /\ IF Cardinality(Staff \cap profile) < SeatLimit
             THEN DeskGoes(d, "send") ELSE DeskDone(d)
     \/ /\ DeskAt(d, {"collaborator"}, "check")
        /\ IF roster[desk[d].who] \in {"none", "revoked"}
             THEN DeskGoes(d, "upsert") ELSE DeskDone(d)
  /\ UNCHANGED <<firmVars, peopleVars, clerkVars, eventVars, hook, draft>>

(* The roster row is written before the invitation is sent, over whatever   *)
(* the row says by then.                                                    *)
UpsertRoster(d) ==
  /\ DeskAt(d, {"collaborator"}, "upsert")
  /\ roster' = [roster EXCEPT ![desk[d].who] = "invited"]
  /\ DeskGoes(d, "send")
  /\ UNCHANGED <<firmVars, profile, dismissed, clerkVars, eventVars, hook, draft>>

(* Clerk sends an invitation for an organization that is linked.            *)
SendInvitation(d) ==
  /\ desk[d].step = "send"
  /\ Linked(Home) # {}
  /\ invited' = invited \cup {desk[d].who}
  /\ IF desk[d].task = "share" THEN DeskGoes(d, "mark") ELSE DeskDone(d)
  /\ UNCHANGED <<firmVars, peopleVars, member, eventVars, hook, draft>>

(* revokeCollaborator reads the row, deletes the profile of the user it is  *)
(* linked to, and only then marks the row.                                  *)
ReadRoster(d) ==
  /\ DeskAt(d, {"revoke"}, "read")
  /\ CASE roster[desk[d].who] = "none" -> DeskDone(d)
       [] roster[desk[d].who] = "active" -> DeskGoes(d, "remove")
       [] OTHER -> DeskGoes(d, "strike")
  /\ UNCHANGED <<firmVars, peopleVars, clerkVars, eventVars, hook, draft>>

RemoveProfile(d) ==
  /\ DeskAt(d, {"revoke"}, "remove")
  /\ profile' = profile \ {desk[d].who}
  /\ dismissed' = dismissed \cup {desk[d].who}
  /\ DeskGoes(d, "strike")
  /\ UNCHANGED <<firmVars, roster, clerkVars, eventVars, hook, draft>>

StrikeRoster(d) ==
  /\ DeskAt(d, {"revoke"}, "strike")
  /\ roster' = [roster EXCEPT ![desk[d].who] = "revoked"]
  /\ DeskDone(d)
  /\ UNCHANGED <<firmVars, profile, dismissed, clerkVars, eventVars, hook, draft>>

(* shareAssessmentWithClient: the status is read first; an owner without a  *)
(* profile is invited; the flag is set at the end, whatever the status.     *)
ReadDraft(d) ==
  /\ \/ /\ DeskAt(d, {"share"}, "read")
        /\ IF ~draft.open THEN DeskDone(d)
           ELSE DeskGoes(d, IF Owner \cap profile # {} THEN "mark" ELSE "check")
     \/ /\ DeskAt(d, {"submit"}, "read")
        /\ IF draft.open /\ draft.shared THEN DeskGoes(d, "update") ELSE DeskDone(d)
  /\ UNCHANGED <<firmVars, peopleVars, clerkVars, eventVars, hook, draft>>

MarkShared(d) ==
  /\ DeskAt(d, {"share"}, "mark")
  /\ draft' = [draft EXCEPT !.shared = TRUE]
  /\ DeskDone(d)
  /\ UNCHANGED <<firmVars, peopleVars, clerkVars, eventVars, hook>>

(* Faulty variant: the update names the assessment only.                    *)
MarkSubmittedById(d) ==
  /\ DeskAt(d, {"submit"}, "update")
  /\ draft' = [draft EXCEPT !.submitted = TRUE]
  /\ DeskDone(d)
  /\ UNCHANGED <<firmVars, peopleVars, clerkVars, eventVars, hook>>

(* submitClientIntake repeats the status in its update, which otherwise     *)
(* finds no row.                                                            *)
MarkSubmitted(d) ==
  /\ DeskAt(d, {"submit"}, "update")
  /\ draft' = [draft EXCEPT !.submitted = @ \/ draft.open]
  /\ DeskDone(d)
  /\ UNCHANGED <<firmVars, peopleVars, clerkVars, eventVars, hook>>

RequestAborts(d) ==
  /\ desk[d].step # "idle"
  /\ DeskDone(d)
  /\ UNCHANGED <<firmVars, peopleVars, clerkVars, eventVars, hook, draft>>

(* The advisor scores the draft (scoreAssessment, see AssessmentLifecycle). *)
CloseDraft ==
  /\ draft.open
  /\ draft' = [draft EXCEPT !.open = FALSE]
  /\ UNCHANGED <<firmVars, peopleVars, clerkVars, eventVars, hook, desk>>

-----------------------------------------------------------------------------
HookAction(w) ==
  \/ Deliver(w) \/ SeekFirm(w) \/ SeekByName(w) \/ LinkFirm(w) \/ InsertFirm(w)
  \/ SeedAgreement(w) \/ InsertProfile(w) \/ ActivateRoster(w)
  \/ Acknowledge(w) \/ DeliveryFails(w)

DeskAction(d) ==
  \/ Ask(d) \/ CheckInvitee(d) \/ UpsertRoster(d) \/ SendInvitation(d)
  \/ ReadRoster(d) \/ RemoveProfile(d) \/ StrikeRoster(d)
  \/ ReadDraft(d) \/ MarkShared(d) \/ MarkSubmitted(d) \/ RequestAborts(d)

ProvisioningNext ==
  \/ \E w \in Hook : HookAction(w)
  \/ \E d \in Desk : DeskAction(d)
  \/ \E p \in Person : AcceptInvitation(p)
  \/ CloseDraft

ProvisioningSpec == ProvisioningInit /\ [][ProvisioningNext]_provisioningVars

-----------------------------------------------------------------------------
(* An organization whose event was acknowledged has a firm that can start   *)
(* an engagement, whichever delivery failed before and wherever, and        *)
(* whatever deliveries about other organizations overlap with it: unless    *)
(* one of them took the firm (clerk-webhook.ts, provisionFirm: seeding      *)
(* never leaves a firm unreachable).                                        *)
FirmCanOnboard ==
  \A o \in (settled \cap Org) \ ousted : \E f \in agreement : link[f] = o

(* A person whose membership was acknowledged has a profile, or had one     *)
(* until an advisor revoked it: no membership is acknowledged away before   *)
(* its firm exists (provisionMembership).                                   *)
MembersProvisioned == settled \cap Person \subseteq profile \cup dismissed

(* The client's "ready for review" lands only on a draft that is shared and *)
(* still open, though both were read before the update                      *)
(* (submitClientIntake).                                                    *)
IntakeClosed ==
  [][draft'.submitted => draft.submitted \/ (draft.open /\ draft.shared)]_provisioningVars
=============================================================================
