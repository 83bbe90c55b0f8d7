--------------------------- MODULE AccountsProofs ---------------------------
(***************************************************************************)
(* Proofs about what surrounds an engagement: Provisioning for every       *)
(* number of organizations, firms, people, overlapping deliveries and      *)
(* requests; LedgerConnect for every number of states and requests;        *)
(* Teardown for every content of the engagement and whichever tables other *)
(* requests insert rows into; and the three together, as MCAccounts puts   *)
(* them.                                                                   *)
(***************************************************************************)
EXTENDS MCAccounts, TLAPS

\* Provisioning.
\* What a delivery relies on between its statements: the row it found or made, and
\* that a person it is about to acknowledge has been given a profile.
HookOK(w) ==
  LET h == hook[w] IN
  /\ h.step # "idle" => h.event \in Event
  /\ h.step \in {"by name", "link", "insert", "seed"} => h.event \in Org
  /\ h.step \in {"link", "seed"} => h.firm \in Firm
  /\ h.step \in {"profile", "roster"} => h.event \in Person
  /\ h.step \in {"roster", "answer"} => h.event \in Org \cup profile \cup dismissed

\* What a request relies on: whom it is about, and that the draft was shared when it
\* read it.
DeskOK(d) ==
  LET k == desk[d] IN
  /\ k.task \in {"owner", "share", "staff", "collaborator", "revoke"} => k.who \in Person
  /\ k.task = "revoke" => k.who \in Collaborator
  /\ k.step = "send" => k.task \in {"owner", "share", "staff", "collaborator"}
  /\ k.step = "update" => draft.shared

ProvisioningInv ==
  /\ ProvisioningTypeOK
  /\ \A w \in Hook : HookOK(w)
  /\ \A d \in Desk : DeskOK(d)
  /\ MembersProvisioned

-----------------------------------------------------------------------------
LEMMA ProvisioningInitInv == ProvisioningInit => ProvisioningInv
<1> SUFFICES ASSUME ProvisioningInit PROVE ProvisioningInv
  OBVIOUS
<1> USE DEF ProvisioningInit, IdleHook, IdleDesk
<1>1. ProvisioningTypeOK
  BY DEF ProvisioningTypeOK, HookStep, DeskStep, Task, Event, Person
<1>2. (\A w \in Hook : HookOK(w)) /\ (\A d \in Desk : DeskOK(d))
  BY DEF HookOK, DeskOK
<1>3. MembersProvisioned
  BY DEF MembersProvisioned
<1> QED BY <1>1, <1>2, <1>3 DEF ProvisioningInv

\* A delivery that becomes the well-formed record n, while no profile is lost, leaves
\* every delivery in order.
LEMMA HooksInOrder ==
  ASSUME ProvisioningInv, NEW w \in Hook, NEW n, hook' = [hook EXCEPT ![w] = n],
         n \in [step : HookStep, event : Event \cup {NoOne}, firm : Firm \cup {NoFirm}],
         n.step # "idle" => n.event \in Event,
         n.step \in {"by name", "link", "insert", "seed"} => n.event \in Org,
         n.step \in {"link", "seed"} => n.firm \in Firm,
         n.step \in {"profile", "roster"} => n.event \in Person,
         n.step \in {"roster", "answer"} => n.event \in Org \cup profile' \cup dismissed',
         profile \cup dismissed \subseteq profile' \cup dismissed'
  PROVE  /\ hook' \in [Hook -> [step : HookStep, event : Event \cup {NoOne},
                                firm : Firm \cup {NoFirm}]]
         /\ \A h \in Hook : HookOK(h)'
<1>1. hook \in [Hook -> [step : HookStep, event : Event \cup {NoOne},
                         firm : Firm \cup {NoFirm}]]
  BY DEF ProvisioningInv, ProvisioningTypeOK
<1>2. ASSUME NEW h \in Hook PROVE HookOK(h)'
  <2>1. CASE h = w
    BY <1>1, <2>1 DEF HookOK
  <2>2. CASE h # w
    BY <1>1, <2>2 DEF ProvisioningInv, HookOK
  <2> QED BY <2>1, <2>2
<1> QED BY <1>1, <1>2

\* A step of the deliveries leaves the requests in order.
LEMMA DesksKept ==
  ASSUME ProvisioningInv, UNCHANGED <<desk, draft>>
  PROVE  \A d \in Desk : DeskOK(d)'
BY DEF ProvisioningInv, DeskOK

LEMMA HookInv ==
  ASSUME ProvisioningInv, NEW w \in Hook, HookAction(w)
  PROVE  ProvisioningInv'
<1> DEFINE h == hook[w]
           Rec == [step : HookStep, event : Event \cup {NoOne}, firm : Firm \cup {NoFirm}]
<1>h. h \in Rec /\ hook \in [Hook -> Rec] /\ HookOK(w)
  BY DEF ProvisioningInv, ProvisioningTypeOK
<1>i. IdleHook \in Rec /\ IdleHook.step = "idle"
  BY DEF IdleHook, HookStep
<1>g. ASSUME NEW step \in HookStep, NEW f \in Firm \cup {NoFirm}, HookGoes(w, step, f),
             h.event \in Event,
             step \in {"by name", "link", "insert", "seed"} => h.event \in Org,
             step \in {"link", "seed"} => f \in Firm,
             step \in {"profile", "roster"} => h.event \in Person,
             step \in {"roster", "answer"} => h.event \in Org \cup profile' \cup dismissed',
             profile \cup dismissed \subseteq profile' \cup dismissed'
      PROVE  hook' \in [Hook -> Rec] /\ \A v \in Hook : HookOK(v)'
  <2> DEFINE n == [h EXCEPT !.step = step, !.firm = f]
  <2>1. n \in Rec /\ n.step = step /\ n.event = h.event /\ n.firm = f
    BY <1>h
  <2>2. hook' = [hook EXCEPT ![w] = n]
    BY <1>g, <1>h DEF HookGoes
  <2> HIDE DEF n
  <2> QED BY <1>g, <2>1, <2>2, HooksInOrder
<1> USE DEF HookAt, HookStep
<1>1. CASE Deliver(w)
  <2>1. PICK e \in owed :
             hook' = [hook EXCEPT ![w] = [IdleHook EXCEPT !.step = "seek", !.event = e]]
    BY <1>1 DEF Deliver
  <2>2. e \in Event
    BY DEF ProvisioningInv, ProvisioningTypeOK
  <2>3. UNCHANGED <<firmVars, peopleVars, clerkVars, eventVars, desk, draft>>
    BY <1>1 DEF Deliver
  <2>4. hook' \in [Hook -> Rec] /\ \A v \in Hook : HookOK(v)'
    BY <2>1, <2>2, <2>3, <1>i, HooksInOrder DEF IdleHook, peopleVars
  <2> QED BY <2>3, <2>4, DesksKept DEF ProvisioningInv, ProvisioningTypeOK, MembersProvisioned,
             firmVars, peopleVars, clerkVars, eventVars
<1>2. CASE SeekFirm(w)
  <2>1. UNCHANGED <<firmVars, peopleVars, clerkVars, eventVars, desk, draft>>
    BY <1>2 DEF SeekFirm
  <2>2. h.event \in Event /\ (h.event \notin Org => h.event \in Person)
    BY <1>2, <1>h DEF SeekFirm, HookOK, Event
  <2>3. \/ \E f \in Firm : h.event \in Org /\ HookGoes(w, "seed", f)
        \/ h.event \in Org /\ HookGoes(w, "by name", NoFirm)
        \/ h.event \in Person /\ HookGoes(w, "profile", NoFirm)
        \/ hook' = [hook EXCEPT ![w] = IdleHook]
    BY <1>2, <2>2 DEF SeekFirm, Linked
  <2>4. hook' \in [Hook -> Rec] /\ \A v \in Hook : HookOK(v)'
    <3>1. CASE \E f \in Firm : h.event \in Org /\ HookGoes(w, "seed", f)
      BY <3>1, <1>g, <2>1, <2>2 DEF peopleVars
    <3>2. CASE h.event \in Org /\ HookGoes(w, "by name", NoFirm)
      BY <3>2, <1>g, <2>1, <2>2 DEF peopleVars
    <3>3. CASE h.event \in Person /\ HookGoes(w, "profile", NoFirm)
      BY <3>3, <1>g, <2>1, <2>2 DEF peopleVars
    <3>4. CASE hook' = [hook EXCEPT ![w] = IdleHook]
      BY <3>4, <1>i, <2>1, HooksInOrder DEF peopleVars
    <3> QED BY <3>1, <3>2, <3>3, <3>4, <2>3
  <2> QED BY <2>1, <2>4, DesksKept DEF ProvisioningInv, ProvisioningTypeOK, MembersProvisioned,
             firmVars, peopleVars, clerkVars, eventVars
<1>3. CASE SeekByName(w)
  <2>1. UNCHANGED <<firmVars, peopleVars, clerkVars, eventVars, desk, draft>>
    BY <1>3 DEF SeekByName
  <2>2. h.event \in Org /\ h.event \in Event
    BY <1>3, <1>h DEF SeekByName, HookOK
  <2>3. (\E f \in Firm : HookGoes(w, "link", f)) \/ HookGoes(w, "insert", NoFirm)
    BY <1>3 DEF SeekByName
  <2>4. hook' \in [Hook -> Rec] /\ \A v \in Hook : HookOK(v)'
    BY <2>3, <1>g, <2>1, <2>2 DEF peopleVars
  <2> QED BY <2>1, <2>4, DesksKept DEF ProvisioningInv, ProvisioningTypeOK, MembersProvisioned,
             firmVars, peopleVars, clerkVars, eventVars
<1>4. CASE LinkFirm(w) \/ InsertFirm(w)
  <2>1. UNCHANGED <<agreement, peopleVars, clerkVars, eventVars, desk, draft>>
    BY <1>4 DEF LinkFirm, InsertFirm
  <2>2. h.event \in Org /\ h.event \in Event /\ (h.step = "link" => h.firm \in Firm)
    BY <1>4, <1>h DEF LinkFirm, InsertFirm, HookOK
  <2>3. \E f \in Firm : /\ HookGoes(w, "seed", f)
                        /\ link' = [link EXCEPT ![f] = h.event]
    BY <1>4, <2>2 DEF LinkFirm, InsertFirm
  <2>4. hook' \in [Hook -> Rec] /\ \A v \in Hook : HookOK(v)'
    BY <2>3, <1>g, <2>1, <2>2 DEF peopleVars
  <2>5. link' \in [Firm -> Org \cup {Unborn, Unlinked}]
    BY <2>2, <2>3 DEF ProvisioningInv, ProvisioningTypeOK
  <2>6. ousted' \subseteq Org
    BY <1>4 DEF LinkFirm, InsertFirm, ProvisioningInv, ProvisioningTypeOK
  <2> QED BY <2>1, <2>4, <2>5, <2>6, DesksKept DEF ProvisioningInv, ProvisioningTypeOK,
             MembersProvisioned, peopleVars, clerkVars, eventVars
<1>5. CASE SeedAgreement(w)
  <2>1. UNCHANGED <<link, ousted, peopleVars, clerkVars, eventVars, desk, draft>>
    BY <1>5 DEF SeedAgreement
  <2>2. h.event \in Org /\ h.event \in Event /\ h.firm \in Firm
    BY <1>5, <1>h DEF SeedAgreement, HookOK
  <2>3. HookGoes(w, "answer", h.firm) /\ agreement' = agreement \cup {h.firm}
    BY <1>5 DEF SeedAgreement
  <2>4. hook' \in [Hook -> Rec] /\ \A v \in Hook : HookOK(v)'
    BY <2>3, <1>g, <2>1, <2>2 DEF peopleVars
  <2> QED BY <2>1, <2>2, <2>3, <2>4, DesksKept DEF ProvisioningInv, ProvisioningTypeOK,
             MembersProvisioned, peopleVars, clerkVars, eventVars
<1>6. CASE InsertProfile(w)
  <2>1. UNCHANGED <<firmVars, roster, dismissed, clerkVars, eventVars, desk, draft>>
    BY <1>6 DEF InsertProfile
  <2>2. h.event \in Person /\ h.event \in Event
    BY <1>6, <1>h DEF InsertProfile, HookOK
  <2>3. /\ profile' = profile \cup {h.event}
        /\ HookGoes(w, "roster", NoFirm) \/ HookGoes(w, "answer", NoFirm)
    BY <1>6 DEF InsertProfile
  <2>4. hook' \in [Hook -> Rec] /\ \A v \in Hook : HookOK(v)'
    BY <2>3, <1>g, <2>1, <2>2
  <2> QED BY <2>1, <2>2, <2>3, <2>4, DesksKept DEF ProvisioningInv, ProvisioningTypeOK,
             MembersProvisioned, firmVars, clerkVars, eventVars
<1>7. CASE ActivateRoster(w)
  <2>1. UNCHANGED <<firmVars, profile, dismissed, clerkVars, eventVars, desk, draft>>
    BY <1>7 DEF ActivateRoster
  <2>2. h.event \in Event /\ h.event \in Org \cup profile \cup dismissed
    BY <1>7, <1>h DEF ActivateRoster, HookOK
  <2>3. HookGoes(w, "answer", NoFirm)
    BY <1>7 DEF ActivateRoster
  <2>4. hook' \in [Hook -> Rec] /\ \A v \in Hook : HookOK(v)'
    BY <2>3, <1>g, <2>1, <2>2
  <2>5. roster' \in [Collaborator -> {"none", "invited", "active", "revoked"}]
    BY <1>7 DEF ActivateRoster, ProvisioningInv, ProvisioningTypeOK
  <2> QED BY <2>1, <2>4, <2>5, DesksKept DEF ProvisioningInv, ProvisioningTypeOK,
             MembersProvisioned, firmVars, clerkVars, eventVars
<1>8. CASE Acknowledge(w)
  <2>1. UNCHANGED <<firmVars, peopleVars, clerkVars, desk, draft>>
    BY <1>8 DEF Acknowledge
  <2>2. /\ h.event \in Event /\ h.event \in Org \cup profile \cup dismissed
        /\ owed' = owed \ {h.event} /\ settled' = settled \cup {h.event}
    BY <1>8, <1>h DEF Acknowledge, HookOK
  <2>3. hook' \in [Hook -> Rec] /\ \A v \in Hook : HookOK(v)'
    BY <1>8, <1>i, <2>1, HooksInOrder DEF Acknowledge, peopleVars
  <2>4. MembersProvisioned'
    BY <2>1, <2>2, ProvisioningAssumption DEF ProvisioningInv, MembersProvisioned, peopleVars
  <2> QED BY <2>1, <2>2, <2>3, <2>4, DesksKept DEF ProvisioningInv, ProvisioningTypeOK,
             firmVars, peopleVars, clerkVars
<1>9. CASE DeliveryFails(w)
  <2>1. UNCHANGED <<firmVars, peopleVars, clerkVars, eventVars, desk, draft>>
    BY <1>9 DEF DeliveryFails
  <2>2. hook' \in [Hook -> Rec] /\ \A v \in Hook : HookOK(v)'
    BY <1>9, <1>i, <2>1, HooksInOrder DEF DeliveryFails, peopleVars
  <2> QED BY <2>1, <2>2, DesksKept DEF ProvisioningInv, ProvisioningTypeOK, MembersProvisioned,
             firmVars, peopleVars, clerkVars, eventVars
<1> QED BY <1>1, <1>2, <1>3, <1>4, <1>5, <1>6, <1>7, <1>8, <1>9 DEF HookAction

-----------------------------------------------------------------------------
\* A request that becomes the well-formed record n, while the draft stays shared once
\* it is, leaves every request in order.
LEMMA DesksInOrder ==
  ASSUME ProvisioningInv, NEW d \in Desk, NEW n, desk' = [desk EXCEPT ![d] = n],
         n \in [step : DeskStep, task : Task, who : Person \cup {NoOne}],
         n.task \in {"owner", "share", "staff", "collaborator", "revoke"} => n.who \in Person,
         n.task = "revoke" => n.who \in Collaborator,
         n.step = "send" => n.task \in {"owner", "share", "staff", "collaborator"},
         n.step = "update" => draft.shared,
         draft.shared => draft'.shared
  PROVE  /\ desk' \in [Desk -> [step : DeskStep, task : Task, who : Person \cup {NoOne}]]
         /\ \A k \in Desk : DeskOK(k)'
<1>1. desk \in [Desk -> [step : DeskStep, task : Task, who : Person \cup {NoOne}]]
  BY DEF ProvisioningInv, ProvisioningTypeOK
<1>2. ASSUME NEW k \in Desk PROVE DeskOK(k)'
  <2>1. CASE k = d
    BY <1>1, <2>1 DEF DeskOK
  <2>2. CASE k # d
    BY <1>1, <2>2 DEF ProvisioningInv, DeskOK
  <2> QED BY <2>1, <2>2
<1> QED BY <1>1, <1>2

\* A step that keeps the deliveries, and every profile or the memory of it, leaves the
\* deliveries in order and the acknowledged members provisioned.
LEMMA HooksKept ==
  ASSUME ProvisioningInv, UNCHANGED <<hook, settled>>,
         profile \cup dismissed \subseteq profile' \cup dismissed'
  PROVE  (\A w \in Hook : HookOK(w)') /\ MembersProvisioned'
BY DEF ProvisioningInv, HookOK, MembersProvisioned

LEMMA DeskInv ==
  ASSUME ProvisioningInv, NEW d \in Desk, DeskAction(d)
  PROVE  ProvisioningInv'
<1> DEFINE k == desk[d]
           Rec == [step : DeskStep, task : Task, who : Person \cup {NoOne}]
           Kept == UNCHANGED <<firmVars, peopleVars, clerkVars, eventVars, hook>>
<1>k. k \in Rec /\ desk \in [Desk -> Rec] /\ DeskOK(d)
  BY DEF ProvisioningInv, ProvisioningTypeOK
<1>i. IdleDesk \in Rec /\ IdleDesk.step = "idle" /\ IdleDesk.task = "none"
  BY DEF IdleDesk, DeskStep, Task
<1>d. ASSUME DeskDone(d), draft.shared => draft'.shared
      PROVE  desk' \in [Desk -> Rec] /\ \A e \in Desk : DeskOK(e)'
  BY <1>d, <1>i, DesksInOrder DEF DeskDone
<1>g. ASSUME NEW step \in DeskStep, DeskGoes(d, step),
             step = "send" => k.task \in {"owner", "share", "staff", "collaborator"},
             step = "update" => draft.shared,
             draft.shared => draft'.shared
      PROVE  desk' \in [Desk -> Rec] /\ \A e \in Desk : DeskOK(e)'
  <2> DEFINE n == [k EXCEPT !.step = step]
  <2>1. n \in Rec /\ n.step = step /\ n.task = k.task /\ n.who = k.who
    BY <1>k
  <2>2. desk' = [desk EXCEPT ![d] = n]
    BY <1>g, <1>k DEF DeskGoes
  <2>3. /\ k.task \in {"owner", "share", "staff", "collaborator", "revoke"} => k.who \in Person
        /\ k.task = "revoke" => k.who \in Collaborator
    BY <1>k DEF DeskOK
  <2> HIDE DEF n
  <2> QED BY <1>g, <2>1, <2>2, <2>3, DesksInOrder
\* Steps that change the request only, or the request and the draft.
<1>l. ASSUME Kept, desk' \in [Desk -> Rec], \A e \in Desk : DeskOK(e)',
             draft' \in [open : BOOLEAN, shared : BOOLEAN, submitted : BOOLEAN]
      PROVE  ProvisioningInv'
  <2>1. (\A w \in Hook : HookOK(w)') /\ MembersProvisioned'
    BY <1>l, HooksKept DEF peopleVars, eventVars
  <2> QED BY <1>l, <2>1 DEF ProvisioningInv, ProvisioningTypeOK, firmVars, peopleVars, clerkVars,
             eventVars
<1>t. draft \in [open : BOOLEAN, shared : BOOLEAN, submitted : BOOLEAN]
  BY DEF ProvisioningInv, ProvisioningTypeOK
<1> USE DEF DeskAt, DeskStep
<1>1. CASE Ask(d)
  <2>1. UNCHANGED <<firmVars, peopleVars, clerkVars, eventVars, hook, draft>>
    BY <1>1 DEF Ask
  <2>2. PICK task \in Task \ {"none"}, who \in Person \cup {NoOne} :
           /\ task \in {"owner", "share", "staff", "collaborator", "revoke"} => who \in Person
           /\ task = "revoke" => who \in Collaborator
           /\ desk' = [desk EXCEPT ![d] =
                         [task |-> task, who |-> who,
                          step |-> IF task \in {"owner", "staff", "collaborator"}
                                     THEN "check" ELSE "read"]]
    BY <1>1 DEF Ask, Task, Person
  <2> DEFINE n == [task |-> task, who |-> who,
                   step |-> IF task \in {"owner", "staff", "collaborator"}
                              THEN "check" ELSE "read"]
  <2>4. n \in Rec /\ n.task = task /\ n.who = who /\ n.step \in {"check", "read"}
    BY <2>2
  <2>5. desk' \in [Desk -> Rec] /\ \A e \in Desk : DeskOK(e)'
    <3> HIDE DEF n
    <3>1. desk' = [desk EXCEPT ![d] = n]
      BY <2>2 DEF n
    <3> QED BY <3>1, <2>1, <2>2, <2>4, DesksInOrder
  <2> QED BY <2>1, <2>5, <1>l, <1>t
<1>2. CASE CheckInvitee(d)
  <2>1. UNCHANGED <<firmVars, peopleVars, clerkVars, eventVars, hook, draft>>
    BY <1>2 DEF CheckInvitee
  <2>2. \/ DeskDone(d) \/ DeskGoes(d, "mark") \/ DeskGoes(d, "upsert")
        \/ DeskGoes(d, "send") /\ k.task \in {"owner", "share", "staff"}
    BY <1>2 DEF CheckInvitee
  <2> QED BY <2>1, <2>2, <1>d, <1>g, <1>l, <1>t
<1>3. CASE UpsertRoster(d)
  <2>1. UNCHANGED <<firmVars, profile, dismissed, clerkVars, eventVars, hook, draft>>
    BY <1>3 DEF UpsertRoster
  <2>2. DeskGoes(d, "send") /\ k.task = "collaborator"
    BY <1>3 DEF UpsertRoster
  <2>3. roster' \in [Collaborator -> {"none", "invited", "active", "revoked"}]
    BY <1>3 DEF UpsertRoster, ProvisioningInv, ProvisioningTypeOK
  <2>4. desk' \in [Desk -> Rec] /\ \A e \in Desk : DeskOK(e)'
    BY <2>1, <2>2, <1>g
  <2> QED BY <2>1, <2>3, <2>4, HooksKept DEF ProvisioningInv, ProvisioningTypeOK, firmVars,
             clerkVars, eventVars
<1>4. CASE SendInvitation(d)
  <2>1. UNCHANGED <<firmVars, peopleVars, member, eventVars, hook, draft>>
    BY <1>4 DEF SendInvitation
  <2>2. invited' = invited \cup {k.who} /\ k.who \in Person
    BY <1>4, <1>k DEF SendInvitation, DeskOK
  <2>3. DeskDone(d) \/ DeskGoes(d, "mark")
    BY <1>4 DEF SendInvitation
  <2>4. desk' \in [Desk -> Rec] /\ \A e \in Desk : DeskOK(e)'
    BY <2>1, <2>3, <1>d, <1>g
  <2> QED BY <2>1, <2>2, <2>4, HooksKept DEF ProvisioningInv, ProvisioningTypeOK, firmVars,
             peopleVars, eventVars
<1>5. CASE ReadRoster(d)
  <2>1. UNCHANGED <<firmVars, peopleVars, clerkVars, eventVars, hook, draft>>
    BY <1>5 DEF ReadRoster
  <2>2. DeskDone(d) \/ DeskGoes(d, "remove") \/ DeskGoes(d, "strike")
    BY <1>5 DEF ReadRoster
  <2> QED BY <2>1, <2>2, <1>d, <1>g, <1>l, <1>t
<1>6. CASE RemoveProfile(d)
  <2>1. UNCHANGED <<firmVars, roster, clerkVars, eventVars, hook, draft>>
    BY <1>6 DEF RemoveProfile
  <2>2. /\ profile' = profile \ {k.who} /\ dismissed' = dismissed \cup {k.who}
        /\ k.who \in Collaborator
    BY <1>6, <1>k DEF RemoveProfile, DeskOK
  <2>3. desk' \in [Desk -> Rec] /\ \A e \in Desk : DeskOK(e)'
    BY <1>6, <2>1, <1>g DEF RemoveProfile
  <2> QED BY <2>1, <2>2, <2>3, HooksKept DEF ProvisioningInv, ProvisioningTypeOK, firmVars,
             clerkVars, eventVars
<1>7. CASE StrikeRoster(d)
  <2>1. UNCHANGED <<firmVars, profile, dismissed, clerkVars, eventVars, hook, draft>>
    BY <1>7 DEF StrikeRoster
  <2>2. roster' \in [Collaborator -> {"none", "invited", "active", "revoked"}]
    BY <1>7 DEF StrikeRoster, ProvisioningInv, ProvisioningTypeOK
  <2>3. desk' \in [Desk -> Rec] /\ \A e \in Desk : DeskOK(e)'
    BY <1>7, <2>1, <1>d DEF StrikeRoster
  <2> QED BY <2>1, <2>2, <2>3, HooksKept DEF ProvisioningInv, ProvisioningTypeOK, firmVars,
             clerkVars, eventVars
<1>8. CASE ReadDraft(d)
  <2>1. UNCHANGED <<firmVars, peopleVars, clerkVars, eventVars, hook, draft>>
    BY <1>8 DEF ReadDraft
  <2>2. \/ DeskDone(d) \/ DeskGoes(d, "mark") \/ DeskGoes(d, "check")
        \/ DeskGoes(d, "update") /\ draft.shared
    BY <1>8 DEF ReadDraft
  <2> QED BY <2>1, <2>2, <1>d, <1>g, <1>l, <1>t
<1>9. CASE MarkShared(d) \/ MarkSubmitted(d)
  <2>1. Kept /\ DeskDone(d)
    BY <1>9 DEF MarkShared, MarkSubmitted
  <2>2. /\ draft' \in [open : BOOLEAN, shared : BOOLEAN, submitted : BOOLEAN]
        /\ draft.shared => draft'.shared
    BY <1>9, <1>t DEF MarkShared, MarkSubmitted
  <2> QED BY <2>1, <2>2, <1>d, <1>l
<1>10. CASE RequestAborts(d)
  BY <1>10, <1>d, <1>l, <1>t DEF RequestAborts
<1> QED BY <1>1, <1>2, <1>3, <1>4, <1>5, <1>6, <1>7, <1>8, <1>9, <1>10 DEF DeskAction

-----------------------------------------------------------------------------
LEMMA ProvisioningNextInv == ProvisioningInv /\ [ProvisioningNext]_provisioningVars => ProvisioningInv'
<1> SUFFICES ASSUME ProvisioningInv, [ProvisioningNext]_provisioningVars PROVE ProvisioningInv'
  OBVIOUS
<1>1. CASE \E w \in Hook : HookAction(w)
  BY <1>1, HookInv
<1>2. CASE \E d \in Desk : DeskAction(d)
  BY <1>2, DeskInv
<1>3. ASSUME NEW p \in Person, AcceptInvitation(p) PROVE ProvisioningInv'
  <2>1. UNCHANGED <<firmVars, peopleVars, settled, hook, desk, draft>>
    BY <1>3 DEF AcceptInvitation
  <2>2. invited' \subseteq Person /\ member' \subseteq Person /\ owed' \subseteq Event
    BY <1>3 DEF AcceptInvitation, ProvisioningInv, ProvisioningTypeOK, Event
  <2> QED BY <2>1, <2>2, DesksKept, HooksKept DEF ProvisioningInv, ProvisioningTypeOK, firmVars,
             peopleVars
<1>4. CASE CloseDraft
  <2>1. UNCHANGED <<firmVars, peopleVars, clerkVars, eventVars, hook, desk>>
    BY <1>4 DEF CloseDraft
  <2>2. /\ draft' \in [open : BOOLEAN, shared : BOOLEAN, submitted : BOOLEAN]
        /\ draft.shared => draft'.shared
    BY <1>4 DEF CloseDraft, ProvisioningInv, ProvisioningTypeOK
  <2>3. \A d \in Desk : DeskOK(d)'
    BY <2>1, <2>2 DEF ProvisioningInv, DeskOK
  <2> QED BY <2>1, <2>2, <2>3, HooksKept DEF ProvisioningInv, ProvisioningTypeOK, firmVars,
             peopleVars, clerkVars, eventVars
<1>5. CASE UNCHANGED provisioningVars
  BY <1>5, DesksKept, HooksKept DEF provisioningVars, ProvisioningInv, ProvisioningTypeOK, firmVars,
     peopleVars, clerkVars, eventVars
<1> QED BY <1>1, <1>2, <1>3, <1>4, <1>5 DEF ProvisioningNext

\* The deliveries and requests keep what they rely on.
THEOREM ProvisioningInvariant == ProvisioningSpec => []ProvisioningInv
<1> QED BY ProvisioningInitInv, ProvisioningNextInv, PTL DEF ProvisioningSpec

\* No membership is acknowledged away: the person it is about has, or had, a profile
\* (clerk-webhook.ts, provisionMembership).
THEOREM Members == ProvisioningSpec => []MembersProvisioned
<1>1. ProvisioningInv => MembersProvisioned
  BY DEF ProvisioningInv
<1> QED BY <1>1, ProvisioningInvariant, PTL

\* A client marks a draft ready for review only while it is shared and open
\* (client-portal.ts, submitClientIntake).
THEOREM Intake == ProvisioningSpec => IntakeClosed
<1>1. ASSUME ProvisioningInv, [ProvisioningNext]_provisioningVars
      PROVE  [draft'.submitted => draft.submitted \/ (draft.open /\ draft.shared)]_provisioningVars
  <2> SUFFICES ASSUME ProvisioningNext, draft'.submitted
               PROVE  draft.submitted \/ (draft.open /\ draft.shared)
    BY <1>1
  <2>1. CASE draft' = draft
    BY <2>1
  <2>2. ASSUME NEW d \in Desk, MarkShared(d) \/ MarkSubmitted(d)
        PROVE  draft.submitted \/ (draft.open /\ draft.shared)
    BY <1>1, <2>2 DEF MarkShared, MarkSubmitted, DeskAt, ProvisioningInv, DeskOK, ProvisioningTypeOK
  <2>3. CASE CloseDraft
    BY <1>1, <2>3 DEF CloseDraft, ProvisioningInv, ProvisioningTypeOK
  <2>4. \/ draft' = draft \/ CloseDraft
        \/ \E d \in Desk : MarkShared(d) \/ MarkSubmitted(d)
    BY DEF ProvisioningNext, HookAction, DeskAction, Deliver, SeekFirm, SeekByName,
       LinkFirm, InsertFirm, SeedAgreement, InsertProfile, ActivateRoster, Acknowledge,
       DeliveryFails, AcceptInvitation, Ask, CheckInvitee, UpsertRoster,
       SendInvitation, ReadRoster, RemoveProfile, StrikeRoster, ReadDraft, RequestAborts
  <2> QED BY <2>1, <2>2, <2>3, <2>4
<1> QED BY <1>1, ProvisioningInvariant, PTL DEF ProvisioningSpec, IntakeClosed

-----------------------------------------------------------------------------
\* Firms and organizations, whatever deliveries overlap.

Onboarded(o) == o \in ousted \/ \E f \in agreement : link[f] = o

\* The row a delivery seeds is its organization's own, and what it acknowledges can
\* onboard, unless the row was taken meanwhile.
LinkOK(w) ==
  LET h == hook[w] IN
  /\ h.step = "seed" => link[h.firm] = h.event \/ h.event \in ousted
  /\ h.step = "answer" /\ h.event \in Org => Onboarded(h.event)

FirmInv ==
  /\ ProvisioningInv /\ FirmCanOnboard
  /\ \A w \in Hook : LinkOK(w)

LEMMA FirmInit == ProvisioningInit => FirmInv
<1> SUFFICES ASSUME ProvisioningInit PROVE FirmInv
  OBVIOUS
<1> QED BY ProvisioningInitInv DEF ProvisioningInit, FirmInv, FirmCanOnboard, LinkOK, IdleHook

\* A firm keeps its organization, or the organization is ousted.
Kept(f) == link'[f] = link[f] \/ link[f] \notin Org \/ link[f] \in ousted'

\* An organization that can onboard still can after a step that keeps or ousts.
LEMMA OnboardedStays ==
  ASSUME FirmInv, agreement \subseteq agreement', ousted \subseteq ousted',
         \A f \in Firm : Kept(f), NEW o \in Org, Onboarded(o)
  PROVE  Onboarded(o)'
<1>1. agreement \subseteq Firm
  BY DEF FirmInv, ProvisioningInv, ProvisioningTypeOK
<1> QED BY <1>1 DEF Onboarded, Kept

\* So does what another delivery relies on.
LEMMA OthersLinkOK ==
  ASSUME FirmInv, NEW h \in Hook, hook'[h] = hook[h],
         agreement \subseteq agreement', ousted \subseteq ousted', \A f \in Firm : Kept(f)
  PROVE  LinkOK(h)'
<1>1. LinkOK(h) /\ HookOK(h)
  BY DEF FirmInv, ProvisioningInv
<1>2. ASSUME hook[h].step = "seed"
      PROVE  link'[hook[h].firm] = hook[h].event \/ hook[h].event \in ousted'
  <2>1. hook[h].firm \in Firm /\ hook[h].event \in Org
    BY <1>1, <1>2 DEF HookOK
  <2>2. Kept(hook[h].firm)
    BY <2>1
  <2> QED BY <1>1, <1>2, <2>1, <2>2 DEF LinkOK, Kept
<1>3. ASSUME hook[h].step = "answer", hook[h].event \in Org
      PROVE  Onboarded(hook[h].event)'
  <2>1. Onboarded(hook[h].event)
    BY <1>1, <1>3 DEF LinkOK
  <2>2. \A o \in Org : Onboarded(o) => Onboarded(o)'
    BY OnboardedStays
  <2>3. \E o \in Org : o = hook[h].event
    BY <1>3
  <2> QED BY <2>1, <2>2, <2>3
<1> QED BY <1>2, <1>3 DEF LinkOK, Onboarded

\* How one step of a delivery changes links, and what it leaves the delivery with.
LEMMA OwnLinkOK ==
  ASSUME FirmInv, NEW w \in Hook, HookAction(w)
  PROVE  /\ LinkOK(w)'
         /\ ousted \subseteq ousted' /\ \A f \in Firm : Kept(f)
         /\ agreement \subseteq agreement'
         /\ \A h \in Hook \ {w} : hook'[h] = hook[h]
         /\ \A o \in settled' \cap Org : o \in settled \/ Onboarded(o)
<1> DEFINE h == hook[w]
           Rec == [step : HookStep, event : Event \cup {NoOne}, firm : Firm \cup {NoFirm}]
<1>h. h \in Rec /\ hook \in [Hook -> Rec] /\ HookOK(w) /\ LinkOK(w) /\ agreement \subseteq Firm
  BY DEF FirmInv, ProvisioningInv, ProvisioningTypeOK
<1>k. link \in [Firm -> Org \cup {Unborn, Unlinked}]
  BY DEF FirmInv, ProvisioningInv, ProvisioningTypeOK
<1> USE DEF HookAt, HookGoes
\* Steps that write neither firms nor the acknowledged events.
<1>l. ASSUME UNCHANGED <<firmVars, eventVars>>, LinkOK(w)',
             NEW n, hook' = [hook EXCEPT ![w] = n]
      PROVE  /\ ousted \subseteq ousted' /\ \A f \in Firm : Kept(f)
             /\ agreement \subseteq agreement'
             /\ \A g \in Hook \ {w} : hook'[g] = hook[g]
             /\ \A o \in settled' \cap Org : o \in settled \/ Onboarded(o)
  BY <1>l, <1>h DEF firmVars, eventVars, Kept
<1>1. CASE SeekFirm(w)
  <2>1. UNCHANGED <<firmVars, eventVars>>
    BY <1>1 DEF SeekFirm
  <2>2. \/ \E f \in Linked(h.event) : HookGoes(w, "seed", f)
        \/ HookGoes(w, "by name", NoFirm)
        \/ HookGoes(w, "profile", NoFirm)
        \/ hook' = [hook EXCEPT ![w] = IdleHook]
    BY <1>1 DEF SeekFirm
  <2>3. CASE \E f \in Linked(h.event) : HookGoes(w, "seed", f)
    <3>1. PICK f \in Firm : link[f] = h.event /\ HookGoes(w, "seed", f)
      BY <2>3 DEF Linked
    <3>2. LinkOK(w)'
      BY <3>1, <2>1, <1>h DEF LinkOK, firmVars
    <3>3. hook' = [hook EXCEPT ![w] = [h EXCEPT !.step = "seed", !.firm = f]]
      BY <3>1, <1>h
    <3> QED BY <2>1, <3>2, <3>3, <1>l
  <2>4. CASE \/ HookGoes(w, "by name", NoFirm) \/ HookGoes(w, "profile", NoFirm)
    <3>1. hook'[w].step \in {"by name", "profile"}
      BY <2>4, <1>h
    <3>2. \E n : hook' = [hook EXCEPT ![w] = n]
      BY <2>4, <1>h
    <3>3. LinkOK(w)'
      BY <3>1 DEF LinkOK
    <3> QED BY <2>1, <3>3, <3>2, <1>l
  <2>5. CASE hook' = [hook EXCEPT ![w] = IdleHook]
    <3>1. LinkOK(w)'
      BY <2>5, <1>h DEF LinkOK, IdleHook
    <3> QED BY <2>1, <2>5, <3>1, <1>l
  <2> QED BY <2>2, <2>3, <2>4, <2>5
<1>2. CASE LinkFirm(w)
  <2>1. h.firm \in Firm /\ h.event \in Org
    BY <1>2, <1>h DEF LinkFirm, HookOK
  <2>2. /\ link' = [link EXCEPT ![h.firm] = h.event]
        /\ ousted' = ousted \cup ({link[h.firm]} \cap (Org \ {h.event}))
    BY <1>2 DEF LinkFirm
  <2>3. ousted \subseteq ousted' /\ \A f \in Firm : Kept(f)
    BY <2>1, <2>2, <1>k DEF Kept
  <2> QED BY <1>2, <1>h, <1>k, <2>1, <2>2, <2>3 DEF LinkFirm, LinkOK, eventVars
<1>3. CASE InsertFirm(w)
  <2>1. PICK f \in Firm : link[f] = Unborn /\ link' = [link EXCEPT ![f] = h.event]
                          /\ HookGoes(w, "seed", f)
    BY <1>3 DEF InsertFirm
  <2>2. h.event \in Org
    BY <1>3, <1>h DEF InsertFirm, HookOK
  <2>3. UNCHANGED <<agreement, ousted, eventVars>>
    BY <1>3 DEF InsertFirm
  <2>4. \A g \in Firm : Kept(g)
    BY <2>1, <1>k, ProvisioningAssumption DEF Kept
  <2> QED BY <1>h, <1>k, <2>1, <2>2, <2>3, <2>4 DEF LinkOK, eventVars
<1>4. CASE SeedAgreement(w)
  <2>1. h.firm \in Firm /\ (link[h.firm] = h.event \/ h.event \in ousted)
    BY <1>4, <1>h DEF SeedAgreement, HookOK, LinkOK
  <2>2. UNCHANGED <<link, ousted, eventVars>> /\ agreement' = agreement \cup {h.firm}
        /\ HookGoes(w, "answer", h.firm)
    BY <1>4 DEF SeedAgreement
  <2> QED BY <1>h, <2>1, <2>2 DEF LinkOK, Onboarded, Kept, eventVars
<1>5. CASE InsertProfile(w)
  BY <1>5, <1>h, ProvisioningAssumption DEF InsertProfile, LinkOK, HookOK, firmVars, eventVars, Kept
<1>6. CASE ActivateRoster(w)
  <2>1. UNCHANGED <<link, agreement, ousted, settled>> /\ HookGoes(w, "answer", NoFirm)
    BY <1>6 DEF ActivateRoster, firmVars, eventVars
  <2>2. h.event \notin Org
    BY <1>6, <1>h, ProvisioningAssumption DEF ActivateRoster, HookOK
  <2> QED BY <2>1, <2>2, <1>h DEF LinkOK, Kept
<1>7. CASE Acknowledge(w)
  BY <1>7, <1>h DEF Acknowledge, LinkOK, firmVars, IdleHook, Kept
<1>8. CASE Deliver(w) \/ DeliveryFails(w)
  <2>1. UNCHANGED <<firmVars, eventVars>>
    BY <1>8 DEF Deliver, DeliveryFails
  <2>2. PICK n : hook' = [hook EXCEPT ![w] = n] /\ n.step \in {"seek", "idle"}
    <3>1. CASE DeliveryFails(w)
      <4>1. IdleHook.step = "idle"
        BY DEF IdleHook
      <4> QED BY <3>1, <4>1 DEF DeliveryFails
    <3>2. CASE Deliver(w)
      <4>1. PICK e : hook' = [hook EXCEPT ![w] = [IdleHook EXCEPT !.step = "seek", !.event = e]]
        BY <3>2 DEF Deliver
      <4>2. [IdleHook EXCEPT !.step = "seek", !.event = e].step = "seek"
        BY DEF IdleHook
      <4> QED BY <4>1, <4>2
    <3> QED BY <1>8, <3>1, <3>2
  <2>3. LinkOK(w)'
    BY <2>2, <1>h DEF LinkOK
  <2> QED BY <2>1, <2>2, <2>3, <1>l
<1>9. CASE SeekByName(w)
  <2>1. UNCHANGED <<firmVars, eventVars>>
    BY <1>9 DEF SeekByName
  <2>2. CASE HookGoes(w, "insert", NoFirm)
    <3>1. LinkOK(w)'
      BY <2>2, <1>h DEF LinkOK
    <3>2. \E n : hook' = [hook EXCEPT ![w] = n]
      BY <2>2, <1>h
    <3> QED BY <2>1, <3>1, <3>2, <1>l
  <2>3. CASE \E f \in Firm : HookGoes(w, "link", f)
    <3>1. LinkOK(w)'
      BY <2>3, <1>h DEF LinkOK
    <3>2. \E n : hook' = [hook EXCEPT ![w] = n]
      BY <2>3, <1>h
    <3> QED BY <2>1, <3>1, <3>2, <1>l
  <2>4. \/ HookGoes(w, "insert", NoFirm)
        \/ \E f \in Firm : HookGoes(w, "link", f)
    BY <1>9 DEF SeekByName
  <2> QED BY <2>1, <2>2, <2>3, <2>4, <1>l
<1> QED BY <1>1, <1>2, <1>3, <1>4, <1>5, <1>6, <1>7, <1>8, <1>9 DEF HookAction

LEMMA FirmNext ==
  ASSUME FirmInv, [ProvisioningNext]_provisioningVars
  PROVE  FirmInv'
<1>1. CASE UNCHANGED <<firmVars, settled, hook>>
  BY <1>1, ProvisioningNextInv DEF FirmInv, FirmCanOnboard, LinkOK, Onboarded, firmVars
<1>2. ASSUME NEW w \in Hook, HookAction(w) PROVE FirmInv'
  <2>1. ProvisioningInv'
    BY <1>2, ProvisioningNextInv DEF FirmInv, ProvisioningNext
  <2>2. /\ LinkOK(w)'
        /\ ousted \subseteq ousted' /\ \A f \in Firm : Kept(f)
        /\ agreement \subseteq agreement'
        /\ \A h \in Hook \ {w} : hook'[h] = hook[h]
        /\ \A o \in settled' \cap Org : o \in settled \/ Onboarded(o)
    BY <1>2, OwnLinkOK
  <2>3. \A h \in Hook : LinkOK(h)'
    BY <2>2, OthersLinkOK
  <2>4. FirmCanOnboard'
    <3>1. \A o \in settled' \cap Org : Onboarded(o)
      BY <2>2 DEF FirmInv, FirmCanOnboard, Onboarded
    <3>2. \A o \in Org : Onboarded(o) => Onboarded(o)'
      BY <2>2, OnboardedStays
    <3> QED BY <3>1, <3>2 DEF FirmCanOnboard, Onboarded
  <2> QED BY <2>1, <2>3, <2>4 DEF FirmInv
<1>3. \/ UNCHANGED <<firmVars, settled, hook>>
      \/ \E w \in Hook : HookAction(w)
  BY DEF ProvisioningNext, DeskAction, provisioningVars, eventVars, AcceptInvitation, Ask,
     CheckInvitee, UpsertRoster, CloseDraft, SendInvitation, ReadRoster, RemoveProfile,
     StrikeRoster, ReadDraft, RequestAborts, MarkShared, MarkSubmitted
<1> QED BY <1>1, <1>2, <1>3

\* An acknowledged organization has a firm that can start an engagement, whatever
\* deliveries overlap and wherever they fail, unless a delivery about another
\* organization took its firm (clerk-webhook.ts, provisionFirm).
THEOREM Onboards == ProvisioningSpec => []FirmCanOnboard
<1>1. FirmInv => FirmCanOnboard
  BY DEF FirmInv
<1>2. FirmInv /\ [ProvisioningNext]_provisioningVars => FirmInv'
  BY FirmNext
<1> QED BY <1>1, <1>2, FirmInit, PTL DEF ProvisioningSpec

-----------------------------------------------------------------------------
\* LedgerConnect.
\* The request that goes on to the provider is the one that consumed its state.
SpentFirst == \A c \in Caller : \A s \in State : Spending(c, s) => s \in spent

\* A completion names a state.
Stateful == \A c \in Caller : call[c].step \in {"consume", "exchange", "connect", "store"}
                                => call[c].state \in State

LedgerInv == LedgerTypeOK /\ SpentFirst /\ Stateful /\ StateSpentOnce

LEMMA LedgerInitInv == LedgerInit => LedgerInv
<1> SUFFICES ASSUME LedgerInit PROVE LedgerInv
  OBVIOUS
<1>1. \A c \in Caller : call[c] = IdleCall
  BY DEF LedgerInit
<1>2. IdleCall.step = "idle" /\ IdleCall \in [step : CallStep, state : State \cup {NoState}]
  BY DEF IdleCall, CallStep
<1>3. LedgerTypeOK
  BY <1>2 DEF LedgerInit, LedgerTypeOK
<1>4. SpentFirst /\ Stateful /\ StateSpentOnce
  BY <1>1, <1>2 DEF LedgerInit, SpentFirst, Stateful, StateSpentOnce, Spending
<1> QED BY <1>3, <1>4 DEF LedgerInv

\* A request that changes its step, and that spends nothing it did not spend before.
LEMMA LedgerStepInv ==
  ASSUME LedgerInv, NEW c \in Caller, NEW n, call' = [call EXCEPT ![c] = n],
         n \in [step : CallStep, state : State \cup {NoState}],
         n.step \in {"exchange", "connect", "store"} =>
           /\ n.state = call[c].state
           /\ call[c].step \in {"exchange", "connect", "store"},
         n.step = "consume" => n.state \in State,
         UNCHANGED <<pendingState, spent>>,
         connection' \in {"none", "connected", "disconnected"}, credentials' \in BOOLEAN
  PROVE  LedgerInv'
<1>1. call \in [Caller -> [step : CallStep, state : State \cup {NoState}]]
  BY DEF LedgerInv, LedgerTypeOK
<1>2. LedgerTypeOK'
  BY <1>1 DEF LedgerInv, LedgerTypeOK
<1>3. Stateful'
  BY <1>1 DEF LedgerInv, Stateful
<1>4. ASSUME NEW b \in Caller, NEW s \in State, Spending(b, s)' PROVE Spending(b, s)
  <2>1. CASE b = c
    BY <1>1, <1>4, <2>1 DEF Spending
  <2>2. CASE b # c
    BY <1>1, <1>4, <2>2 DEF Spending
  <2> QED BY <2>1, <2>2
<1>5. SpentFirst'
  BY <1>4 DEF LedgerInv, SpentFirst
<1>6. StateSpentOnce'
  BY <1>4 DEF LedgerInv, StateSpentOnce
<1> QED BY <1>2, <1>3, <1>5, <1>6 DEF LedgerInv

LEMMA LedgerNextInv == LedgerInv /\ [LedgerNext]_ledgerVars => LedgerInv'
<1> SUFFICES ASSUME LedgerInv, [LedgerNext]_ledgerVars PROVE LedgerInv'
  OBVIOUS
<1> DEFINE Rec == [step : CallStep, state : State \cup {NoState}]
<1>t. /\ call \in [Caller -> Rec] /\ connection \in {"none", "connected", "disconnected"}
      /\ credentials \in BOOLEAN
  BY DEF LedgerInv, LedgerTypeOK
<1>1. ASSUME NEW s \in State, BeginConnect(s) PROVE LedgerInv'
  BY <1>1 DEF BeginConnect, LedgerInv, LedgerTypeOK, SpentFirst, Stateful, StateSpentOnce,
     Spending
<1>2. ASSUME NEW c \in Caller, LedgerStep(c) PROVE LedgerInv'
  <2>e. ASSUME CallEnds(c), UNCHANGED <<pendingState, spent>>,
               connection' \in {"none", "connected", "disconnected"}, credentials' \in BOOLEAN
        PROVE  LedgerInv'
    <3>1. IdleCall \in Rec /\ IdleCall.step = "idle"
      BY DEF IdleCall, CallStep
    <3> QED BY <2>e, <3>1, LedgerStepInv DEF CallEnds
  <2>g. ASSUME NEW step \in CallStep, CallGoes(c, step),
               step \in {"exchange", "connect", "store"} =>
                 call[c].step \in {"exchange", "connect", "store"},
               step # "consume", UNCHANGED <<pendingState, spent>>,
               connection' \in {"none", "connected", "disconnected"}, credentials' \in BOOLEAN
        PROVE  LedgerInv'
    <3> DEFINE n == [call[c] EXCEPT !.step = step]
    <3>1. n \in Rec /\ n.step = step /\ n.state = call[c].state
      BY <1>t
    <3>2. call' = [call EXCEPT ![c] = n]
      BY <2>g, <1>t DEF CallGoes
    <3> HIDE DEF n
    <3> QED BY <2>g, <3>1, <3>2, LedgerStepInv
  <2> USE DEF CallAt, CallStep
  <2>1. ASSUME NEW s \in State, CallComplete(c, s) PROVE LedgerInv'
    <3> DEFINE n == [step |-> "consume", state |-> s]
    <3>1. n \in Rec /\ n.step = "consume" /\ n.state = s
      OBVIOUS
    <3>2. call' = [call EXCEPT ![c] = n] /\ UNCHANGED <<pendingState, connection, credentials, spent>>
      BY <2>1 DEF CallComplete
    <3> HIDE DEF n
    <3> QED BY <1>t, <3>1, <3>2, LedgerStepInv
  <2>2. CASE CallDisconnect(c)
    <3> DEFINE n == [step |-> "read", state |-> NoState]
    <3>1. n \in Rec /\ n.step = "read"
      OBVIOUS
    <3>2. call' = [call EXCEPT ![c] = n] /\ UNCHANGED <<pendingState, connection, credentials, spent>>
      BY <2>2 DEF CallDisconnect
    <3> HIDE DEF n
    <3> QED BY <1>t, <3>1, <3>2, LedgerStepInv
  <2>3. CASE ConsumeState(c)
    <3> DEFINE s == call[c].state
    <3>1. s \in State /\ UNCHANGED <<connection, credentials>>
      BY <2>3 DEF ConsumeState, LedgerInv, Stateful
    <3>2. CASE s \notin pendingState
      <4>1. CallEnds(c) /\ UNCHANGED <<pendingState, spent>>
        BY <2>3, <3>2 DEF ConsumeState
      <4> QED BY <4>1, <3>1, <1>t, <2>e
    <3>3. CASE s \in pendingState
      <4>1. /\ pendingState' = pendingState \ {s} /\ spent' = spent \cup {s}
            /\ call' = [call EXCEPT ![c] = [call[c] EXCEPT !.step = "exchange"]]
        BY <2>3, <3>3, <1>t DEF ConsumeState, CallGoes
      <4>2. \A b \in Caller : ~Spending(b, s)
        BY <3>1, <3>3 DEF LedgerInv, SpentFirst, StateSpentOnce
      <4>3. \A b \in Caller : \A r \in State :
              Spending(b, r)' => (b = c /\ r = s) \/ (Spending(b, r) /\ r # s)
        BY <4>1, <4>2, <1>t DEF Spending
      <4>4. LedgerTypeOK' /\ Stateful'
        BY <3>1, <4>1, <1>t DEF LedgerInv, LedgerTypeOK, Stateful
      <4>5. SpentFirst'
        BY <4>1, <4>3 DEF LedgerInv, SpentFirst
      <4>6. StateSpentOnce'
        BY <4>1, <4>3 DEF LedgerInv, StateSpentOnce
      <4> QED BY <4>4, <4>5, <4>6 DEF LedgerInv
    <3> QED BY <3>2, <3>3
  <2>4. CASE ExchangeCode(c)
    BY <2>4, <1>t, <2>g DEF ExchangeCode
  <2>5. CASE WriteConnection(c)
    BY <2>5, <1>t, <2>g DEF WriteConnection
  <2>6. CASE StoreCredentials(c)
    BY <2>6, <1>t, <2>e DEF StoreCredentials
  <2>7. CASE ReadCredentials(c)
    BY <2>7, <1>t, <2>g DEF ReadCredentials
  <2>8. CASE RevokeToken(c)
    BY <2>8, <1>t, <2>g DEF RevokeToken
  <2>9. CASE WipeCredentials(c)
    BY <2>9, <1>t, <2>g DEF WipeCredentials
  <2>10. CASE TurnOff(c)
    BY <2>10, <1>t, <2>e DEF TurnOff
  <2>11. CASE CallFails(c)
    BY <2>11, <1>t, <2>e DEF CallFails
  <2> QED BY <1>2, <2>1, <2>2, <2>3, <2>4, <2>5, <2>6, <2>7, <2>8, <2>9, <2>10, <2>11
          DEF LedgerStep
<1>3. CASE UNCHANGED ledgerVars
  BY <1>3 DEF ledgerVars, LedgerInv, LedgerTypeOK, SpentFirst, Stateful, StateSpentOnce, Spending
<1> QED BY <1>1, <1>2, <1>3 DEF LedgerNext

THEOREM LedgerInvariant == LedgerSpec => []LedgerInv
<1> QED BY LedgerInitInv, LedgerNextInv, PTL DEF LedgerSpec

\* A state admits one connection, however many completions overlap or repeat it
\* (ledger-oauth.ts, completeLedgerConnect).
THEOREM SpentOnce == LedgerSpec => []StateSpentOnce
<1>1. LedgerInv => StateSpentOnce
  BY DEF LedgerInv
<1> QED BY <1>1, LedgerInvariant, PTL

-----------------------------------------------------------------------------
\* Nothing is stored under a connection that is off: a request about to store has just
\* connected, one about to turn the connection off has wiped.
WipeInv ==
  /\ LedgerInv /\ SecretsWiped
  /\ \A c \in Caller : /\ call[c].step = "store" => connection = "connected"
                       /\ call[c].step = "turn off" => ~credentials

LEMMA WipeNext ==
  ASSUME WipeInv, LedgerCallsApart, [LedgerNext]_ledgerVars
  PROVE  WipeInv'
<1>t. call \in [Caller -> [step : CallStep, state : State \cup {NoState}]]
  BY DEF WipeInv, LedgerInv, LedgerTypeOK
<1>i. LedgerInv'
  BY LedgerNextInv DEF WipeInv
<1>1. CASE (\E s \in State : BeginConnect(s)) \/ UNCHANGED ledgerVars
  <2>1. UNCHANGED <<connection, credentials, call>>
    BY <1>1 DEF BeginConnect, ledgerVars
  <2> QED BY <2>1, <1>i DEF WipeInv, SecretsWiped
<1>2. ASSUME NEW c \in Caller, LedgerStep(c) PROVE WipeInv'
  <2> DEFINE Rests(b) == call'[b] = call[b]
  <2> USE DEF CallAt, CallGoes, CallEnds, IdleCall
  <2>1. \A b \in Caller \ {c} : Rests(b)
    BY <1>2, <1>t DEF LedgerStep, CallComplete, ConsumeState, ExchangeCode, WriteConnection,
       StoreCredentials, CallDisconnect, ReadCredentials, RevokeToken, WipeCredentials,
       TurnOff, CallFails
  <2>2. CASE UNCHANGED <<connection, credentials>> /\ call'[c].step \notin {"store", "turn off"}
    BY <2>1, <2>2, <1>i, <1>t DEF WipeInv, SecretsWiped
  <2>3. CASE WriteConnection(c)
    BY <2>1, <2>3, <1>i, <1>t DEF WriteConnection, WipeInv, SecretsWiped
  <2>4. CASE StoreCredentials(c)
    <3>1. connection' = "connected" /\ credentials' = TRUE /\ call'[c].step = "idle"
      BY <2>4, <1>t DEF StoreCredentials, WipeInv
    <3>2. \A b \in Caller \ {c} : call[b].step # "turn off"
      BY <2>4 DEF StoreCredentials, LedgerCallsApart
    <3> QED BY <2>1, <2>4, <3>1, <3>2, <1>i DEF StoreCredentials, WipeInv, SecretsWiped
  <2>5. CASE WipeCredentials(c)
    BY <2>1, <2>5, <1>i, <1>t DEF WipeCredentials, WipeInv, SecretsWiped
  <2>6. CASE TurnOff(c)
    <3>1. connection' = "disconnected" /\ ~credentials' /\ call'[c].step = "idle"
      BY <2>6, <1>t DEF TurnOff, WipeInv
    <3>2. \A b \in Caller \ {c} : call[b].step # "store"
      BY <2>6 DEF TurnOff, LedgerCallsApart
    <3> QED BY <2>1, <3>1, <3>2, <1>i DEF WipeInv, SecretsWiped
  <2>7. \/ UNCHANGED <<connection, credentials>> /\ call'[c].step \notin {"store", "turn off"}
        \/ WriteConnection(c) \/ StoreCredentials(c) \/ WipeCredentials(c) \/ TurnOff(c)
    <3>1. CASE ConsumeState(c)
      <4>1. UNCHANGED <<connection, credentials>>
        BY <3>1 DEF ConsumeState
      <4>2. call'[c].step \in {"exchange", "idle"}
        BY <3>1, <1>t DEF ConsumeState
      <4> QED BY <4>1, <4>2
    <3>2. CASE (\E s \in State : CallComplete(c, s)) \/ CallDisconnect(c) \/ CallFails(c)
      <4>1. UNCHANGED <<connection, credentials>>
        BY <3>2 DEF CallComplete, CallDisconnect, CallFails
      <4>2. call'[c].step \in {"idle", "consume", "read"}
        BY <3>2, <1>t DEF CallComplete, CallDisconnect, CallFails
      <4> QED BY <4>1, <4>2
    <3>3. CASE ExchangeCode(c) \/ ReadCredentials(c) \/ RevokeToken(c)
      <4>1. UNCHANGED <<connection, credentials>>
        BY <3>3 DEF ExchangeCode, ReadCredentials, RevokeToken
      <4>2. call'[c].step \in {"connect", "revoke", "wipe"}
        BY <3>3, <1>t DEF ExchangeCode, ReadCredentials, RevokeToken
      <4> QED BY <4>1, <4>2
    <3> QED BY <1>2, <3>1, <3>2, <3>3 DEF LedgerStep
  <2> QED BY <2>2, <2>3, <2>4, <2>5, <2>6, <2>7
<1> QED BY <1>1, <1>2 DEF LedgerNext

\* A connection that is off holds no secrets, wherever its requests failed, as long as a
\* disconnection overlaps no completion (ledger-oauth.ts, disconnectLedger).
THEOREM Wiped == LedgerSpec /\ []LedgerCallsApart => []SecretsWiped
<1>1. LedgerInit => WipeInv
  <2> SUFFICES ASSUME LedgerInit PROVE WipeInv
    OBVIOUS
  <2>1. connection = "none" /\ \A c \in Caller : call[c].step = "idle"
    BY DEF LedgerInit, IdleCall
  <2> QED BY <2>1, LedgerInitInv DEF WipeInv, SecretsWiped
<1>2. WipeInv /\ LedgerCallsApart /\ [LedgerNext]_ledgerVars => WipeInv'
  BY WipeNext
<1>3. WipeInv => SecretsWiped
  BY DEF WipeInv
<1> QED BY <1>1, <1>2, <1>3, PTL DEF LedgerSpec

-----------------------------------------------------------------------------
\* Teardown.
\* A transaction that can commit has nothing left to delete, and once it has committed
\* nothing of the engagement is on record.
GoneWhole ==
  /\ At("commit") => teardown.left = {}
  /\ teardown.step \in {"objects", "done"} => ~engagement
  /\ ~engagement => filled = {}

TeardownInv == TeardownTypeOK /\ GoneWhole /\ DocumentsKeepBytes

-----------------------------------------------------------------------------
LEMMA Statements == Len(ChildDeletes) \in Nat /\ 1 <= Len(ChildDeletes)
BY DEF ChildDeletes

TeardownStep == {"asked", "delete", "check", "engagement", "commit", "objects", "done", "failed"}
TeardownRequest == [step : TeardownStep, at : 1 .. Len(ChildDeletes), left : SUBSET Table, saw : BOOLEAN]

LEMMA TeardownInitInv == TeardownInit => TeardownInv
<1> SUFFICES ASSUME TeardownInit PROVE TeardownInv
  OBVIOUS
<1>1. teardown = [step |-> "asked", at |-> 1, left |-> {}, saw |-> FALSE]
  BY DEF TeardownInit
<1>2. teardown \in TeardownRequest
  BY <1>1, Statements DEF TeardownRequest, TeardownStep
<1>3. /\ engagement = TRUE /\ objects = ("documents" \in filled)
      /\ filled \in SUBSET Table /\ Consistent(filled, cites)
      /\ cites \in SUBSET {k \in ForeignKey : k[1] \in filled /\ k[2] \in filled}
  BY DEF TeardownInit
<1>4. TeardownTypeOK
  BY <1>2, <1>3 DEF TeardownTypeOK, TeardownRequest, TeardownStep
<1> QED BY <1>1, <1>3, <1>4 DEF TeardownInv, GoneWhole, At, DocumentsKeepBytes

\* Steps that change neither the tables nor the objects.
LEMMA TeardownLocalInv ==
  ASSUME TeardownInv, NEW n \in TeardownRequest, teardown' = n,
         n.step = "commit" => n.left = {},
         n.step \in {"objects", "done"} => ~engagement,
         UNCHANGED <<engagement, filled, cites, objects>>
  PROVE  TeardownInv'
BY DEF TeardownInv, TeardownTypeOK, GoneWhole, At, DocumentsKeepBytes, TeardownRequest, TeardownStep

LEMMA TeardownNextInv == TeardownInv /\ [TeardownNext]_teardownVars => TeardownInv'
<1> SUFFICES ASSUME TeardownInv, [TeardownNext]_teardownVars PROVE TeardownInv'
  OBVIOUS
<1>t. /\ teardown \in TeardownRequest /\ engagement \in BOOLEAN /\ objects \in BOOLEAN
      /\ filled \subseteq Table /\ cites \subseteq ForeignKey /\ Consistent(filled, cites)
  BY DEF TeardownInv, TeardownTypeOK, TeardownRequest, TeardownStep
<1>g. ASSUME NEW step \in TeardownStep, GoOn(step), step \notin {"commit", "objects"},
             step = "done" => ~engagement,
             UNCHANGED <<engagement, filled, cites, objects>>
      PROVE  TeardownInv'
  <2> DEFINE n == [teardown EXCEPT !.step = step]
  <2>1. n \in TeardownRequest /\ n.step = step /\ teardown' = n
    BY <1>g, <1>t DEF GoOn, TeardownRequest
  <2> HIDE DEF n
  <2> QED BY <1>g, <2>1, TeardownLocalInv
<1> USE DEF At, TeardownStep
<1>1. CASE BeginTeardown
  <2> DEFINE n == [step |-> "delete", at |-> 1, left |-> filled, saw |-> "documents" \in filled]
  <2>1. n \in TeardownRequest /\ n.step = "delete"
    BY <1>t, Statements DEF TeardownRequest
  <2>2. teardown' = n /\ UNCHANGED <<engagement, filled, cites, objects>>
    BY <1>1 DEF BeginTeardown
  <2> HIDE DEF n
  <2> QED BY <2>1, <2>2, TeardownLocalInv
<1>2. CASE DeleteRows
  <2> DEFINE N == Len(ChildDeletes)
             n == [teardown EXCEPT
                     !.left = @ \ {ChildDeletes[teardown.at]},
                     !.at = IF teardown.at < N THEN teardown.at + 1 ELSE teardown.at,
                     !.step = IF teardown.at < N THEN @ ELSE "check"]
  <2>1. teardown' = n /\ teardown.step = "delete" /\ UNCHANGED <<engagement, filled, cites, objects>>
    BY <1>2 DEF DeleteRows
  <2>2. teardown.at \in 1 .. N /\ teardown.left \subseteq Table
    BY <1>t DEF TeardownRequest
  <2> DEFINE A == IF teardown.at < N THEN teardown.at + 1 ELSE teardown.at
             S == IF teardown.at < N THEN teardown.step ELSE "check"
             L == teardown.left \ {ChildDeletes[teardown.at]}
  <2>3. A \in 1 .. N /\ S \in {"delete", "check"} /\ L \in SUBSET Table
    BY <2>1, <2>2, Statements
  <2>4. n = [teardown EXCEPT !.left = L, !.at = A, !.step = S]
    OBVIOUS
  <2> HIDE DEF n, A, S, L
  <2>5. n \in TeardownRequest /\ n.step = S
    BY <1>t, <2>3, <2>4 DEF TeardownRequest
  <2> QED BY <2>1, <2>3, <2>5, TeardownLocalInv
<1>3. CASE FindNoOrphans
  BY <1>3, <1>g DEF FindNoOrphans
<1>4. CASE DeleteRoot
  <2> DEFINE n == [teardown EXCEPT !.step = "commit", !.left = {}]
  <2>1. n \in TeardownRequest /\ n.step = "commit" /\ n.left = {}
    BY <1>t DEF TeardownRequest
  <2>2. teardown' = n /\ UNCHANGED <<engagement, filled, cites, objects>>
    BY <1>4 DEF DeleteRoot
  <2> HIDE DEF n
  <2> QED BY <2>1, <2>2, TeardownLocalInv
<1>5. CASE CommitTeardown
  <2>1. /\ engagement' = FALSE /\ filled' = {} /\ cites' = {} /\ objects' = objects
    BY <1>5, <1>t DEF CommitTeardown, TeardownInv, GoneWhole, Consistent
  <2>2. teardown' \in TeardownRequest /\ teardown'.step = "objects"
    BY <1>5, <1>t DEF CommitTeardown, GoOn, TeardownRequest
  <2>3. Consistent(filled', cites')
    BY <2>1 DEF Consistent
  <2> QED BY <2>1, <2>2, <2>3, <1>t DEF TeardownInv, TeardownTypeOK, GoneWhole,
             DocumentsKeepBytes, TeardownRequest
<1>6. CASE RollBack
  BY <1>6, <1>g DEF RollBack
<1>7. CASE RemoveObjects
  <2>1. /\ UNCHANGED <<engagement, filled, cites>> /\ objects' \in BOOLEAN
        /\ ~engagement /\ filled = {}
    BY <1>7, <1>t DEF RemoveObjects, TeardownInv, GoneWhole
  <2>2. teardown' \in TeardownRequest /\ teardown'.step = "done"
    BY <1>7, <1>t DEF RemoveObjects, GoOn, TeardownRequest
  <2>3. Consistent(filled', cites')
    BY <2>1, <1>t
  <2> QED BY <2>1, <2>2, <2>3, <1>t DEF TeardownInv, TeardownTypeOK, GoneWhole,
             DocumentsKeepBytes, TeardownRequest
<1>8. ASSUME NEW t \in Inserted, Insert(t) PROVE TeardownInv'
  <2>1. /\ t \in Table /\ t \notin Dependent /\ engagement /\ UNCHANGED <<engagement, cites>>
        /\ filled' = filled \cup {t} /\ objects' = (objects \/ t = "documents")
        /\ teardown.step # "commit"
    BY <1>8, InsertedAssumption DEF Insert
  <2>2. teardown' \in TeardownRequest /\ teardown'.step = teardown.step
    BY <1>8, <1>t, <2>1 DEF Insert, TeardownRequest
  <2>3. Consistent(filled', cites')
    BY <2>1, <1>t DEF Consistent
  <2> QED BY <2>1, <2>2, <2>3, <1>t DEF TeardownInv, TeardownTypeOK, GoneWhole,
             DocumentsKeepBytes, TeardownRequest
<1>9. CASE UNCHANGED teardownVars
  BY <1>9 DEF teardownVars, TeardownInv, TeardownTypeOK, GoneWhole, DocumentsKeepBytes, Consistent
<1> QED BY <1>1, <1>2, <1>3, <1>4, <1>5, <1>6, <1>7, <1>8, <1>9 DEF TeardownNext

\* The state of a teardown keeps its types, and rows their parents.
THEOREM TeardownTypes == TeardownSpec => []TeardownTypeOK
<1>1. TeardownInv => TeardownTypeOK
  BY DEF TeardownInv
<1> QED BY <1>1, TeardownInitInv, TeardownNextInv, PTL DEF TeardownSpec

\* A document that was not deleted keeps its bytes (engagements.ts: the objects are
\* removed after the commit).
THEOREM BytesKept == TeardownSpec => []DocumentsKeepBytes
<1>1. TeardownInv => DocumentsKeepBytes
  BY DEF TeardownInv
<1> QED BY <1>1, TeardownInitInv, TeardownNextInv, PTL DEF TeardownSpec

\* The whole engagement goes or nothing does, whatever is inserted meanwhile and wherever
\* the teardown fails (engagements.ts, deleteEngagement).
THEOREM AllOrNothing == TeardownSpec => WholeOrNothing
<1> DEFINE Whole == /\ engagement' => filled \subseteq filled'
                    /\ ~engagement' => filled' = {}
<1>1. TeardownInv /\ TeardownInv' /\ [TeardownNext]_teardownVars => [Whole]_teardownVars
  <2> SUFFICES ASSUME TeardownInv, TeardownInv', TeardownNext PROVE Whole
    OBVIOUS
  <2>1. ~engagement' => filled' = {}
    BY DEF TeardownInv, GoneWhole
  <2>2. ASSUME engagement' PROVE filled \subseteq filled'
    BY <2>2 DEF TeardownNext, BeginTeardown, DeleteRows, FindNoOrphans, DeleteRoot,
       CommitTeardown, RollBack, RemoveObjects, Insert
  <2> QED BY <2>1, <2>2
<1> QED BY <1>1, TeardownInitInv, TeardownNextInv, PTL DEF TeardownSpec, WholeOrNothing

-----------------------------------------------------------------------------
\* The composition.

\* What surrounds an engagement behaves as each of its components does, and no two
\* requests about the ledger overlap in it: so each theorem above holds of it.
THEOREM Composed ==
  AccountsSpec => /\ ProvisioningSpec
                  /\ LedgerSpec /\ []LedgerCallsApart
                  /\ TeardownSpec
<1>1. AccountsInit => /\ ProvisioningInit /\ LedgerInit /\ TeardownInit
                      /\ LedgerCallsApart
  <2> SUFFICES ASSUME AccountsInit
               PROVE  /\ ProvisioningInit /\ LedgerInit /\ TeardownInit
                      /\ LedgerCallsApart
    OBVIOUS
  <2>1. ProvisioningInit /\ LedgerInit /\ TeardownInit
    BY DEF AccountsInit
  <2>2. \A c \in Caller : call[c].step = "idle"
    BY <2>1 DEF LedgerInit, IdleCall
  <2> QED BY <2>1, <2>2 DEF LedgerCallsApart
<1>2. [AccountsNext]_accountVars
      => /\ [ProvisioningNext]_provisioningVars /\ [LedgerNext]_ledgerVars
         /\ [TeardownNext]_teardownVars
  BY DEF AccountsNext, PeopleNext, accountVars
<1>3. LedgerCallsApart /\ [AccountsNext]_accountVars => LedgerCallsApart'
  BY DEF AccountsNext, accountVars, ledgerVars, LedgerCallsApart
<1> QED
  BY <1>1, <1>2, <1>3, PTL DEF AccountsSpec, ProvisioningSpec, LedgerSpec, TeardownSpec

\* The rows of firms and people, the ledger connection and the teardown keep their types.
THEOREM AccountsTypes == AccountsSpec => []AccountsTypeOK
<1>1. ProvisioningInv /\ LedgerInv /\ TeardownInv => AccountsTypeOK
  BY DEF ProvisioningInv, LedgerInv, TeardownInv, AccountsTypeOK
<1>2. TeardownSpec => []TeardownInv
  BY TeardownInitInv, TeardownNextInv, PTL DEF TeardownSpec
<1> QED BY <1>1, <1>2, Composed, ProvisioningInvariant, LedgerInvariant, PTL
=============================================================================
