# ExitBlueprint: a TLA+ verification project

ExitBlueprint is an exit-readiness platform for advisory firms. A React
application (`src/src`) talks to a portable Node compute router (`src/server`)
and, under row-level security, directly to PostgreSQL (`src/supabase`). Shared
pure code (`src/shared`) runs on both sides. This directory models the parts of
it that are hard to test: transactions that overlap, statements that commit on
their own, webhooks that are delivered twice, state that is checked in one
statement and used in another, a pool that a request draws from twice, and
arithmetic at its boundaries.

To run it: `tlc -config AssessmentLifecycle.cfg MCAssessmentLifecycle` and so on
for each row of the table in section 14; `tlapm X.tla` for each of the eight modules
`AssessmentLifecycleProofs`, `BillingProofs`, `VerificationPipelineProofs`, `PlansProofs`,
`GatewayProofs`, `AccountsProofs`, `ScoringProofs`, `EvidenceProofs`.
`PROJECT.json` maps every definition to the lines it stands for and lists the
hazards of the code at the lines where they bite.

## 1. Inventory

| component | code | state it keeps | operations | modelled in |
|---|---|---|---|---|
| Assessment lifecycle | `server/scoring.ts`, `src/lib/intakeSave.ts`, `EngagementPage`, `WorkbenchPage`, the freeze triggers | `assessments`, `answers`, `sub_score_results`, `dimension_scores`, `gaps` | start, save answers, score, supersede, compare, explain | `AssessmentLifecycle`, `SnapshotHistory` |
| Service-role answer writers | `server/ledger.ts`, `server/answer-extraction.ts` | `answers`, `answer_provenance`, `answer_candidates` | sync a ledger, enter financials, confirm a candidate | `AssessmentLifecycle` (the answers) |
| Scoring engine | `shared/scoring/engine.ts`, `interpret.ts` | none (pure) | sub-scores, dimension scores, DRS, ORI, tiers, gap triggers, projection | `ScoringEngine` |
| Intake pages | `IntakePage`, `OwnerIntakePage`, the query cache | drafts, cached rows | open, type, save a step, leave, refetch | `IntakeDrafts` |
| Client sharing | `server/client-portal.ts` | `assessments.shared_with_client_at`, `intake_submitted_at` | share a draft, submit the intake | `Provisioning` |
| Plans | `server/plans.ts`, `RoadmapPage` | `plan_templates` and items, `engagement_plans`, `tasks`, `milestones` | author and version, apply, auto-apply, reconcile, remove | `Plans` |
| Billing | `server/stripe.ts`, `comp-codes.ts`, `entitlements.ts`, `shared/entitlements.ts` | `firm_subscriptions`, `billing_events`, `comp_codes`, `comp_code_redemptions` | check out, apply webhook events, redeem and mint codes, gate an action | `Billing` |
| Verification pipeline and review queue | `server/pipeline/*`, `review-queue.ts`, `sellside.ts` | `jobs`, `document_fields`, `graph_nodes`, `assessment_values`, `review_items`, `findings` | parse, extract, build the graph, reconcile, find; claim, resolve, escalate | `VerificationPipeline` |
| Documents | `server/documents/*`, `server/data-room.ts` | `documents`, the object store, data-room items | upload, scan, store, review, link | `Documents` |
| Gateway and connection pool | `server/http.ts`, `functions.ts`, `registry.ts`, `ratelimit.ts` | the `pg` pool, rate-limit windows | throttle, authorize, gate, dispatch, answer | `Gateway`, `Registry` |
| Ledger connections | `server/ledger-oauth.ts` | `ledger_connections`, `ledger_oauth_states`, `ledger_credentials` | begin, complete, disconnect | `LedgerConnect` |
| Provisioning | `server/clerk-webhook.ts`, `invite*.ts`, `collaborators.ts`, `agreements.ts` | `firms`, `profiles`, `engagement_collaborators`, default agreements | Clerk events, invitations, revocations | `Provisioning` |
| Engagements | `server/engagements.ts` | `engagements` and everything below them | delete | `Teardown` |
| Deliverables | `server/narrative.ts`, `intelligence/runtime.ts`, `documents/catalog.ts`, `DocumentCurator.tsx` | `generated_documents`, the editor | generate, edit, finalize, render | `Deliverables` |
| Valuation | `server/valuation.ts`, `verification.ts`, `shared/own-book.ts`, `ValuationPage` | `ebitda_recasts`, `ebitda_addbacks`, `valuation_inputs` | recast, judge add-backs, set terms, compute | `Valuation` |
| Scheduled analyzers | `server/scheduled.ts`, `attention.ts` | none of its own | read-only sweeps called by an external scheduler | no |
| Calibration, corpora, market data, outcomes | `server/calibration.ts`, `comparables.ts`, `buyer-matching.ts`, `outcomes.ts`, `shared/calibration` | append-only outcome rows, aggregates | compute, record | no |
| Copilot, diligence, reviews | `server/copilot*.ts`, `diligence-*.ts`, `institutional-review.ts` | one row per request | call a model, guard its output | no |
| Methodology seeding | `server/seed-methodology.ts`, `server/migrate.ts`, `scripts/*` | rubric tables, `schema_migrations` | seed, migrate | no |
| User interface | the other pages of `src/src` | browser state | presentation over the above | no |

How they interact: every server function is a request that holds a database
connection of its own; requests share the pool, the rate limiter and the database,
so interaction between components is through committed rows, unique constraints,
row locks and triggers. The browser writes some tables itself, under row-level
security and the freeze triggers; the server writes as the service role, which
neither constrains. Stripe and Clerk call in by webhook, at least once and in any
order. Scoring calls the plan reconciliation inside its transaction and the plan
auto-application after it. A page works on a cached copy of rows that it asked for
some time ago.

What is hard: checks made before `begin` or on another connection than the write
(status of an assessment, of a review item, of a plan, of a redemption, of a
document); uniqueness that rests on one constraint reached from several paths; gap
rows that every scoring of an engagement rewrites; operations of several statements
without a transaction (webhooks, redemption, provisioning, ledger, uploads);
best-effort work after a commit; bytes that no rollback reaches; a pool that a request
draws from twice; deletes whose order is kept by hand; decisions a page takes from a
stale copy; rounding at tier boundaries. `PROJECT.json` lists each under `hazards`.

What makes each component correct, in short: an assessment's scores never change
and are backed by its answers; gap rows agree with the scores on record; plans
complete when their gaps are resolved; an event is applied once; nobody is entitled
for nothing and nobody who redeemed is shut out; what counts as resolved without a
human was resolved with confidence; a library task appears once per engagement and what
is laid down is what the plan lists; bytes and rows of documents agree; every request is
answered and no connection leaks; a person whose membership was acknowledged has a
profile and a firm can onboard; a state admits one ledger connection; an engagement
goes whole or not at all; a page shows what is stored; a stored narrative invents no
figure; an improvement never lowers a score or a value.

## 2. Plan

Done: `AssessmentLifecycle`; `Billing`; `VerificationPipeline`; `Plans`; then, in this
order, the refinement of `SnapshotHistory`; `Registry` and `Gateway` with the pool's
liveness; `Documents`, `Provisioning`, `LedgerConnect` and `Teardown`; `ScoringEngine`;
`IntakeDrafts` and `Deliverables`; `Valuation`; the MC modules that put components which
share no state into one run, or one component's scenarios; and proofs of every safety
property that the passing runs check, of the compositions `MCAccounts` and `MCEvidence`
too.

Left, most useful first:

1. Provenance of answers: the four writers of `answer_provenance` (sync, entry,
   confirmation, and the page that drops it when a figure changes) against each other.
   The server writes the answer and its provenance in two statements, and the client's
   page writes none.
2. The browser session (`auth.tsx`, `sessionExpiry.ts`): the profile's retries and
   cancellations, idle and expiry timers.
3. The items and tasks of `Plans` beside the scoring transaction of
   `AssessmentLifecycle`, in one specification; each has the reconciliation, the second
   of them statement by statement.
4. Two browsers on one assessment: `IntakeDrafts` with an advisor and a client at once.

## 3. AssessmentLifecycle and SnapshotHistory

One engagement. The sequence number stands for the assessment (the schema makes it
unique); an assessment's answer rows are one `Content`, as scoring tells them apart:
`Complete` are the contents that pass validation, `Fires` gives the gap codes the
engine returns. The engine is deterministic, so a stored score is the content it
was computed from.

PostgreSQL runs each request under READ COMMITTED. The table variables hold what is
committed; a transaction's own writes are in `job[w]` until `Commit`. A statement
that must wait for another session's uncommitted row or index entry is an action
that is not enabled (`InsertsRow`, `HoldsScore`, `HoldsRow`, `held`); where the
awaited commit makes the statement fail, the action rolls back.

| action | code |
|---|---|
| `RequestScore`, `RequestSupersede` | the checks of `scoreAssessment` and `supersedeAssessment`, made before `begin` |
| `ReadNextSequence`, `InsertCorrection` | the correction's row and answers |
| `LoadAnswers`, `PersistScores`, `ReadOpenGaps`, `ResolveGap` | `scoreAndPersist`, in its order |
| `ReadActivePlans`; for each plan `CheckPlan`, `CompletePlan` | `reconcileEngagementPlans`: the select of active plans, the count of a plan's gaps, the update by id |
| `LinkOld`, `Commit`, `Abort`, `DeadlockAbort` | the link to the old row, the ends of the transaction |
| `StartAssessment`, `InsertAssessment`, `SeedAnswers` | the browser's two ways to draft an assessment |
| `SaveAnswers` | the intake's autosave, under the freeze trigger |
| `ServiceCheck`, `ServiceWrite` | `syncLedgerToAssessment`, `enterManualFinancials`, `confirmAnswerCandidate` |
| `ApplyPlan`, `RemovePlan` | the life of an applied plan, as far as the reconciliation reads it |

Abstractions. The inserts of sub-scores, dimension scores and the status update are
one action: nothing another session can see separates them, and the first insert
already decides who waits. Seeded contents are arbitrary, which includes
what is carried forward and what the workbench drafts. All assessments share a rubric
version. The gap status `in_remediation`, which no code sets, is `open`.

`SnapshotHistory` is the abstract specification: snapshots are taken once, a
correction is a new snapshot with a higher number that the corrected one points to.
`HistorySpec` maps a stored score to a taken snapshot and `successor` to itself:
every step of every request takes one, corrects one, or stutters.

Properties.
* `CurrentScoreExists`: whatever corrections race, an engagement that was ever
  scored has a completed assessment nobody has superseded.
* `GapEvidence`: every gap row was opened by a stored score that fires it and
  resolved by one that does not.
* `ScoresFrozen` (every step): a completed assessment keeps its scores and status.
* `HistorySpec`: the refinement.
* `GapsFollowScore`, `PlansEarnCompletion` (every step, one request at a time):
  after a scoring, the open gaps are exactly those it fired, in one row each, and a
  plan it completes has gaps on record, all resolved. With two requests at a time
  `GapsFollowScore` is false: both may open the same gap. It also says nothing of an
  order: an older draft scored after a newer assessment moves the gaps to its own.
* `RequestsFinish`: every accepted request ends.

Finding `answers_frozen`: an answer is written by the service role after a scoring that
its check did not see. And a limit: a plan the advisor removes between the select of
active plans (`ReadActivePlans`) and the update by id (`CompletePlan`) comes back as
completed, so no property says that a removed plan stays removed.

## 4. Billing

`Billing` has one row of `firm_subscriptions` per firm (`sub`, with the fields the
paywall reads), the event log, the codes and their redemptions. No path opens a
transaction, so each statement is an action: `LogEvent`, `ResolveFirm`,
`ApplyEvent`, `AcknowledgeEvent` are `applyStripeEvent`; `ReadCode`,
`CheckRedemption`, `InsertRedemption`, `CountRedemption`, `ApplyComp` are
`redeemCompCode`; `FailEvent` and `FailRedeem` stop either between two statements.
`OpenCheckout` takes the customer the handler read. Stripe itself
(`CompleteCheckout`, `BillInvoice`, `CancelSubscription`, `Deliver`) is external,
modelled from what the webhook relies on: subscription events carry the firm,
invoices only the customer, and an event is delivered any number of times in any
order. Plans, seats and periods are left out: they do not decide `Entitled`. The
status `trialing` is like `active`, and `incomplete` like `canceled`.

Properties: `EventsApplyOnce` (two deliveries of one event at once, retries, late
duplicates), `AccessEarned` (an entitled firm redeemed, or Stripe said so about a
subscription of its own), `GrantsLast` (a firm told that its code is redeemed stays
entitled through any later event), `SlotsCountFirms` (a firm takes one slot however
its requests race). Finding `events_reconcile`: an event is logged, its handling
fails, Stripe retries, and the retry is answered as a duplicate: every event is
acknowledged and the paying firm is not entitled.

## 5. VerificationPipeline

One engagement. A run is a request: `StartRun` creates its job, then `Parse`,
`Extract`, `PopulateGraph` and `Reconcile` are the steps that exist (`steps.ts`), each
one transaction with the job's progress, as `runJob` has it; `RunFindings` follows when
the job has parked at the step nobody has written. `FailRun` is a step that throws, or
the end of the process, at any point. A fact is `clear`, `flagged` (it conflicts with
the self-reported answer or its confidence is low) or absent; a finding pattern fits
the run's graph or not. `facts`, `graph`, `value` and `finding` name the run whose data
is there, which is what tells re-runs apart.

A review item is loaded and checked in one statement (`LoadItem`) and written later.
`ClaimItem` and `EscalateItem` are one update each; `SeeValue` and `ResolveItem` split
the resolution where its update waits for a run's reconciliation: the row it saw is
gone then, the value keeps what the run wrote, and the item is resolved all the same.

Properties: `AutoIsConfident` (what `engagementMetrics` counts as resolved without a
human is never a conflicting or unsure value, whatever claims, late decisions,
failures and re-runs happen), `FindingsQueued` (an undecided finding has its open
item), `LatestShows` (a run that ends well leaves its own facts, graph, values and
findings, whatever a failed run left before it). Finding `runs_converge`: a second
run's extraction deletes the first one's facts between two of its steps; the first
then rebuilds an empty graph and deletes every value, and both report success.

Left out: who holds an item (two reviewers may both be told they do; nothing else
depends on it), the values themselves, and `waiting_review`, a status that no step asks
for. Nothing in the code resumes a failed job, so nothing here does. The three
invariants are checked for one run at a time; the first two are proved for any number of
overlapping runs, the third for one at a time, since two refute it.

## 6. Plans

One firm and one engagement. `template` holds `plan_templates` with their items,
`plan` the snapshots in `engagement_plans`, `task` who owns the task that a snapshot
created for a library task.

| action | code |
|---|---|
| `CreatePlan` | `createPlan` |
| `CheckUpdate`; `EditDraft`, `MintVersion` | `updatePlan` before and in its transaction |
| `AutoApply` | the candidates of `autoApplyQualifyingPlans`, chosen once |
| `CheckApply`; `ReadTasks`; `LayDown` | `applyPlan`: checks and reads before `begin`; the tasks it finds; claims, inserts and commit |
| `RemovePlan` | the browser's soft remove |
| `ReadActivePlans`; `CompletePlans` | a scoring's gaps and `reconcileEngagementPlans`, inside its transaction |
| `FailRequest` | an error or the end of the process at any point |

Between `begin` and commit of `LayDown` nothing is read that another session could have
changed in a way the properties see: the claim repeats its condition on the locked
row. Item rows get new ids when a draft is edited (`edition`), and a snapshot that
refers to rows that are gone is refused by the foreign key (`ItemsThere`). A library
task stands for the readiness area it belongs to. Manual tasks, milestones, education
and advisory items belong to one snapshot for good and are left out; so is the
re-seeding of system plans, a script run by an operator, which does rewrite their items.

Any requests overlap in every specification here; the code has no lock that would keep
two edits or two applications apart.

Properties that hold whatever overlaps: `TasksKeepPlans` (every step: an active plan's
task is not taken from it, and an apply leaves each of its library tasks with a plan that
is there) and `AppliedAsListed` (every step: what is laid down is what the plan lists at
that moment, although its items were read before the transaction; the foreign key from
the snapshot's items to the template's is what refuses the ones an edit has replaced).

`OncePerEngagement` (one active snapshot per version and one task per library task)
holds until two applications have met between check and commit: the history variable
`apart` of `MCPlans` remembers whether they have and restricts nothing, and
`OnceWhileApart` says what is left, against overlapping edits, scorings, removals,
automatic applications and failures.

What overlaps do break is left unclaimed, as in each case a status or a list is read
before the transaction and not looked at again. Two applications that meet lay the plan
and its tasks down twice. An edit that read a draft rewrites it after another has
activated it and it was applied, so that an applied snapshot and its version differ.
Two edits of one active plan both mint the next version, and both stay active. A plan
removed while a scoring runs comes back as completed.

A new template row is one that is free (`NewPlan` chooses it): ids are generated, and
which one is taken makes no difference.

## 7. Gateway and Registry

`Registry` is the table of functions with the scope that guards each and whether it is
a paid action; it is data, and as complete as `registry.ts`. `Gateway` is a request's
way through `http.ts` and `functions.ts`: `Throttle` (the fixed window of
`ratelimit.ts`, with `WindowElapses`), `Refuse` (a request that is malformed or whose
token does not verify), `Enter` (ask the pool), `Authorize` with the second connection
on which a scope asks as the caller, `FirmKnown`, `RecordSeen`, `Gate` (entitlement),
`Handle`, `Rendered` (a renderer asks as the caller again), `Answer`, `Close`. The
metrics route reads its sections side by side and one query after another inside each
(`EnterReads`, `ReadNext`, `ReadFails`, `ReadTimesOut`), so it may hold several
connections after it has answered. The pool (`Grant`, `ConnectFails`) is external: it
lends what is free in order and a waiter gives up at the connect timeout.

Properties: `LeasesLive` (every lease, and every place in the queue, belongs to what its
request is doing, once: no leak on any failing path), `AllAnswered` (every request is
answered although calls that hold the last connections wait for one more: the connect
timeout is what ends it). Scopes that look no firm up are let through the paid gate, as
`docs/06-decisions.md` acknowledges; no property says otherwise.

## 8. Documents

Uploads (`BeginUpload`, `ScanUpload`, `StoreUpload`, `CommitUpload`, `LinkUpload`,
with `FailUpload` anywhere and `LoseCommit` where the commit's outcome is unknown),
reviews (`ReadDocument`, then `WriteReview`), data-room items (`SetEvidence`) and what a
verification run does to documents (`SweepParse`, `SweepExtract`). `storage` says
whether bytes are rows, which roll back, or objects of a bucket, which do not and are
removed by compensation.

Properties: `BytesFollow` (only allowed files are stored, a rejected document has no
bytes, and with bytes in the database exactly the live documents have theirs; a bucket
may keep an object nobody has, or lack one after a lost commit), `VerifiedIsConfirmed`
(a verified document holds only facts a person confirmed, however uploads, reviews and
runs overlap, unless a run parsed it between the read and the write of a review that
verifies it: the history variable `overtaken` remembers those documents, and such a run
does add raw facts to a document that is verified by then). Finding `review_path`: a run
sets every document it parses to `classified`, from which no review leads on.

## 9. ScoringEngine

Every formula of `engine.ts`, applicability, renormalised weighted means, DRS, ORI,
the concentration governor, triggers and the projection, over a rubric that is data.
Arithmetic is exact: a real is a fraction of integers and rounding is at the places and
to the digits the code rounds, half to even. A decimal tie that no double represents
falls in the code to the side of the double; the model has no such ties to decide.
`DomainOK` has the validation's cases, by the type of the answer (`AnswerType`); answers
that are no number where one is asked, or no option of a list, are not among the values,
and answers are integers, so that a total of 100.5 is one of 100.

Properties: `ScoresInRange`, `DominantNotSaleable` (a customer with half of the
revenue and no long contract keeps the business below Sale Ready, now and in every
projection), `ImprovementNeverHurts` (every step: who does no worse on any sub-score,
with the same ones counted, scores no lower and opens no gap on one).

## 10. Provisioning, with client sharing

Clerk's events (`Deliver`, `SeekFirm`, `SeekByName`, `LinkFirm`, `InsertFirm`,
`SeedAgreement`, `InsertProfile`, `ActivateRoster`, `Acknowledge`, `DeliveryFails`):
each statement commits by itself, an event is delivered until a delivery is
acknowledged, and two deliveries may overlap. Requests at a desk invite an advisor
against the seat limit, an owner or a collaborator, revoke, share a draft and submit it
(`Ask` to `RequestAborts`). All firms share a name, which is where two organizations
can meet.

Properties: `MembersProvisioned`, and `FirmCanOnboard`: an organization whose event was
acknowledged has a firm with an agreement, however deliveries overlap and fail, unless
its firm was linked to another organization since (the history variable `ousted`).
Proved besides: `IntakeClosed`, the client's submission lands only on a draft that is
shared and open. That a firm keeps its organization is not claimed: deliveries about two
organizations of one name both find the one firm that has none and link it in turn, by
id, and the later takes it from the earlier.

## 11. LedgerConnect and Teardown

`LedgerConnect`: begin, complete and disconnect statement by statement. `StateSpentOnce`
(of two completions with a state at most one goes on, and a consumed state is never
pending again); `SecretsWiped` (a connection that is off holds no credentials, wherever
requests failed, while none overlaps a disconnection: `LedgerCallsApart`; a completion
that overlaps one may store credentials after they were wiped).

`Teardown`: the 28 deletes in their order, against the foreign keys of the
migrations, the orphan check, the delete of the engagement, commit or rollback, and the
removal of stored bytes. A table is whether it holds rows of the engagement, a key
whether a row uses it. `DocumentsKeepBytes` (documents that were not deleted keep their
bytes), and, proved, `WholeOrNothing`. Finding `teardown`: documents are deleted before
the provenance rows that refer to them, and tables the list leaves out stop the check.

## 12. IntakeDrafts and Deliverables

`IntakeDrafts` is one browser page over the query cache: rows are fetched (`ReadRows`,
`RowsArrive`, `FetchFails`), age (`CopyAges`) and are shown at once when a page is
opened on them (`OpenPage`, `SeedDrafts`); a save takes from the copy which rows to
delete (`StartSave`, `UpsertRows`, `DeleteRows`, `SaveFails`). The client's page marks
the copy old after a save, the advisor's does not. `PageShowsRows` says that what a page
shows and has not changed is what is stored, while no request fails and no opening or
save meets a fetch under way (`apart`: such a meeting may seed the page from rows read
before the save). On the client's page it holds (`OwnerSeesSaved`); on the advisor's it
does not (finding `intake_rows`).

`Deliverables` is a narrative from the model's draft to the PDF: the grounded generation
with its two checks, its redrafts and its fallback (`Draft`, `Redraft`, `Cite`,
`Recite`, `Compose`, `ModelFails`, `PersistGeneratedDocument`), and the page that
curates the latest row (`TypeText`, `PressSave`, `PressFinalize`, `DownloadPdf`,
`FlushEdits`, `RenderDocumentPdf`, reloads). `StoredIsGrounded` (every step: what the
model drafted is stored only if it invents no figure and, for buyers, cites every market
figure); `PdfMatchesScreen` (the download is what is on screen, while no request failed
and no button was used during a reload: `calm`).

## 13. Valuation

What a business is worth, from the recast, the terms, the rules version with its lanes
(override, own book, licensed market, table), the tier of the latest completed
assessment and its verified inputs; and the page's writes: `StartRecast`,
`UpdateReported`, `SetAddback`, `SaveInput`, which upserts the whole row from the
page's copy. Money is in whole units, shares in percent, rounding as `Math.round`.

`ImprovementPays` (every step): a business that earns no less, is no less ready, no less
verified and owes no more is worth no less, at the low end too, and leaves its owner no
less, across size bands, tiers and four roundings; and one that reaches Institutional
Grade with the same earnings is worth what was promised for it. Earnings below zero are
left out of it, where every factor turns around, and so is a licensed multiple, which
may exist for one band only and then be lost by growing.

## 14. Runs and bounds

| run | module, configuration | bounds |
|---|---|---|
| `assessments` | `MCAssessmentLifecycle`, `AssessmentLifecycle.cfg` | 3 assessments, 2 gaps; two racing requests without a plan, or one at a time with plan `p1` |
| `billing` | `MCBilling`, `Billing.cfg` | 2 firms; scene `events`: 2 deliveries, 2 subscriptions, 4 events; scene `codes`: 2 redemptions and a delivery, 1 code of up to 2 slots, a paying firm, 3 events |
| `plans` | `MCPlans`, `Plans.cfg` | 2 requests of any kinds; applications beside scorings, or beside edits (`scoring`); 1 seeded and 2 authored templates, 2 snapshots, 1 library task, 1 edit in place |
| `requests` | `MCRequests`, `Requests.cfg` | part `gateway`: 2 requests, 2 connections, 1 client with a limit of 1; part `scoring`: two requests over the drafts of one engagement |
| `evidence` | `MCEvidence`, `Evidence.cfg` | part `verification`: 2 runs one after the other, 2 reviewers, 1 field; `documents`: 2 uploads, 2 files of which 1 is allowed, 1 checker, 1 sweep, both storages; `engine`: 4608 combinations of answers, 11 sub-scores in three dimensions; `intake`: 2 questions of 2 values; `deliverables`: 3 narratives, 2 documents; `valuation`: 4 earnings, 1 add-back, 3 rules versions, 3 counts of verified inputs |
| `accounts` | `MCAccounts`, `Accounts.cfg` | part `firms`: 2 organizations, 2 firms, 2 deliveries; `team`: 2 desks, a seat limit of 1; `intake`: sharing against submission and scoring; `ledger`: 2 states, 2 requests; `teardown`: rows in any two tables, inserts into two |

Findings, one property each, which TLC refutes: `answers_frozen`, `events_reconcile`,
`runs_converge`, `intake_rows`, `review_path`, `teardown`.

Compositions. Components that share no state are put into one run by an MC module:
`part` (in `MCBilling` `scene`, in `MCAssessmentLifecycle` `solo`) is chosen in the
initial state and says which of them moves. This adds the parts' state spaces instead of
multiplying them, and hides no interaction, since there is none to hide: what does
interact (plans with scoring, intake sharing with scoring, teardown with inserts, the
documents with a run's sweep) is in one module. `LedgerCallsApart'` in the next-state
relation of `MCAccounts` is the hypothesis of a theorem of section 16; the further
conjuncts there, and those of the other MC modules, are bounds. In `MCPlans` a
behaviour has scorings or edits beside its applications (`scoring`), as a scoring and an
edit touch no row in common; the proofs have all three. In `MCEvidence` no data-room item
is judged not applicable, which counts as a gap does, and a run sweeps documents whose
bytes are in the database only, as it finds no others (`DocumentsStep`). Model values are shared between parts,
so that one symmetry set serves several. Symmetry is declared over interchangeable
requests, firms, subscriptions and documents, and never in the run that checks liveness.

Why the bounds are enough. Three assessments give a baseline, a correction or a draft,
and a correction of a correction or a rival; two gaps give the lock-order cycle; races
in this code are between two requests, and the proofs cover any number. Four events
cover a checkout with an invoice and a cancellation, or two checkouts. Fields of a run
do not interact, so one is enough where reviewers race. Two snapshots give a plan that
is removed and added again, or two plans that share a task. Two calls that hold the
pool's two connections and want a third are the pool's deadlock; ten do the same to
ten. Two uploads, one of them refused, give every twin, and two organizations every
claim on a name. One connection per provider is what the schema allows, so two states
and two requests give every overlap. A foreign key relates two tables, so any two
tables with rows show every order of deletes that fails. The engine's rubric has every
formula, a dimension with an inapplicable sub-score and the governor; one answer is
changed at a time, and longer improvements are sequences of such steps.

Deadlock checking is off in every run: sequence numbers, events, uploads and states are
bounded, and the system really stops when they are used up. A wait that never ends would
show in `requests`.

## 15. Fairness

`RequestsFinish` assumes strong fairness of each scoring request's next step
(`Fairness` of `AssessmentLifecycle`). A request whose connection lives is driven on by
Node's event loop; where it waits, PostgreSQL grants the lock in the order of its
queue, so a wait that is possible again and again is granted; the deadlock detector
runs after `deadlock_timeout`.

`AllAnswered` assumes weak fairness of each request's own progress in `Gateway`:
a connection that is granted is used, a query is answered or fails, and the timers of
the pool (`connectionTimeoutMillis`) and of the metrics route fire. Nothing is assumed of
the pool's having a connection to grant: the timeout does not need it.

Nothing is assumed of users, of new requests, of `Abort`, of Stripe or of Clerk. The
safety runs assume no fairness at all.

## 16. Proofs

All theorems hold for every value of the constants that satisfies the named
assumptions of the modules, which TLC evaluates in the runs. Most name kinds of value
and distinct names (`ContentAssumption`, `DocumentsAssumption`, `IntakeAssumption`, and
so on, each at its constant). Three describe configuration:

* `RubricAssumption` and `ValuesAssumption`, what `seed/drs-rubric-subscores.csv` and
  `seed/gap-definitions.csv` give: points and thresholds on a scale of a hundred, weights
  that add up, a code once, and each formula on questions of the type it reads;
* `ValuationAssumption`, what `VALUATION_CONFIG` gives (`RulesOK`): a multiple for each
  size band, not smaller for a larger business; a readiness factor, not smaller for a
  higher tier; a range, not narrower for less verification; rates between 0 and 100;
* `GatewayAssumption`: the sections of the metrics route have names of their own and
  make at least one query each.

Beyond the kinds of value, no property here is inductive as it stands. What each proof
adds:

| module | theorems | the inductive invariant, and why it is needed |
|---|---|---|
| `AssessmentLifecycleProofs` | `TypeCorrect`, `CurrentScore`, `Evidence`, `Frozen`, `Implements` | `IInv`: an assessment is completed exactly when it has a score; every link leads to a completed, later assessment; a holder of result rows works on an unscored assessment and its pending gap rows agree with what it loaded (`JobOK`); no two requests hold the result rows of one assessment (`OneScorer`, where the unique constraint enters). `Frozen`: at `Commit` the target has no score yet. `Implements`: only `Commit` takes or corrects a snapshot, all else stutters |
| | `GapsFollow`, `PlansEarn` | `ApartInv`: one open row per gap code, and what the one scoring under way knows of the rows it has opened and resolved so far (`ScoringKnows`). Both are stated of `ScenarioSpec`, where a behaviour either has one request at a time or applies no plan |
| `BillingProofs` | `TypeCorrect`, `AppliedOnce`, `CompsLast`, `AccessIsEarned`, `SlotsAreFirms` | `OnceInv`: a delivery past the log has logged its event, and no two dispatch one event (the unique event id). `GrantInv`: a granted code's flag is never reset. `EarnedInv`: a delivery that writes a firm's row carries an event about a subscription of that firm, found by the event's own firm or by a customer linked to it. `SlotsInv`: each request that has not counted yet stands for one redeemed firm that is not in the count |
| `VerificationPipelineProofs` | `TypeCorrect`, `Confident`, `Queued` | `IInv`: a flagged value nobody decided on is queued by the run that wrote it (`FlaggedQueued`); values and items of fields come from runs that have reconciled (`RowsReconciled`); a late decision about the value that is there now saw that value (`ReviewOK`). No bound on overlapping runs |
| | `LatestIsShown` | `ShowInv`, with one run in flight: what it has put in place so far (`RunShows`). Hypothesis `MaxRunning = 1`; finding `runs_converge` has two |
| `PlansProofs` | `TypeCorrect`, `OwnersKept` | `IInv`: version numbers are bounded by the number of templates (`VersionsCount`), and what a request read, or a task points to, is never forgotten (`Remembered`). Any overlap |
| | `LaidAsListed` | `RowsListed`: what an application read lists the same items as the template while both have one `edition`. Any overlap |
| | `AppliedOnce` | `Once`: while applications are apart, what the one under way has read still holds (`RowsCurrent`), no library task is on the roadmap twice (`OneTask`), no version twice active (`OneActive`). Of `HistorySpec`, which has every behaviour of `Spec` |
| `GatewayProofs` | `TypeCorrect`, `Leases` | `RecordsLive`: every lent connection and every place in the queue fits what its request is doing (`LeasesFor`), once; a request that asks, is gated or handled has its main connection. `RequestMoves` and `Places` carry it over every action of a request |
| `AccountsProofs` | `Members`, `Intake`, `Onboards` | `HookOK`, `DeskOK`: what a delivery or a request relies on between its statements; for the last `FirmInv`: a delivery about to seed has its firm linked, or its organization is ousted (`LinkOK`). Any overlap |
| | `SpentOnce`, `Wiped` | a caller past the delete consumed its state; the second under `[]LedgerCallsApart` |
| | `BytesKept`, `AllOrNothing` | what is gone at each place of the transaction (`GoneWhole`) |
| | `Composed`, `AccountsTypes` | every behaviour of `AccountsSpec` is one of each of its components and satisfies `[]LedgerCallsApart` |
| `ScoringProofs` | `InRange`, `Dominant`, `NeverHurts` | `EngineInv`: the outcome is the score of the answers; the rest is about the operators, below |
| | `ValuationTypes`, `Pays` | types; the rest is about the operators, below |
| `EvidenceProofs` | `Bytes`, `Confirmed` | what each upload knows at each place (`UploadOK`), two uploads never work on one row (`UploadsApart`); `ConfirmedInv`: what a run is about to give facts to is classified, and no review that is about to verify it was read before the run parsed it (`Unmet`), of documents that are not overtaken. Any overlap |
| | `OwnerSees` | the page's drafts were seeded from its copy (`SeededFromCopy`) and, while fetches stay apart, the copy follows the table and the drafts follow what the save under way will leave (`Quiet`, `CopyFollows`, `Planned`) |
| | `Grounded`, `Printed` | what is checked of a draft at each place of the generation (`DraftChecked`, `PageKnows`); while `calm`, the page's copy is the latest row (`FollowsWhenCalm`) |
| | `Together`, `EvidenceTypes`, `EvidencePromises`, `EvidenceLatest` | every behaviour of `EvidenceSpec` is one of each of its six components, so everything above holds of the composition |

The engine and the valuation. A score is a fold over the finite set of sub-scores that
apply. What a fold returns is proved without the library's induction theorems, by taking
a smallest counterexample among the subsets of a finite set (`SmallestSet`): sums exist
and are unique (`SumsExist`, `SumsUnique`), take one element at a time (`SumStep`) and
keep bounds (`SumAtMost`). On them rest the means, which stay within the scale and grow
with each sub-score although the weights are renormalised (`WeightedMeanRange`,
`WeightedMeanMonotone`); Python's rounding, which is monotone (`PyRoundMonotone`); the
points of each of the twelve formulas (`SubScorePoints`); that a projection lowers no
sub-score (`LiftedFacts`); and that better sub-scores fire no gap on one that was not
fired before (`GapsShrink`). The valuation's are the
monotonicity of `Math.round` (`RoundHalfUpMonotone`), of the multiple across size bands
(`BandFacts`, `MultipleFacts`), of the low end across verification tiers (`LowMonotone`)
and of what is left after costs, debt and tax (`NetMonotone`), which needs that a tax
rate of at most a hundred percent, rounded, never takes more than what was added
(`RestMonotone`).

The hypothesis `[]LedgerCallsApart` of `Wiped` is about schedules and not about the
code; its comment in `LedgerConnect` names the statements that must not overlap. Where
another property holds only until an overlap has happened, a history variable says so
(`apart`, `overtaken`, `ousted`, `calm`), which leaves every behaviour in.

Only model-checked: `RequestsFinish` and `AllAnswered`, as liveness and ENABLED are
outside the prover's reach; and the findings, which are counterexamples.

## 17. Not modelled

Components without a module: the scheduled analyzers (sweeps that read and keep
nothing), methodology seeding and migrations (operator's scripts, run alone before the
states the models start from), operations and platform (logs, metrics and read-only
pages). Of those modelled in part, `PROJECT.json` names what each leaves out. In
particular:

* `answer_provenance`, beyond its foreign key in `Teardown`, and the browser session:
  first in what section 2 leaves to do.
* The copilot, the diligence questions, agreements and institutional reviews: one
  request, one row, and text around a language model.
* `queries.ts`, `interpret.ts`, `comparables.ts`, calibration and market retrieval:
  reads, wording and statistics, without a state that two actors share.
* The pages. More than half of the lines of this repository are presentation, reads
  for it, seed data and test scripts; they hold no state a property could be about,
  so the modules stand for a smaller share of the lines than of the behaviour.
* Row-level security (who may see or write a row) and its test script. Where a policy
  or a trigger decides whether a write modelled here happens, it is a guard.

Limits of what is modelled: two requests at a time may open one gap twice, and an older
draft may move the gaps (section 3); overlapping edits and applications of plans, and a
removal during a scoring, break what section 6 leaves unclaimed; scores and values are
exact rationals, not doubles (sections 9 and 13); a bucket may keep an orphan or lose
an object (section 8); the hypothesis `LedgerCallsApart` and the histories `apart`,
`overtaken`, `ousted` and `calm` exempt the overlaps that sections 6, 8 and 10 to 12 name; the paid gate lets through scopes that
look up no firm (section 7); and the valuation page's upsert of a stale row overwrites
what another page saved, which is in the model and which no property forbids.
`hazards` in `PROJECT.json` lists these at their lines.
