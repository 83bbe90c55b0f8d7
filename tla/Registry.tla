------------------------------ MODULE Registry ------------------------------
(***************************************************************************)
(* The functions the server mounts (server/registry.ts): which of the      *)
(* authorization scopes of server/functions.ts guards each one, and        *)
(* whether it is a paid action.  What the handlers do is in the modules of *)
(* the components they call.                                               *)
(***************************************************************************)

Entries(scope, gated, names) == {[fn |-> n, scope |-> scope, gated |-> gated] : n \in names}

RulesEngine == UNION {
    Entries("assessment-staff", TRUE, {"score-assessment"}),
    Entries("assessment", FALSE, {"explain-assessment", "compare-assessments"}),
    Entries("manage-engagement", TRUE, {"generate-roadmap"}),
    Entries("engagement", TRUE, {"compute-valuation"}),
    Entries("firm", FALSE, {"portfolio-valuations", "deal-calibration", "engagement-graph"}),
    Entries("manage-engagement", FALSE, {"engagement-comparables", "engagement-buyer-matches"}),
    Entries("engagement", FALSE, {"advisory-items", "education-modules"})}

PlatformFns ==
    Entries("platform-admin", FALSE, {"seed-methodology", "list-prompts", "set-prompt",
        "reset-prompt", "compute-calibration", "read-calibration", "run-bench"})

ReasoningEngine == UNION {
    Entries("assessment-staff", TRUE, {"generate-document", "institutional-review"}),
    Entries("assessment", TRUE, {"render-document-pdf", "render-owner-pdf",
                                 "render-delta-pdf", "render-cim-pdf"}),
    Entries("manage-engagement", TRUE, {"simulate-diligence", "answer-diligence-question"}),
    Entries("engagement", FALSE, {"diligence-simulation", "list-diligence-qa"}),
    Entries("firm", FALSE, {"engagement-graph-brief", "advisor-copilot"})}

WorkflowEngine == UNION {
    Entries("firm", FALSE, {"list-plans", "create-plan", "update-plan", "firm-attention"}),
    Entries("engagement", FALSE, {"list-engagement-plans"}),
    Entries("manage-engagement", FALSE, {"recommend-plans"}),
    Entries("manage-engagement", TRUE, {"apply-plan"}),
    Entries("create-engagement", TRUE, {"create-engagement"}),
    Entries("delete-engagement", FALSE, {"delete-engagement"}),
    Entries("export-engagement", FALSE, {"export-engagement"}),
    Entries("admin", FALSE, {"assign-engagement"})}

AnswerFns == UNION {
    Entries("assessment-staff", FALSE, {"sync-ledger", "enter-manual-financials",
                                        "extract-financials-from-file"}),
    Entries("manage-engagement", FALSE, {"extract-answer-candidates", "record-deal-outcome"}),
    Entries("sellside-engagement", FALSE, {"confirm-answer-candidate"}),
    Entries("assessment", FALSE, {"verification-summary"}),
    Entries("engagement", FALSE, {"list-data-room", "cim-coverage", "evidence-coverage",
                                  "retrieve-market-context"})}

DocumentFns == UNION {
    Entries("engagement", FALSE, {"set-data-room-item", "attach-data-room-document"}),
    Entries("document-upload", FALSE, {"upload-document"}),
    Entries("document", FALSE, {"get-document-detail", "get-document", "sign-document-url"})}

CollaborationEngine == UNION {
    Entries("manage-engagement", TRUE, {"invite-owner"}),
    Entries("manage-engagement", FALSE, {"invite-collaborator", "revoke-collaborator"}),
    Entries("assessment-staff", FALSE, {"share-assessment-with-client"}),
    Entries("assessment", FALSE, {"submit-client-intake"}),
    Entries("admin", FALSE, {"invite-advisor"}),
    Entries("sellside-engagement", FALSE, {"run-verification", "verification-metrics"}),
    Entries("review-queue", FALSE, {"list-review-queue"}),
    Entries("document", FALSE, {"submit-document-review"}),
    Entries("sellside-item", FALSE, {"claim-review-item", "resolve-review-item",
                                     "escalate-review-item"})}

AccountFns == UNION {
    Entries("ledger-connect", FALSE, {"ledger-connect-begin", "ledger-disconnect"}),
    Entries("ledger-complete", FALSE, {"ledger-connect-complete"}),
    Entries("firm", FALSE, {"create-checkout-session", "create-billing-portal-session",
                            "redeem-comp-code"})}

Function == UNION {RulesEngine, PlatformFns, ReasoningEngine, WorkflowEngine, AnswerFns,
                   DocumentFns, CollaborationEngine, AccountFns}

-----------------------------------------------------------------------------
\* The profile roles a scope admits; a scope with none does not resolve a firm.
Admits(scope) ==
    CASE scope \in {"firm", "create-engagement", "delete-engagement", "export-engagement",
                    "manage-engagement", "assessment-staff"} -> {"advisor", "admin"}
      [] scope = "admin" -> {"admin"}
      [] scope \in {"document-upload", "review-queue", "document", "sellside-engagement",
                    "sellside-item"} -> {"advisor", "reviewer", "admin"}
      [] OTHER -> {}

ResolvesFirm(scope) == Admits(scope) # {}

\* The scopes that look for the record the call is about under the caller's row
\* policies, and those that may go on without one: a company still to be created,
\* a pending connection that is gone.
LooksUp(scope) == scope \notin {"firm", "admin", "review-queue", "platform-admin"}
MayLackRecord(scope) == scope \in {"create-engagement", "ledger-complete"}

\* The handlers that read as the caller a third time: the document renderers.
RendersAsCaller(fn) ==
    fn \in {"render-document-pdf", "render-owner-pdf", "render-delta-pdf", "render-cim-pdf"}
=============================================================================
