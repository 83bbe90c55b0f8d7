----------------------------- MODULE Deliverables -----------------------------
(***************************************************************************)
(* One deliverable of an assessment, from the model's draft to the PDF: the *)
(* grounded generation (server/narrative.ts, intelligence/runtime.ts), the   *)
(* rows of generated_documents, the page that curates the latest of them     *)
(* (DocumentCurator.tsx) and the renderer (documents/catalog.ts).  One       *)
(* browser page, which stays open.                                          *)
(***************************************************************************)
EXTENDS Naturals, Sequences

CONSTANTS Text,      \* narratives: what a model answers, what an advisor types
          Foreign,   \* those with a numeral that the payload does not have
          Uncited,   \* those with a market figure without its citation
          Composed,  \* the narrative of the deterministic composer
          MaxDocs    \* bound: documents generated

ASSUME DeliverablesAssumption ==
  /\ Foreign \subseteq Text /\ Uncited \subseteq Text
  /\ Composed \in Text /\ MaxDocs \in Nat

VARIABLES docType,     \* of the page: its narrative is held to the citation contract or not
          docs,        \* generated_documents of that type, oldest first
          seen,        \* the page's copy of the latest row
          reload,      \* the query for it, or what it has read
          editor,      \* the narrative in the editor
          operation,   \* what a button of the page has started
          printed,     \* history: the last PDF was what was on screen when it was asked for
          calm         \* history: no request failed, and no button was used during a reload

deliverableVars == <<docType, docs, seen, reload, editor, operation, printed, calm>>

Nothing == "nothing"
NoDeliverable == [id |-> 0, text |-> Nothing, final |-> FALSE]
NotRead == [step |-> "none", doc |-> NoDeliverable]
Reloading == [step |-> "asked", doc |-> NoDeliverable]
Resting == [step |-> "idle", text |-> Nothing, by |-> "nobody", shown |-> Nothing]

Markdown == Text \cup {Nothing}
DocRow == [text : Text, final : BOOLEAN]
DocCopy == [id : 0 .. MaxDocs, text : Markdown, final : BOOLEAN]
Step == {"idle", "draft", "redraft", "cite", "recite", "compose", "store",
         "save", "finalize", "flush", "render"}

(* The kinds of value of the table and of the page (DocumentCurator.tsx).    *)
DeliverablesTypeOK ==
  /\ docType \in {"owner_report", "cim"}
  /\ docs \in Seq(DocRow) /\ Len(docs) <= MaxDocs
  /\ seen \in DocCopy
  /\ reload \in [step : {"none", "asked", "read"}, doc : DocCopy]
  /\ editor \in Markdown
  /\ operation \in [step : Step, text : Markdown, by : {"nobody", "model", "composer"},
                    shown : Markdown]
  /\ printed \in BOOLEAN
  /\ calm \in BOOLEAN

DeliverablesInit ==
  /\ docType \in {"owner_report", "cim"}
  /\ docs = <<>>
  /\ seen = NoDeliverable
  /\ reload = Reloading
  /\ editor = Nothing
  /\ operation = Resting
  /\ printed = TRUE
  /\ calm = TRUE

Latest ==
  IF docs = <<>> THEN NoDeliverable
  ELSE [id |-> Len(docs), text |-> docs[Len(docs)].text, final |-> docs[Len(docs)].final]

Begin(step) == operation' = [Resting EXCEPT !.step = step, !.text = editor]
Goes(step) == operation' = [operation EXCEPT !.step = step]
At(step) == operation.step = step

-----------------------------------------------------------------------------
(* useLatestDoc: the newest row of the type.                                 *)
ReadLatest ==
  /\ reload.step = "asked"
  /\ reload' = [step |-> "read", doc |-> Latest]
  /\ UNCHANGED <<docType, docs, seen, editor, operation, printed, calm>>

(* A row that differs from the copy replaces what is in the editor.          *)
LatestArrives ==
  /\ reload.step = "read"
  /\ seen' = reload.doc
  /\ editor' = IF reload.doc = seen THEN editor ELSE reload.doc.text
  /\ reload' = NotRead
  /\ UNCHANGED <<docType, docs, operation, printed, calm>>

ReloadFails ==
  /\ reload # NotRead
  /\ reload' = NotRead
  /\ calm' = FALSE
  /\ UNCHANGED <<docType, docs, seen, editor, operation, printed>>

TypeText(t) ==
  /\ seen # NoDeliverable /\ ~seen.final
  /\ t # editor
  /\ editor' = t
  /\ UNCHANGED <<docType, docs, seen, reload, operation, printed, calm>>

(* The buttons are disabled while one of them works.                         *)
Press ==
  /\ At("idle")
  /\ calm' = (calm /\ reload = NotRead)

-----------------------------------------------------------------------------
(* Generate, by the button, or by itself when there is no document yet: the   *)
(* model drafts when it is configured, the composer otherwise.                *)
Generate ==
  /\ Press
  /\ Len(docs) < MaxDocs
  /\ \/ Begin("draft") \/ Begin("compose")
  /\ UNCHANGED <<docType, docs, seen, reload, editor, printed>>

NumeralPostCheck(t) == t \notin Foreign
CitationPostCheck(t) == docType = "cim" => t \notin Uncited

Drafted(t, step) ==
  operation' = [operation EXCEPT !.step = step, !.text = t, !.by = "model"]

(* The numeral firewall: one more draft when the first one invents a figure.  *)
Draft(t) ==
  /\ At("draft")
  /\ Drafted(t, IF NumeralPostCheck(t) THEN "cite" ELSE "redraft")
  /\ UNCHANGED <<docType, docs, seen, reload, editor, printed, calm>>

Redraft(t) ==
  /\ At("redraft")
  /\ Drafted(t, IF NumeralPostCheck(t) THEN "cite" ELSE "compose")
  /\ UNCHANGED <<docType, docs, seen, reload, editor, printed, calm>>

(* Faulty variant: the redraft with citations may invent figures again.       *)
ReciteUnchecked(t) ==
  /\ At("recite")
  /\ Drafted(t, IF CitationPostCheck(t) THEN "store" ELSE "compose")
  /\ UNCHANGED <<docType, docs, seen, reload, editor, printed, calm>>

(* The citation contract: one more draft, on which both checks are held.      *)
Cite ==
  /\ At("cite")
  /\ Goes(IF CitationPostCheck(operation.text) THEN "store" ELSE "recite")
  /\ UNCHANGED <<docType, docs, seen, reload, editor, printed, calm>>

Recite(t) ==
  /\ At("recite")
  /\ Drafted(t, IF NumeralPostCheck(t) /\ CitationPostCheck(t) THEN "store" ELSE "compose")
  /\ UNCHANGED <<docType, docs, seen, reload, editor, printed, calm>>

(* No answer, or one without text: the composer takes over.                   *)
ModelFails ==
  /\ operation.step \in {"draft", "redraft", "recite"}
  /\ Goes("compose")
  /\ UNCHANGED <<docType, docs, seen, reload, editor, printed, calm>>

Compose ==
  /\ At("compose")
  /\ operation' = [operation EXCEPT !.step = "store", !.text = Composed, !.by = "composer"]
  /\ UNCHANGED <<docType, docs, seen, reload, editor, printed, calm>>

(* Every generation inserts a row; the page then asks for the latest again.   *)
PersistGeneratedDocument ==
  /\ At("store")
  /\ docs' = Append(docs, [text |-> operation.text, final |-> FALSE])
  /\ operation' = Resting
  /\ reload' = Reloading
  /\ UNCHANGED <<docType, seen, editor, printed, calm>>

-----------------------------------------------------------------------------
Dirty == seen # NoDeliverable /\ ~seen.final /\ editor # seen.text
ActiveMarkdown == IF seen.final THEN seen.text ELSE editor

PressSave ==
  /\ Press
  /\ Dirty
  /\ Begin("save")
  /\ UNCHANGED <<docType, docs, seen, reload, editor, printed>>

PressFinalize ==
  /\ Press
  /\ seen # NoDeliverable /\ ~seen.final
  /\ Begin("finalize")
  /\ UNCHANGED <<docType, docs, seen, reload, editor, printed>>

(* The update names the row by its id and asks nothing else of it.            *)
UpdateRow(final) ==
  /\ docs' = [docs EXCEPT ![seen.id] = [text |-> operation.text, final |-> @.final \/ final]]
  /\ reload' = Reloading

SaveDraft ==
  /\ operation.step \in {"save", "finalize"}
  /\ UpdateRow(At("finalize"))
  /\ operation' = Resting
  /\ UNCHANGED <<docType, seen, editor, printed, calm>>

(* Faulty variant: it renders what is stored.                                 *)
DownloadStored ==
  /\ Press
  /\ seen # NoDeliverable
  /\ operation' = [Resting EXCEPT !.step = "render", !.shown = ActiveMarkdown]
  /\ UNCHANGED <<docType, docs, seen, reload, editor, printed>>

(* The download stores unsaved edits first.                                   *)
DownloadPdf ==
  /\ Press
  /\ seen # NoDeliverable
  /\ operation' = [Resting EXCEPT !.step = IF Dirty THEN "flush" ELSE "render",
                                  !.text = editor, !.shown = ActiveMarkdown]
  /\ UNCHANGED <<docType, docs, seen, reload, editor, printed>>

FlushEdits ==
  /\ At("flush")
  /\ UpdateRow(FALSE)
  /\ Goes("render")
  /\ UNCHANGED <<docType, seen, editor, printed, calm>>

(* renderDocumentPdf prints the newest row of the type.                       *)
RenderDocumentPdf ==
  /\ At("render")
  /\ printed' = (Latest.text = operation.shown)
  /\ operation' = Resting
  /\ UNCHANGED <<docType, docs, seen, reload, editor, calm>>

(* An update or a call fails: of a flush the error is not looked at.          *)
OperationFails ==
  /\ ~At("idle")
  /\ IF At("flush") THEN Goes("render") ELSE operation' = Resting
  /\ calm' = FALSE
  /\ UNCHANGED <<docType, docs, seen, reload, editor, printed>>

GenerationStep ==
  \/ Generate
  \/ \E t \in Text : Draft(t) \/ Redraft(t) \/ Recite(t)
  \/ Cite \/ ModelFails \/ Compose \/ PersistGeneratedDocument

CuratorStep ==
  \/ PressSave \/ PressFinalize \/ SaveDraft
  \/ DownloadPdf \/ FlushEdits \/ RenderDocumentPdf \/ OperationFails
  \/ \E t \in Text : TypeText(t)

DeliverablesNext ==
  GenerationStep \/ CuratorStep \/ ReadLatest \/ LatestArrives \/ ReloadFails

DeliverablesSpec == DeliverablesInit /\ [][DeliverablesNext]_deliverableVars

-----------------------------------------------------------------------------
(* What a model drafted is stored only if it invents no figure and, in the     *)
(* documents for buyers, cites every market figure; whichever check sent the   *)
(* draft back, and whichever request failed (runGroundedGeneration).           *)
StoredIsGrounded ==
  [][docs' # docs /\ operation.by = "model" =>
       /\ docs'[Len(docs')].text \notin Foreign
       /\ docType = "cim" => docs'[Len(docs')].text \notin Uncited]_deliverableVars

(* "the download always matches the polished document on screen"              *)
(* (DocumentCurator.tsx): through typing, saving, finalizing and generating    *)
(* anew, as long as no request failed and no button was pressed while the page *)
(* was asking for the latest row.                                             *)
PdfMatchesScreen == calm => printed
=============================================================================
