----------------------------- MODULE IntakeDrafts -----------------------------
(***************************************************************************)
(* The two pages that fill in an assessment, IntakePage.tsx of the advisor  *)
(* and OwnerIntakePage.tsx of the client: the rows of `answers`, the copy     *)
(* of them in the browser's query cache, the drafts that a page seeds from  *)
(* that copy when it is opened, and the save of a step, which decides from  *)
(* the copy which rows to delete.  One browser, one assessment, one step    *)
(* that holds all its questions; no other writer.  The cache is TanStack's: *)
(* a copy is fresh for 30 seconds and kept for some minutes after the page  *)
(* is left, and a page that is opened on an old copy shows it at once and   *)
(* asks again.                                                             *)
(***************************************************************************)
CONSTANTS Prompt,  \* questions without a default (neither ranks nor lists)
          Value      \* what may be typed

None == "none"       \* no row; an emptied field
Untouched == "untouched"

ASSUME IntakeAssumption == None \notin Value /\ Untouched \notin Value

Kept == Value \cup {None}
Absent == [q \in Prompt |-> None]

VARIABLES viewer,  \* whose page it is: "advisor" or "owner"
          stored,  \* the answers of the assessment, in the table
          copy,    \* the query cache: the rows fetched last, and how old they are
          fetch,   \* the query under way, or what it has read
          page,    \* "closed", "open", or "seeded": the drafts are on screen
          drafts,  \* what the fields show
          save,    \* the save of a step, between its requests
          unsaved, \* history: questions typed since the last save
          apart    \* history: no request failed, and no opening or save met a fetch

intakeVars == <<viewer, stored, copy, fetch, page, drafts, save, unsaved, apart>>

NoFetch == [step |-> "none", rows |-> Absent]
Asked == [step |-> "asked", rows |-> Absent]
NoCopy == [age |-> "gone", rows |-> Absent]
IdleSave == [step |-> "idle", upsert |-> Absent, clear |-> {}]
NoDrafts == [q \in Prompt |-> Untouched]

(* The kinds of value of the table, the cache and the page (IntakePage.tsx).  *)
IntakeTypeOK ==
  /\ viewer \in {"advisor", "owner"}
  /\ stored \in [Prompt -> Kept]
  /\ copy \in [age : {"fresh", "stale", "gone"}, rows : [Prompt -> Kept]]
  /\ fetch \in [step : {"none", "asked", "read"}, rows : [Prompt -> Kept]]
  /\ page \in {"closed", "open", "seeded"}
  /\ drafts \in [Prompt -> Kept \cup {Untouched}]
  /\ save \in [step : {"idle", "upsert", "delete"},
               upsert : [Prompt -> Kept], clear : SUBSET Prompt]
  /\ unsaved \subseteq Prompt
  /\ apart \in BOOLEAN

IntakeInit ==
  /\ viewer \in {"advisor", "owner"}
  /\ stored = Absent
  /\ copy = NoCopy
  /\ fetch = NoFetch
  /\ page = "closed"
  /\ drafts = NoDrafts
  /\ save = IdleSave
  /\ unsaved = {}
  /\ apart = TRUE

Alone == fetch = NoFetch

-----------------------------------------------------------------------------
(* useAnswers mounts: it fetches unless the copy is fresh or a fetch is      *)
(* under way.                                                               *)
OpenPage ==
  /\ page = "closed"
  /\ page' = "open"
  /\ fetch' = IF copy.age # "fresh" /\ Alone THEN Asked ELSE fetch
  /\ apart' = (apart /\ save = IdleSave)
  /\ UNCHANGED <<viewer, stored, copy, drafts, save, unsaved>>

(* The drafts are seeded once, as soon as there is a copy, whatever its age. *)
SeedDrafts ==
  /\ page = "open"
  /\ copy.age # "gone"
  /\ page' = "seeded"
  /\ drafts' = [q \in Prompt |-> IF copy.rows[q] = None THEN Untouched ELSE copy.rows[q]]
  /\ unsaved' = {}
  /\ apart' = (apart /\ Alone /\ save = IdleSave)
  /\ UNCHANGED <<viewer, stored, copy, fetch, save>>

TypeAnswer(q, v) ==
  /\ page = "seeded"
  /\ drafts[q] # v /\ ~(drafts[q] = Untouched /\ v = None)
  /\ drafts' = [drafts EXCEPT ![q] = v]
  /\ unsaved' = unsaved \cup {q}
  /\ UNCHANGED <<viewer, stored, copy, fetch, page, save, apart>>

(* The page is left through its navigation; what was typed is gone with it.  *)
LeavePage ==
  /\ page # "closed"
  /\ page' = "closed"
  /\ drafts' = NoDrafts
  /\ unsaved' = {}
  /\ UNCHANGED <<viewer, stored, copy, fetch, save, apart>>

-----------------------------------------------------------------------------
(* The query: the server reads, and the answer arrives some time later.      *)
ReadRows ==
  /\ fetch = Asked
  /\ fetch' = [step |-> "read", rows |-> stored]
  /\ UNCHANGED <<viewer, stored, copy, page, drafts, save, unsaved, apart>>

RowsArrive ==
  /\ fetch.step = "read"
  /\ copy' = [age |-> "fresh", rows |-> fetch.rows]
  /\ fetch' = NoFetch
  /\ UNCHANGED <<viewer, stored, page, drafts, save, unsaved, apart>>

FetchFails ==
  /\ ~Alone
  /\ fetch' = NoFetch
  /\ apart' = FALSE
  /\ UNCHANGED <<viewer, stored, copy, page, drafts, save, unsaved>>

(* Half a minute passes; or several, on other pages, and the copy is dropped. *)
CopyAges ==
  /\ Alone
  /\ \/ copy.age = "fresh" /\ copy' = [copy EXCEPT !.age = "stale"]
     \/ copy.age # "gone" /\ page = "closed" /\ copy' = NoCopy
  /\ UNCHANGED <<viewer, stored, fetch, page, drafts, save, unsaved, apart>>

-----------------------------------------------------------------------------
(* saveAnswers: every field with a value is upserted; an emptied one is       *)
(* deleted if the copy has a row for it.                                      *)
Upserts == [q \in Prompt |-> IF drafts[q] \in Value THEN drafts[q] ELSE None]
Clears == {q \in Prompt : drafts[q] = None /\ copy.rows[q] # None}

(* Faulty variant: no page marks the copy.                                    *)
LeaveCopy == UNCHANGED <<copy, fetch>>

(* What a page does when its save has succeeded: the client's marks the copy  *)
(* stale, and while it is open asks again, dropping what an earlier query has  *)
(* read; the advisor's does nothing.                                          *)
MarkCopy ==
  IF viewer = "owner"
  THEN /\ copy' = [copy EXCEPT !.age = IF @ = "gone" THEN @ ELSE "stale"]
       /\ fetch' = IF page = "closed" THEN fetch ELSE Asked
  ELSE UNCHANGED <<copy, fetch>>

SaveEnds == save' = IdleSave /\ MarkCopy

(* A step is saved by moving to another one, or by submitting; a page saves   *)
(* once at a time.                                                            *)
StartSave ==
  /\ page = "seeded" /\ save = IdleSave
  /\ unsaved' = {}
  /\ apart' = (apart /\ Alone)
  /\ IF Upserts = Absent /\ Clears = {}
     THEN SaveEnds
     ELSE /\ save' = [step |-> IF Upserts # Absent THEN "upsert" ELSE "delete",
                      upsert |-> Upserts, clear |-> Clears]
          /\ UNCHANGED <<copy, fetch>>
  /\ UNCHANGED <<viewer, stored, page, drafts>>

UpsertRows ==
  /\ save.step = "upsert"
  /\ stored' = [q \in Prompt |-> IF save.upsert[q] = None THEN stored[q] ELSE save.upsert[q]]
  /\ IF save.clear = {}
     THEN SaveEnds
     ELSE save' = [save EXCEPT !.step = "delete"] /\ UNCHANGED <<copy, fetch>>
  /\ UNCHANGED <<viewer, page, drafts, unsaved, apart>>

DeleteRows ==
  /\ save.step = "delete"
  /\ stored' = [q \in Prompt |-> IF q \in save.clear THEN None ELSE stored[q]]
  /\ SaveEnds
  /\ UNCHANGED <<viewer, page, drafts, unsaved, apart>>

(* A request fails: the save ends with an error, and the copy is not marked.  *)
SaveFails ==
  /\ save # IdleSave
  /\ save' = IdleSave
  /\ apart' = FALSE
  /\ UNCHANGED <<viewer, stored, copy, fetch, page, drafts, unsaved>>

PageStep == OpenPage \/ SeedDrafts \/ LeavePage \/ \E q \in Prompt, v \in Kept : TypeAnswer(q, v)
QueryStep == ReadRows \/ RowsArrive \/ FetchFails \/ CopyAges
SaveStep == StartSave \/ UpsertRows \/ DeleteRows \/ SaveFails

IntakeNext == PageStep \/ QueryStep \/ SaveStep

IntakeSpec == IntakeInit /\ [][IntakeNext]_intakeVars

-----------------------------------------------------------------------------
Shown(q) == IF drafts[q] = Untouched THEN None ELSE drafts[q]

(* What a page shows and the reader has not typed since is what is stored:    *)
(* an emptied field has no row ("so the DB matches the emptied UI",           *)
(* intakeSave.ts), and who saves and comes back finds what was saved ("You    *)
(* can save and return anytime.", IntakePage.tsx).  Only openings and saves    *)
(* that meet no fetch, with no request that failed, are spoken of.            *)
PageShowsRows ==
  apart /\ page = "seeded" /\ save = IdleSave
    => \A q \in Prompt \ unsaved : Shown(q) = stored[q]

(* The client's page, which marks the copy after a save, has that property,   *)
(* in one visit and over several (OwnerIntakePage.tsx).                       *)
OwnerSeesSaved == viewer = "owner" => PageShowsRows
=============================================================================
