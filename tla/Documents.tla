------------------------------ MODULE Documents ------------------------------
(***************************************************************************)
(* The documents of one engagement (server/documents, server/data-room.ts) *)
(* and what a verification run does to them (server/pipeline/steps.ts).    *)
(*                                                                         *)
(* An upload looks for a twin, scans, and only then opens the transaction  *)
(* that creates the document; the bytes go to a table of the database, or  *)
(* to a bucket that no rollback reaches.  A review reads the status in one *)
(* statement and verifies in a later transaction.  A data-room item is     *)
(* linked after the upload, in a statement of its own.                     *)
(***************************************************************************)
EXTENDS FiniteSets

CONSTANTS
    File,      \* contents, told apart by their hash
    Allowed,   \* the files whose scan verdict lets them be stored
    Doc,       \* ids for documents
    Evidence,  \* data-room items
    Uploader,  \* upload requests
    Checker,   \* review requests
    Sweep      \* verification runs

NoFile == "no file"
NoDoc == "no document"
NoEvidence == "no item"

ASSUME DocumentsAssumption ==
    /\ Allowed \subseteq File /\ NoFile \notin File
    /\ NoDoc \notin Doc /\ NoEvidence \notin Evidence

VARIABLES
    storage,   \* EB_STORAGE: "db" or "bucket"
    document,  \* the committed rows
    bytes,     \* what is stored, by document id
    evidence,  \* engagement_data_room_items; an absent row reads as not_started
    upload,    \* what each upload request is doing
    reading,   \* what each review request is doing
    sweep,     \* what each verification run is doing
    overtaken  \* history: documents a run parsed before the review that was to verify
               \* them was written

documentVars == <<storage, document, bytes, evidence, upload, reading, sweep, overtaken>>

\* raw: where fields come from that no person has confirmed, the upload's own parse
\* or a verification run's.
Document == [status : {"absent", "in_review", "classified", "verified", "rejected"},
             file : File \cup {NoFile}, raw : SUBSET {"upload", "run"}]
NoDocument == [status |-> "absent", file |-> NoFile, raw |-> {}]

Readiness == {"not_started", "in_progress", "ready", "gap", "not_applicable"}
AutoReadyProtected == {"gap", "not_applicable"}

Upload == [pc : {"idle", "scan", "store", "commit", "link"}, file : File \cup {NoFile},
           item : Evidence \cup {NoEvidence}, doc : Doc \cup {NoDoc}]
NoUpload == [pc |-> "idle", file |-> NoFile, item |-> NoEvidence, doc |-> NoDoc]

Reading == [pc : {"idle", "write"}, doc : Doc \cup {NoDoc}, verify : BOOLEAN]
NoReading == [pc |-> "idle", doc |-> NoDoc, verify |-> FALSE]

DocumentsTypeOK ==
    /\ storage \in {"db", "bucket"}
    /\ document \in [Doc -> Document]
    /\ bytes \in [Doc -> File \cup {NoFile}]
    /\ evidence \in [Evidence -> [state : Readiness, doc : Doc \cup {NoDoc}]]
    /\ upload \in [Uploader -> Upload]
    /\ reading \in [Checker -> Reading]
    /\ sweep \in [Sweep -> [pc : {"new", "parsed", "over"}, docs : SUBSET Doc]]
    /\ overtaken \subseteq Doc

DocumentsInit ==
    /\ storage \in {"db", "bucket"}
    /\ document = [d \in Doc |-> NoDocument]
    /\ bytes = [d \in Doc |-> NoFile]
    /\ evidence = [e \in Evidence |-> [state |-> "not_started", doc |-> NoDoc]]
    /\ upload = [u \in Uploader |-> NoUpload]
    /\ reading = [v \in Checker |-> NoReading]
    /\ sweep = [n \in Sweep |-> [pc |-> "new", docs |-> {}]]
    /\ overtaken = {}

-----------------------------------------------------------------------------
Live(d) == document[d].status \notin {"absent", "rejected"}

\* The upload is over, or its data-room item is still to be linked.
Uploaded(u, d) ==
    upload' = [upload EXCEPT ![u] = IF @.item = NoEvidence THEN NoUpload
                                    ELSE [@ EXCEPT !.pc = "link", !.doc = d]]

\* uploadDocument, with or without a data-room item to attach it to.  A live document
\* with the same hash is the answer (the oldest; which one that is is left open).
BeginUpload(u, f, e) ==
    LET twins == {d \in Doc : Live(d) /\ document[d].file = f} IN
    /\ upload[u].pc = "idle"
    /\ \/ /\ twins = {}
          /\ upload' = [upload EXCEPT ![u] = [NoUpload EXCEPT !.pc = "scan", !.file = f, !.item = e]]
       \/ /\ e # NoEvidence
          /\ \E d \in twins : upload' = [upload EXCEPT ![u] =
               [pc |-> "link", file |-> f, item |-> e, doc |-> d]]
    /\ UNCHANGED <<storage, overtaken, document, bytes, evidence, reading, sweep>>

\* The scan, then begin and the insert.  Not allowed: the row is kept as rejected and
\* committed.
ScanUpload(u) ==
    /\ upload[u].pc = "scan"
    /\ \E d \in Doc :
         /\ document[d] = NoDocument /\ bytes[d] = NoFile
         /\ \A w \in Uploader : upload[w].doc # d
         /\ IF upload[u].file \in Allowed
            THEN upload' = [upload EXCEPT ![u].pc = "store", ![u].doc = d] /\ UNCHANGED document
            ELSE /\ document' = [document EXCEPT ![d] =
                      [status |-> "rejected", file |-> upload[u].file, raw |-> {}]]
                 /\ Uploaded(u, d)
    /\ UNCHANGED <<storage, overtaken, bytes, evidence, reading, sweep>>

\* Faulty variant: the blob is not written by the transaction's client.
StoreUploadApart(u) ==
    /\ upload[u].pc = "store"
    /\ upload' = [upload EXCEPT ![u].pc = "commit"]
    /\ bytes' = [bytes EXCEPT ![upload[u].doc] = upload[u].file]
    /\ UNCHANGED <<storage, overtaken, document, evidence, reading, sweep>>

\* storage.put: a bucket has the object at once, a row of the database waits for commit.
StoreUpload(u) ==
    /\ upload[u].pc = "store"
    /\ upload' = [upload EXCEPT ![u].pc = "commit"]
    /\ bytes' = IF storage = "bucket" THEN [bytes EXCEPT ![upload[u].doc] = upload[u].file]
                ELSE bytes
    /\ UNCHANGED <<storage, overtaken, document, evidence, reading, sweep>>

Ingested(u) ==
    \E raw \in {{}, {"upload"}} :
        document' = [document EXCEPT ![upload[u].doc] =
                       [status |-> "in_review", file |-> upload[u].file, raw |-> raw]]

CommitUpload(u) ==
    /\ upload[u].pc = "commit"
    /\ Ingested(u)
    /\ bytes' = [bytes EXCEPT ![upload[u].doc] = upload[u].file]
    /\ Uploaded(u, upload[u].doc)
    /\ UNCHANGED <<storage, overtaken, evidence, reading, sweep>>

\* Something throws, or the process dies: rolled back, and the object removed, or not.
FailUpload(u) ==
    LET d == upload[u].doc IN
    /\ upload[u].pc # "idle"
    /\ upload' = [upload EXCEPT ![u] = NoUpload]
    /\ \/ UNCHANGED bytes
       \/ upload[u].pc \in {"store", "commit"} /\ bytes' = [bytes EXCEPT ![d] = NoFile]
    /\ UNCHANGED <<storage, overtaken, document, evidence, reading, sweep>>

\* The commit is made, but its answer is lost with the connection: the code takes it
\* for a failure and removes the object.  A row of the database it cannot reach.
LoseCommit(u) ==
    LET d == upload[u].doc IN
    /\ upload[u].pc = "commit"
    /\ Ingested(u)
    /\ bytes' = [bytes EXCEPT ![d] = IF storage = "db" THEN upload[u].file ELSE NoFile]
    /\ upload' = [upload EXCEPT ![u] = NoUpload]
    /\ UNCHANGED <<storage, overtaken, evidence, reading, sweep>>

\* attachDataRoomDocument: the item takes the document, whatever its status, and an
\* untouched one is in progress.
LinkUpload(u) ==
    LET e == upload[u].item IN
    /\ upload[u].pc = "link"
    /\ evidence' = [evidence EXCEPT ![e].doc = upload[u].doc,
                                    ![e].state = IF @ = "not_started" THEN "in_progress" ELSE @]
    /\ upload' = [upload EXCEPT ![u] = NoUpload]
    /\ UNCHANGED <<storage, overtaken, document, bytes, reading, sweep>>

\* setDataRoomItem: the advisor's own judgement, with a document of the engagement.
SetEvidence(e, state, d) ==
    /\ d # NoDoc => document[d].status # "absent"
    /\ evidence' = [evidence EXCEPT ![e] = [state |-> state, doc |-> d]]
    /\ UNCHANGED <<storage, overtaken, document, bytes, upload, reading, sweep>>

-----------------------------------------------------------------------------
\* submitDocumentReview: the status, read before the transaction.
ReadDocument(v, d, verify) ==
    /\ reading[v].pc = "idle"
    /\ document[d].status # "absent"
    /\ verify => document[d].status = "in_review"
    /\ reading' = [reading EXCEPT ![v] = [pc |-> "write", doc |-> d, verify |-> verify]]
    /\ UNCHANGED <<storage, overtaken, document, bytes, evidence, upload, sweep>>

\* Faulty variant: the unconfirmed fields are not counted.
WriteReviewUncounted(v, confirmed) ==
    LET d == reading[v].doc IN
    /\ reading[v].pc = "write"
    /\ document' = [document EXCEPT ![d].raw = @ \ confirmed,
                                    ![d].status = IF reading[v].verify THEN "verified" ELSE @]
    /\ reading' = [reading EXCEPT ![v] = NoReading]
    /\ UNCHANGED <<storage, overtaken, bytes, evidence, upload, sweep>>

\* The transaction: the reviewer confirms the fields of some origins; to verify, none
\* may be left, and linked items become ready unless the advisor judged otherwise.
WriteReview(v, confirmed) ==
    LET d == reading[v].doc
        left == document[d].raw \ confirmed
        verify == reading[v].verify IN
    /\ reading[v].pc = "write"
    /\ verify => left = {}
    /\ document' = [document EXCEPT ![d].raw = left,
                                    ![d].status = IF verify THEN "verified" ELSE @]
    /\ evidence' = [e \in Evidence |->
         IF verify /\ evidence[e].doc = d /\ evidence[e].state \notin AutoReadyProtected
         THEN [evidence[e] EXCEPT !.state = "ready"] ELSE evidence[e]]
    /\ reading' = [reading EXCEPT ![v] = NoReading]
    /\ UNCHANGED <<storage, overtaken, bytes, upload, sweep>>

\* A field is still unconfirmed, or a statement fails: rolled back.
FailWriteReview(v) ==
    /\ reading[v].pc = "write"
    /\ reading' = [reading EXCEPT ![v] = NoReading]
    /\ UNCHANGED <<storage, overtaken, document, bytes, evidence, upload, sweep>>

-----------------------------------------------------------------------------
Verifying(v, d) == reading[v].pc = "write" /\ reading[v].doc = d /\ reading[v].verify

\* The parse step of a verification run: every live document whose bytes are in the
\* database is parsed and set to classified, whatever its status was.
SweepParse(n) ==
    LET docs == {d \in Doc : Live(d) /\ bytes[d] # NoFile /\ storage = "db"} IN
    /\ sweep[n].pc = "new"
    /\ sweep' = [sweep EXCEPT ![n] = [pc |-> "parsed", docs |-> docs]]
    /\ document' = [d \in Doc |-> IF d \in docs THEN [document[d] EXCEPT !.status = "classified"]
                                  ELSE document[d]]
    /\ overtaken' = overtaken \cup {d \in docs : \E v \in Checker : Verifying(v, d)}
    /\ UNCHANGED <<storage, bytes, evidence, upload, reading>>

\* The extract step: the facts of earlier runs go, those of this run come.
SweepExtract(n) ==
    /\ sweep[n].pc = "parsed"
    /\ sweep' = [sweep EXCEPT ![n].pc = "over"]
    /\ \E found \in SUBSET sweep[n].docs :
         document' = [d \in Doc |-> [document[d] EXCEPT
             !.raw = (@ \ {"run"}) \cup IF d \in found THEN {"run"} ELSE {}]]
    /\ UNCHANGED <<storage, overtaken, bytes, evidence, upload, reading>>

FailSweep(n) ==
    /\ sweep[n].pc = "parsed"
    /\ sweep' = [sweep EXCEPT ![n].pc = "over"]
    /\ UNCHANGED <<storage, overtaken, document, bytes, evidence, upload, reading>>

-----------------------------------------------------------------------------
DocumentsNext ==
    \/ \E u \in Uploader :
         \/ \E f \in File, e \in Evidence \cup {NoEvidence} : BeginUpload(u, f, e)
         \/ ScanUpload(u) \/ StoreUpload(u) \/ CommitUpload(u)
         \/ FailUpload(u) \/ LoseCommit(u) \/ LinkUpload(u)
    \/ \E e \in Evidence, state \in Readiness, d \in Doc \cup {NoDoc} : SetEvidence(e, state, d)
    \/ \E v \in Checker :
         \/ \E d \in Doc, verify \in BOOLEAN : ReadDocument(v, d, verify)
         \/ \E confirmed \in SUBSET {"upload", "run"} : WriteReview(v, confirmed)
         \/ FailWriteReview(v)
    \/ \E n \in Sweep : SweepParse(n) \/ SweepExtract(n) \/ FailSweep(n)

DocumentsSpec == DocumentsInit /\ [][DocumentsNext]_documentVars

-----------------------------------------------------------------------------
\* However uploads fail: what is stored was allowed by its scan, a rejected document
\* has no bytes, and with the bytes in the database exactly the live documents have
\* theirs.  (A bucket may keep an object nobody has, or lack one: see LoseCommit.)
BytesFollow ==
    \A d \in Doc :
        /\ bytes[d] # NoFile => bytes[d] \in Allowed
        /\ Live(d) /\ bytes[d] # NoFile => bytes[d] = document[d].file
        /\ document[d].status = "rejected" => bytes[d] = NoFile
        /\ storage = "db" => (Live(d) <=> bytes[d] # NoFile)

\* A verified document holds only facts a person confirmed, however uploads, reviews and
\* runs overlap, unless a run parsed it between the review's read and its write
\* (submitDocumentReview of server/documents/pipeline.ts and the steps of a run).
VerifiedIsConfirmed ==
    \A d \in Doc \ overtaken : document[d].status = "verified" => document[d].raw = {}

\* "The MANUAL review path is complete" (server/documents/pipeline.ts:4): when no
\* verification run is under way, every live document is in review or verified.
ReviewPathComplete ==
    (\A n \in Sweep : sweep[n].pc # "parsed")
    => \A d \in Doc : Live(d) => document[d].status \in {"in_review", "verified"}
=============================================================================
