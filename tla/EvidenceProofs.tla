---------------------------- MODULE EvidenceProofs ----------------------------
(***************************************************************************)
(* Proofs about what the scores rest on and what is made of them.            *)
(* Documents: every number of files, documents, uploads, reviews and          *)
(* verification runs, with either kind of storage.  IntakeDrafts: every set    *)
(* of questions and of values.  Deliverables: every set of narratives,         *)
(* whichever of them invent figures or omit citations, and every number of     *)
(* documents.  And the six components together, as MCEvidence puts them.      *)
(***************************************************************************)
EXTENDS MCEvidence, VerificationPipelineProofs, ScoringProofs

(* Documents.                                                                  *)
Underway(u) == upload[u].pc \in {"store", "commit"}

\* The document an upload is making is on nobody's record yet, and its bytes are where
\* the storage puts them before the commit.
UploadOK(u) ==
    LET x == upload[u] IN
    /\ x.pc \in {"store", "commit", "link"} => x.doc \in Doc
    /\ Underway(u) => x.file \in Allowed /\ document[x.doc].status = "absent"
    /\ Underway(u) => bytes[x.doc] = IF x.pc = "commit" /\ storage = "bucket" THEN x.file ELSE NoFile

UploadsApart ==
    \A u, w \in Uploader : u # w /\ Underway(u) /\ Underway(w) => upload[u].doc # upload[w].doc

\* A review that is to verify is of a document that was live when it was read, and
\* nothing takes a live document away.
PersonOK(v) == reading[v].pc = "write" => /\ reading[v].doc \in Doc
                                          /\ reading[v].verify => Live(reading[v].doc)

BytesAt(d) ==
    /\ bytes[d] # NoFile => bytes[d] \in Allowed
    /\ Live(d) /\ bytes[d] # NoFile => bytes[d] = document[d].file
    /\ document[d].status = "rejected" => bytes[d] = NoFile
    /\ storage = "db" => (Live(d) <=> bytes[d] # NoFile)

DocumentsInv ==
    /\ DocumentsTypeOK
    /\ \A u \in Uploader : UploadOK(u)
    /\ UploadsApart
    /\ \A v \in Checker : PersonOK(v)
    /\ \A d \in Doc : BytesAt(d)

-----------------------------------------------------------------------------
LEMMA Constants ==
    /\ NoDocument \in Document /\ NoUpload \in Upload /\ NoReading \in Reading
    /\ NoDocument.status = "absent" /\ NoUpload.pc = "idle" /\ NoReading.pc = "idle"
BY DEF NoDocument, Document, NoUpload, Upload, NoReading, Reading

LEMMA DocumentsInvInit == DocumentsInit => DocumentsInv
<1> SUFFICES ASSUME DocumentsInit PROVE DocumentsInv
  OBVIOUS
<1>1. DocumentsTypeOK
  BY Constants DEF DocumentsInit, DocumentsTypeOK, Readiness
<1>2. \A u \in Uploader : upload[u].pc = "idle"
  BY Constants DEF DocumentsInit
<1>3. \A v \in Checker : reading[v].pc = "idle"
  BY Constants DEF DocumentsInit
<1>4. \A d \in Doc : BytesAt(d)
  BY Constants DEF DocumentsInit, BytesAt, Live
<1> QED BY <1>1, <1>2, <1>3, <1>4 DEF DocumentsInv, UploadOK, Underway, UploadsApart, PersonOK

\* What holds of document d where only another document changes, or nothing of d.
LEMMA SameBytes ==
    ASSUME NEW d \in Doc, BytesAt(d), storage' = storage, bytes'[d] = bytes[d],
           document'[d].file = document[d].file,
           document'[d].status = "rejected" <=> document[d].status = "rejected",
           Live(d)' <=> Live(d)
    PROVE  BytesAt(d)'
BY DEF BytesAt

\* An upload that changes only its own record, and claims no document.
LEMMA OtherUploads ==
    ASSUME DocumentsInv, NEW u \in Uploader, NEW x \in Upload, upload' = [upload EXCEPT ![u] = x],
           storage' = storage,
           x.pc \in {"store", "commit", "link"} => x.doc \in Doc,
           x.pc \in {"store", "commit"} =>
             /\ x.file \in Allowed /\ document'[x.doc].status = "absent"
             /\ bytes'[x.doc] = IF x.pc = "commit" /\ storage = "bucket" THEN x.file ELSE NoFile
             /\ \A w \in Uploader \ {u} : Underway(w) => upload[w].doc # x.doc,
           \A w \in Uploader \ {u} : Underway(w) =>
             /\ document'[upload[w].doc].status = document[upload[w].doc].status
             /\ bytes'[upload[w].doc] = bytes[upload[w].doc]
    PROVE  /\ upload' \in [Uploader -> Upload]
           /\ \A w \in Uploader : UploadOK(w)'
           /\ UploadsApart'
<1>t. upload \in [Uploader -> Upload]
  BY DEF DocumentsInv, DocumentsTypeOK
<1>1. ASSUME NEW w \in Uploader PROVE UploadOK(w)'
  <2>1. CASE w = u
    BY <1>t, <2>1 DEF UploadOK, Underway
  <2>2. CASE w # u
    <3>1. upload'[w] = upload[w] /\ UploadOK(w)
      BY <1>t, <2>2 DEF DocumentsInv
    <3> QED BY <2>2, <3>1 DEF UploadOK, Underway
  <2> QED BY <2>1, <2>2
<1>2. UploadsApart'
  <2> SUFFICES ASSUME NEW v \in Uploader, NEW w \in Uploader, v # w, Underway(v)', Underway(w)'
               PROVE  upload'[v].doc # upload'[w].doc
    BY DEF UploadsApart
  <2>1. CASE v = u
    BY <1>t, <2>1 DEF Underway
  <2>2. CASE w = u
    BY <1>t, <2>2 DEF Underway
  <2>3. CASE v # u /\ w # u
    BY <1>t, <2>3 DEF Underway, DocumentsInv, UploadsApart
  <2> QED BY <2>1, <2>2, <2>3
<1> QED BY <1>t, <1>1, <1>2

\* Live documents stay live: what the reviews rely on.
LEMMA ReviewsKept ==
    ASSUME DocumentsInv, reading' = reading, \A d \in Doc : Live(d) => Live(d)'
    PROVE  \A v \in Checker : PersonOK(v)'
BY DEF DocumentsInv, PersonOK

\* Steps that change the record of one upload and nothing else it or a review relies on.
LEMMA UploadOnly ==
    ASSUME DocumentsInv, NEW u \in Uploader, NEW x \in Upload, upload' = [upload EXCEPT ![u] = x],
           UNCHANGED <<storage, overtaken, document, bytes, reading, sweep>>,
           evidence' \in [Evidence -> [state : Readiness, doc : Doc \cup {NoDoc}]],
           x.pc \in {"idle", "scan", "link"}, x.pc = "link" => x.doc \in Doc
    PROVE  DocumentsInv'
<1>1. /\ upload' \in [Uploader -> Upload]
      /\ \A w \in Uploader : UploadOK(w)'
      /\ UploadsApart'
  BY OtherUploads
<1>2. \A d \in Doc : BytesAt(d)' /\ (Live(d) => Live(d)')
  BY DEF DocumentsInv, BytesAt, Live
<1>3. \A v \in Checker : PersonOK(v)'
  BY <1>2, ReviewsKept
<1> QED BY <1>1, <1>2, <1>3 DEF DocumentsInv, DocumentsTypeOK

\* What becomes of an upload that ends, or goes on to its data-room item.
LEMMA Ends ==
    ASSUME DocumentsInv, NEW u \in Uploader, NEW d \in Doc, Uploaded(u, d)
    PROVE  \E x \in Upload : /\ upload' = [upload EXCEPT ![u] = x]
                             /\ x.pc \in {"idle", "link"}
                             /\ x.pc = "link" => x.doc \in Doc
<1>t. upload \in [Uploader -> Upload]
  BY DEF DocumentsInv, DocumentsTypeOK
<1>1. CASE upload[u].item = NoEvidence
  BY <1>1, <1>t, Constants DEF Uploaded
<1>2. CASE upload[u].item # NoEvidence
  <2> DEFINE x == [upload[u] EXCEPT !.pc = "link", !.doc = d]
  <2>1. x \in Upload /\ x.pc = "link" /\ x.doc = d
    BY <1>t DEF Upload
  <2>2. upload' = [upload EXCEPT ![u] = x]
    BY <1>2, <1>t DEF Uploaded
  <2> HIDE DEF x
  <2> QED BY <2>1, <2>2
<1> QED BY <1>1, <1>2

LEMMA BeginInv ==
    ASSUME DocumentsInv, NEW u \in Uploader, NEW f \in File, NEW e \in Evidence \cup {NoEvidence},
           BeginUpload(u, f, e)
    PROVE  DocumentsInv'
<1>1. UNCHANGED <<storage, overtaken, document, bytes, evidence, reading, sweep>>
  BY DEF BeginUpload
<1>2. evidence' \in [Evidence -> [state : Readiness, doc : Doc \cup {NoDoc}]]
  BY <1>1 DEF DocumentsInv, DocumentsTypeOK
<1>3. CASE upload' = [upload EXCEPT ![u] =
                        [NoUpload EXCEPT !.pc = "scan", !.file = f, !.item = e]]
  <2> DEFINE x == [NoUpload EXCEPT !.pc = "scan", !.file = f, !.item = e]
  <2>1. x \in Upload /\ x.pc = "scan"
    BY DEF NoUpload, Upload
  <2> HIDE DEF x
  <2> QED BY <1>1, <1>2, <1>3, <2>1, UploadOnly DEF x
<1>4. CASE \E d \in Doc : upload' = [upload EXCEPT ![u] =
                        [pc |-> "link", file |-> f, item |-> e, doc |-> d]]
  <2>1. PICK d \in Doc : upload' = [upload EXCEPT ![u] =
                        [pc |-> "link", file |-> f, item |-> e, doc |-> d]]
    BY <1>4
  <2> DEFINE x == [pc |-> "link", file |-> f, item |-> e, doc |-> d]
  <2>2. x \in Upload /\ x.pc = "link" /\ x.doc = d
    BY DEF Upload
  <2>3. upload' = [upload EXCEPT ![u] = x]
    BY <2>1
  <2> HIDE DEF x
  <2> QED BY <1>1, <1>2, <2>2, <2>3, UploadOnly
<1> QED BY <1>3, <1>4 DEF BeginUpload

LEMMA ScanInv ==
    ASSUME DocumentsInv, NEW u \in Uploader, ScanUpload(u)
    PROVE  DocumentsInv'
<1>t. upload \in [Uploader -> Upload] /\ document \in [Doc -> Document]
      /\ bytes \in [Doc -> File \cup {NoFile}]
  BY DEF DocumentsInv, DocumentsTypeOK
<1>1. UNCHANGED <<storage, overtaken, bytes, evidence, reading, sweep>>
  BY DEF ScanUpload
<1>2. PICK d \in Doc :
         /\ document[d] = NoDocument /\ bytes[d] = NoFile
         /\ \A w \in Uploader : upload[w].doc # d
         /\ IF upload[u].file \in Allowed
            THEN upload' = [upload EXCEPT ![u].pc = "store", ![u].doc = d] /\ UNCHANGED document
            ELSE /\ document' = [document EXCEPT ![d] =
                      [status |-> "rejected", file |-> upload[u].file, raw |-> {}]]
                 /\ Uploaded(u, d)
  BY DEF ScanUpload
<1>3. CASE upload[u].file \in Allowed
  <2> DEFINE x == [upload[u] EXCEPT !.pc = "store", !.doc = d]
  <2>1. /\ x \in Upload /\ x.pc = "store" /\ x.doc = d /\ x.file = upload[u].file
        /\ upload' = [upload EXCEPT ![u] = x] /\ UNCHANGED document
    BY <1>2, <1>3, <1>t DEF Upload
  <2> HIDE DEF x
  <2>2. /\ upload' \in [Uploader -> Upload]
        /\ \A w \in Uploader : UploadOK(w)'
        /\ UploadsApart'
    BY <1>1, <1>2, <1>3, <2>1, OtherUploads, Constants
  <2>3. \A c \in Doc : BytesAt(c)' /\ (Live(c) => Live(c)')
    BY <1>1, <2>1 DEF DocumentsInv, BytesAt, Live
  <2> QED BY <1>1, <2>1, <2>2, <2>3, ReviewsKept DEF DocumentsInv, DocumentsTypeOK
<1>4. CASE upload[u].file \notin Allowed
  <2>1. document' = [document EXCEPT ![d] =
                      [status |-> "rejected", file |-> upload[u].file, raw |-> {}]]
    BY <1>2, <1>4
  <2>2. PICK x \in Upload : /\ upload' = [upload EXCEPT ![u] = x]
                            /\ x.pc \in {"idle", "link"}
                            /\ x.pc = "link" => x.doc \in Doc
    BY <1>2, <1>4, Ends
  <2>3. document' \in [Doc -> Document]
    BY <2>1, <1>t DEF Document, Upload
  <2>4. \A w \in Uploader \ {u} : Underway(w) => upload[w].doc \in Doc /\ upload[w].doc # d
    BY <1>2 DEF DocumentsInv, UploadOK, Underway
  <2>5. /\ upload' \in [Uploader -> Upload]
        /\ \A w \in Uploader : UploadOK(w)'
        /\ UploadsApart'
    <3>1. \A w \in Uploader \ {u} : Underway(w) =>
             /\ document'[upload[w].doc].status = document[upload[w].doc].status
             /\ bytes'[upload[w].doc] = bytes[upload[w].doc]
      BY <1>1, <1>t, <2>1, <2>4
    <3>2. x.pc \notin {"store", "commit"} /\ (x.pc \in {"store", "commit", "link"} => x.doc \in Doc)
      BY <2>2
    <3>3. storage' = storage /\ upload' = [upload EXCEPT ![u] = x]
      BY <1>1, <2>2
    <3> QED BY <3>1, <3>2, <3>3, OtherUploads
  <2>6. \A c \in Doc : BytesAt(c)' /\ (Live(c) => Live(c)')
    <3> TAKE c \in Doc
    <3>1. CASE c = d
      <4>1. document'[d].status = "rejected" /\ bytes'[d] = NoFile /\ document[d].status = "absent"
        BY <1>1, <1>2, <1>t, <2>1, Constants
      <4>2. ~Live(d) /\ ~Live(d)'
        BY <4>1 DEF Live
      <4> QED BY <3>1, <4>1, <4>2 DEF BytesAt
    <3>2. CASE c # d
      <4>1. document'[c] = document[c]
        BY <1>t, <2>1, <3>2
      <4> QED BY <1>1, <4>1 DEF DocumentsInv, BytesAt, Live
    <3> QED BY <3>1, <3>2
  <2> QED BY <1>1, <2>3, <2>5, <2>6, ReviewsKept DEF DocumentsInv, DocumentsTypeOK
<1> QED BY <1>3, <1>4

LEMMA StoreInv ==
    ASSUME DocumentsInv, NEW u \in Uploader, StoreUpload(u)
    PROVE  DocumentsInv'
<1> SUFFICES ASSUME NEW d, d = upload[u].doc PROVE DocumentsInv'
  OBVIOUS
<1> DEFINE x == [upload[u] EXCEPT !.pc = "commit"]
<1>t. upload \in [Uploader -> Upload] /\ bytes \in [Doc -> File \cup {NoFile}]
      /\ storage \in {"db", "bucket"}
  BY DEF DocumentsInv, DocumentsTypeOK
<1>1. UNCHANGED <<storage, overtaken, document, evidence, reading, sweep>> /\ Underway(u)
  BY DEF StoreUpload, Underway
<1>2. /\ d \in Doc /\ upload[u].file \in Allowed /\ document[d].status = "absent"
      /\ bytes[d] = NoFile
  BY <1>1 DEF DocumentsInv, UploadOK, StoreUpload
<1>3. bytes' = IF storage = "bucket" THEN [bytes EXCEPT ![d] = upload[u].file] ELSE bytes
  BY DEF StoreUpload
<1>4. /\ x \in Upload /\ x.pc = "commit" /\ x.doc = d /\ x.file = upload[u].file
      /\ upload' = [upload EXCEPT ![u] = x]
  BY <1>t DEF StoreUpload, Upload
<1> HIDE DEF x
<1>5. bytes' \in [Doc -> File \cup {NoFile}] /\ \A c \in Doc \ {d} : bytes'[c] = bytes[c]
  BY <1>t, <1>2, <1>3, DocumentsAssumption
<1>6. bytes'[d] = IF storage = "bucket" THEN upload[u].file ELSE NoFile
  BY <1>t, <1>2, <1>3
<1>7. \A w \in Uploader \ {u} : Underway(w) => upload[w].doc \in Doc \ {d}
  BY <1>1 DEF DocumentsInv, UploadOK, UploadsApart, Underway
<1>8. /\ upload' \in [Uploader -> Upload]
      /\ \A w \in Uploader : UploadOK(w)'
      /\ UploadsApart'
  <2>1. \A w \in Uploader \ {u} : Underway(w) => bytes'[upload[w].doc] = bytes[upload[w].doc]
    BY <1>5, <1>7
  <2> QED BY <1>1, <1>2, <1>4, <1>6, <1>7, <2>1, OtherUploads
<1>9. \A c \in Doc : BytesAt(c)' /\ (Live(c) => Live(c)')
  <2> TAKE c \in Doc
  <2>1. CASE c = d
    <3>1. ~Live(d) /\ ~Live(d)' /\ document'[d].status = "absent"
      BY <1>1, <1>2 DEF Live
    <3>2. bytes'[d] # NoFile => storage = "bucket" /\ bytes'[d] \in Allowed
      BY <1>2, <1>6
    <3> QED BY <1>1, <2>1, <3>1, <3>2 DEF BytesAt
  <2>2. CASE c # d
    BY <1>1, <1>5, <2>2 DEF DocumentsInv, BytesAt, Live
  <2> QED BY <2>1, <2>2
<1> QED BY <1>1, <1>5, <1>8, <1>9, ReviewsKept DEF DocumentsInv, DocumentsTypeOK

\* The transaction of an upload commits: the row appears, in review.
LEMMA IngestInv ==
    ASSUME DocumentsInv, NEW u \in Uploader, upload[u].pc = "commit", Ingested(u),
           UNCHANGED <<storage, overtaken, evidence, reading, sweep>>,
           NEW b \in {upload[u].file, NoFile}, bytes' = [bytes EXCEPT ![upload[u].doc] = b],
           storage = "db" => b = upload[u].file,
           NEW x \in Upload, upload' = [upload EXCEPT ![u] = x],
           x.pc \in {"idle", "link"}, x.pc = "link" => x.doc \in Doc
    PROVE  DocumentsInv'
<1> SUFFICES ASSUME NEW d, d = upload[u].doc PROVE DocumentsInv'
  OBVIOUS
<1>t. upload \in [Uploader -> Upload] /\ document \in [Doc -> Document]
      /\ bytes \in [Doc -> File \cup {NoFile}]
  BY DEF DocumentsInv, DocumentsTypeOK
<1>1. Underway(u) /\ d \in Doc /\ upload[u].file \in Allowed /\ upload[u].file \in File
      /\ upload[u].file # NoFile
  BY DocumentsAssumption DEF DocumentsInv, UploadOK, Underway
<1>2. PICK raw \in {{}, {"upload"}} :
        document' = [document EXCEPT ![d] =
                       [status |-> "in_review", file |-> upload[u].file, raw |-> raw]]
  BY DEF Ingested
<1>3. document' \in [Doc -> Document] /\ \A c \in Doc \ {d} : document'[c] = document[c]
  BY <1>t, <1>1, <1>2 DEF Document
<1>4. document'[d].status = "in_review" /\ document'[d].file = upload[u].file
  BY <1>t, <1>1, <1>2
<1>5. /\ bytes' \in [Doc -> File \cup {NoFile}] /\ bytes'[d] = b
      /\ \A c \in Doc \ {d} : bytes'[c] = bytes[c]
  BY <1>t, <1>1
<1>6. \A w \in Uploader \ {u} : Underway(w) => upload[w].doc \in Doc \ {d}
  BY <1>1 DEF DocumentsInv, UploadOK, UploadsApart, Underway
<1>7. /\ upload' \in [Uploader -> Upload]
      /\ \A w \in Uploader : UploadOK(w)'
      /\ UploadsApart'
  <2>1. \A w \in Uploader \ {u} : Underway(w) =>
           /\ document'[upload[w].doc].status = document[upload[w].doc].status
           /\ bytes'[upload[w].doc] = bytes[upload[w].doc]
    BY <1>3, <1>5, <1>6
  <2>2. x.pc \notin {"store", "commit"} /\ (x.pc \in {"store", "commit", "link"} => x.doc \in Doc)
    OBVIOUS
  <2> QED BY <2>1, <2>2, OtherUploads
<1>8. \A c \in Doc : BytesAt(c)' /\ (Live(c) => Live(c)')
  <2> TAKE c \in Doc
  <2>1. CASE c = d
    <3>1. Live(d)'
      BY <1>4 DEF Live
    <3> QED BY <1>1, <1>4, <1>5, <2>1, <3>1 DEF BytesAt
  <2>2. CASE c # d
    BY <1>3, <1>5, <2>2 DEF DocumentsInv, BytesAt, Live
  <2> QED BY <2>1, <2>2
<1> QED BY <1>3, <1>5, <1>7, <1>8, ReviewsKept DEF DocumentsInv, DocumentsTypeOK

LEMMA CommitInv ==
    ASSUME DocumentsInv, NEW u \in Uploader, CommitUpload(u) \/ LoseCommit(u)
    PROVE  DocumentsInv'
<1>1. upload[u].pc = "commit" /\ Ingested(u) /\ UNCHANGED <<storage, overtaken, evidence, reading, sweep>>
  BY DEF CommitUpload, LoseCommit
<1>2. upload[u].doc \in Doc
  BY <1>1 DEF DocumentsInv, UploadOK
<1>3. CASE CommitUpload(u)
  <2>1. PICK x \in Upload : /\ upload' = [upload EXCEPT ![u] = x]
                            /\ x.pc \in {"idle", "link"}
                            /\ x.pc = "link" => x.doc \in Doc
    BY <1>2, <1>3, Ends DEF CommitUpload
  <2>2. bytes' = [bytes EXCEPT ![upload[u].doc] = upload[u].file]
    BY <1>3 DEF CommitUpload
  <2> QED BY <1>1, <2>1, <2>2, IngestInv
<1>4. CASE LoseCommit(u)
  <2> DEFINE b == IF storage = "db" THEN upload[u].file ELSE NoFile
  <2>1. bytes' = [bytes EXCEPT ![upload[u].doc] = b] /\ upload' = [upload EXCEPT ![u] = NoUpload]
    BY <1>4 DEF LoseCommit
  <2>2. b \in {upload[u].file, NoFile} /\ (storage = "db" => b = upload[u].file)
    OBVIOUS
  <2> HIDE DEF b
  <2> QED BY <1>1, <2>1, <2>2, IngestInv, Constants
<1> QED BY <1>3, <1>4

LEMMA FailInv ==
    ASSUME DocumentsInv, NEW u \in Uploader, FailUpload(u)
    PROVE  DocumentsInv'
<1> SUFFICES ASSUME NEW d, d = upload[u].doc PROVE DocumentsInv'
  OBVIOUS
<1>t. bytes \in [Doc -> File \cup {NoFile}]
  BY DEF DocumentsInv, DocumentsTypeOK
<1>1. /\ UNCHANGED <<storage, overtaken, document, evidence, reading, sweep>>
      /\ upload' = [upload EXCEPT ![u] = NoUpload]
  BY DEF FailUpload
<1>2. CASE UNCHANGED bytes
  BY <1>1, <1>2, UploadOnly, Constants DEF DocumentsInv, DocumentsTypeOK
<1>3. CASE Underway(u) /\ bytes' = [bytes EXCEPT ![d] = NoFile]
  <2>1. d \in Doc /\ document[d].status = "absent"
    BY <1>3 DEF DocumentsInv, UploadOK, Underway
  <2>2. /\ bytes' \in [Doc -> File \cup {NoFile}] /\ bytes'[d] = NoFile
        /\ \A c \in Doc \ {d} : bytes'[c] = bytes[c]
    BY <1>t, <1>3, <2>1
  <2>3. \A w \in Uploader \ {u} : Underway(w) => upload[w].doc \in Doc \ {d}
    BY <1>3 DEF DocumentsInv, UploadOK, UploadsApart, Underway
  <2>4. /\ upload' \in [Uploader -> Upload]
        /\ \A w \in Uploader : UploadOK(w)'
        /\ UploadsApart'
    BY <1>1, <2>2, <2>3, OtherUploads, Constants
  <2>5. \A c \in Doc : BytesAt(c)' /\ (Live(c) => Live(c)')
    BY <1>1, <2>1, <2>2 DEF DocumentsInv, BytesAt, Live
  <2> QED BY <1>1, <2>2, <2>4, <2>5, ReviewsKept DEF DocumentsInv, DocumentsTypeOK
<1> QED BY <1>2, <1>3 DEF FailUpload, Underway

LEMMA LinkInv ==
    ASSUME DocumentsInv, NEW u \in Uploader, LinkUpload(u)
    PROVE  DocumentsInv'
<1>1. /\ UNCHANGED <<storage, overtaken, document, bytes, reading, sweep>>
      /\ upload' = [upload EXCEPT ![u] = NoUpload]
  BY DEF LinkUpload
<1>2. upload[u].doc \in Doc
  BY DEF LinkUpload, DocumentsInv, UploadOK
<1>3. evidence' \in [Evidence -> [state : Readiness, doc : Doc \cup {NoDoc}]]
  <2>1. evidence \in [Evidence -> [state : Readiness, doc : Doc \cup {NoDoc}]]
    BY DEF DocumentsInv, DocumentsTypeOK
  <2>2. ASSUME NEW e \in Evidence
        PROVE  evidence'[e] \in [state : Readiness, doc : Doc \cup {NoDoc}]
    BY <1>2, <2>1 DEF LinkUpload, Readiness
  <2>3. evidence' = [e \in Evidence |-> evidence'[e]]
    BY <2>1 DEF LinkUpload
  <2> QED BY <2>2, <2>3
<1> QED BY <1>1, <1>3, UploadOnly, Constants

-----------------------------------------------------------------------------
\* What reviews and runs do to the status of a document.
Handled(d) ==
    /\ document'[d].file = document[d].file
    /\ \/ document'[d].status = document[d].status
       \/ Live(d) /\ document'[d].status \in {"classified", "verified"}

LEMMA Rewritten ==
    ASSUME NEW r \in Document, NEW raw \in SUBSET {"upload", "run"},
           NEW status \in {"absent", "in_review", "classified", "verified", "rejected"}
    PROVE  LET q == [r EXCEPT !.raw = raw, !.status = status]
           IN  q \in Document /\ q.status = status /\ q.file = r.file
BY DEF Document

\* Steps that keep the uploads, every document's file and liveness, and the bytes.
LEMMA RestInv ==
    ASSUME DocumentsInv, UNCHANGED <<storage, bytes, upload>>,
           document' \in [Doc -> Document],
           evidence' \in [Evidence -> [state : Readiness, doc : Doc \cup {NoDoc}]],
           reading' \in [Checker -> Reading],
           sweep' \in [Sweep -> [pc : {"new", "parsed", "over"}, docs : SUBSET Doc]],
           overtaken' \subseteq Doc,
           \A d \in Doc : Handled(d),
           \A v \in Checker : PersonOK(v)'
    PROVE  DocumentsInv'
<1>1. ASSUME NEW d \in Doc
      PROVE  /\ Live(d)' <=> Live(d)
             /\ document'[d].status = "rejected" <=> document[d].status = "rejected"
             /\ document[d].status = "absent" => document'[d].status = "absent"
             /\ document'[d].file = document[d].file
  <2>1. Handled(d)
    OBVIOUS
  <2> QED BY <2>1 DEF Live, Handled
<1>2. \A d \in Doc : BytesAt(d)'
  <2> TAKE d \in Doc
  <2>1. BytesAt(d)
    BY DEF DocumentsInv
  <2> QED BY <1>1, <2>1, SameBytes
<1>3. \A u \in Uploader : UploadOK(u)'
  BY <1>1 DEF DocumentsInv, UploadOK, Underway
<1>4. UploadsApart'
  BY DEF DocumentsInv, UploadsApart, Underway
<1> QED BY <1>2, <1>3, <1>4 DEF DocumentsInv, DocumentsTypeOK

LEMMA EvidenceInv ==
    ASSUME DocumentsInv, NEW e \in Evidence, NEW state \in Readiness, NEW d \in Doc \cup {NoDoc},
           SetEvidence(e, state, d)
    PROVE  DocumentsInv'
<1>1. UNCHANGED <<storage, overtaken, document, bytes, upload, reading, sweep>>
  BY DEF SetEvidence
<1>2. evidence' \in [Evidence -> [state : Readiness, doc : Doc \cup {NoDoc}]]
  BY DEF SetEvidence, DocumentsInv, DocumentsTypeOK
<1>3. \A v \in Checker : PersonOK(v)'
  BY <1>1 DEF DocumentsInv, PersonOK, Live
<1> QED BY <1>1, <1>2, <1>3, RestInv DEF DocumentsInv, DocumentsTypeOK, Handled

LEMMA PersonInv ==
    ASSUME DocumentsInv, NEW v \in Checker,
           \/ \E d \in Doc, verify \in BOOLEAN : ReadDocument(v, d, verify)
           \/ \E confirmed \in SUBSET {"upload", "run"} : WriteReview(v, confirmed)
           \/ FailWriteReview(v)
    PROVE  DocumentsInv'
<1>t. /\ overtaken \subseteq Doc
      /\ reading \in [Checker -> Reading] /\ document \in [Doc -> Document]
      /\ evidence \in [Evidence -> [state : Readiness, doc : Doc \cup {NoDoc}]]
      /\ sweep \in [Sweep -> [pc : {"new", "parsed", "over"}, docs : SUBSET Doc]]
  BY DEF DocumentsInv, DocumentsTypeOK
<1>1. ASSUME NEW d \in Doc, NEW verify \in BOOLEAN, ReadDocument(v, d, verify)
      PROVE  DocumentsInv'
  <2> DEFINE x == [pc |-> "write", doc |-> d, verify |-> verify]
  <2>1. /\ UNCHANGED <<storage, overtaken, document, bytes, evidence, upload, sweep>>
        /\ reading' = [reading EXCEPT ![v] = x]
        /\ verify => document[d].status = "in_review"
    BY <1>1 DEF ReadDocument
  <2>2. x \in Reading /\ x.doc = d /\ x.verify = verify
    BY DEF Reading
  <2> HIDE DEF x
  <2>3. reading' \in [Checker -> Reading]
    BY <1>t, <2>1, <2>2
  <2>4. \A w \in Checker : PersonOK(w)'
    <3> TAKE w \in Checker
    <3>1. CASE w = v
      BY <1>t, <2>1, <2>2, <3>1 DEF PersonOK, Live
    <3>2. CASE w # v
      BY <1>t, <2>1, <3>2 DEF DocumentsInv, PersonOK, Live
    <3> QED BY <3>1, <3>2
  <2> QED BY <1>t, <2>1, <2>3, <2>4, RestInv DEF Handled
<1>2. ASSUME NEW confirmed \in SUBSET {"upload", "run"}, WriteReview(v, confirmed)
      PROVE  DocumentsInv'
  <2> SUFFICES ASSUME NEW d, d = reading[v].doc, NEW verify, verify = reading[v].verify
               PROVE  DocumentsInv'
    OBVIOUS
  <2>1. /\ d \in Doc /\ verify \in BOOLEAN
        /\ verify => Live(d)
        /\ reading[v].pc = "write"
    BY <1>2, <1>t DEF WriteReview, DocumentsInv, PersonOK, Reading
  <2>2. /\ UNCHANGED <<storage, overtaken, bytes, upload, sweep>>
        /\ reading' = [reading EXCEPT ![v] = NoReading]
        /\ document' = [document EXCEPT ![d].raw = document[d].raw \ confirmed,
                                       ![d].status = IF verify THEN "verified" ELSE @]
        /\ evidence' = [e \in Evidence |->
             IF verify /\ evidence[e].doc = d /\ evidence[e].state \notin AutoReadyProtected
             THEN [evidence[e] EXCEPT !.state = "ready"] ELSE evidence[e]]
    BY <1>2 DEF WriteReview
  <2>3. document' \in [Doc -> Document]
    <3>1. document[d].raw \ confirmed \in SUBSET {"upload", "run"}
      BY <1>t, <2>1 DEF Document
    <3>2. (IF verify THEN "verified" ELSE document[d].status)
            \in {"absent", "in_review", "classified", "verified", "rejected"}
      BY <1>t, <2>1 DEF Document
    <3>3. document' = [document EXCEPT ![d] =
             [document[d] EXCEPT !.raw = document[d].raw \ confirmed,
                                 !.status = IF verify THEN "verified" ELSE document[d].status]]
      BY <2>2, <1>t, <2>1
    <3>4. document[d] \in Document
      BY <1>t, <2>1
    <3> DEFINE q == [document[d] EXCEPT !.raw = document[d].raw \ confirmed,
                       !.status = IF verify THEN "verified" ELSE document[d].status]
    <3>5. q \in Document
      BY <3>1, <3>2, <3>4, Rewritten
    <3>6. document' = [document EXCEPT ![d] = q]
      BY <3>3
    <3> HIDE DEF q
    <3> QED BY <1>t, <3>5, <3>6
  <2>4. evidence' \in [Evidence -> [state : Readiness, doc : Doc \cup {NoDoc}]]
    BY <1>t, <2>2 DEF Readiness
  <2>5. \A c \in Doc : Handled(c)
    <3> TAKE c \in Doc
    <3>1. CASE c = d /\ verify
      BY <1>t, <2>1, <2>2, <3>1 DEF Document, Handled
    <3>2. CASE c = d /\ ~verify
      BY <1>t, <2>1, <2>2, <3>2 DEF Document, Handled
    <3>3. CASE c # d
      BY <1>t, <2>2, <3>3 DEF Handled
    <3> QED BY <2>1, <3>1, <3>2, <3>3
  <2>6. \A c \in Doc : Live(c) => Live(c)'
    BY <2>5 DEF Live, Handled
  <2>7. reading' \in [Checker -> Reading] /\ \A w \in Checker : PersonOK(w)'
    BY <1>t, <2>2, <2>6, Constants DEF DocumentsInv, PersonOK
  <2> QED BY <1>t, <2>2, <2>3, <2>4, <2>5, <2>7, RestInv
<1>3. CASE FailWriteReview(v)
  <2>1. /\ UNCHANGED <<storage, overtaken, document, bytes, evidence, upload, sweep>>
        /\ reading' = [reading EXCEPT ![v] = NoReading]
    BY <1>3 DEF FailWriteReview
  <2>2. reading' \in [Checker -> Reading] /\ \A w \in Checker : PersonOK(w)'
    BY <1>t, <2>1, Constants DEF DocumentsInv, PersonOK, Live
  <2> QED BY <1>t, <2>1, <2>2, RestInv DEF Handled
<1> QED BY <1>1, <1>2, <1>3

LEMMA SweepInv ==
    ASSUME DocumentsInv, NEW n \in Sweep, SweepParse(n) \/ SweepExtract(n) \/ FailSweep(n)
    PROVE  DocumentsInv'
<1>t. /\ overtaken \subseteq Doc
      /\ reading \in [Checker -> Reading] /\ document \in [Doc -> Document]
      /\ evidence \in [Evidence -> [state : Readiness, doc : Doc \cup {NoDoc}]]
      /\ sweep \in [Sweep -> [pc : {"new", "parsed", "over"}, docs : SUBSET Doc]]
  BY DEF DocumentsInv, DocumentsTypeOK
<1>1. UNCHANGED <<storage, bytes, evidence, upload, reading>>
  BY DEF SweepParse, SweepExtract, FailSweep
<1>2. /\ sweep' \in [Sweep -> [pc : {"new", "parsed", "over"}, docs : SUBSET Doc]]
      /\ overtaken' \subseteq Doc
  <2>1. CASE SweepParse(n)
    BY <2>1, <1>t DEF SweepParse
  <2>2. CASE SweepExtract(n)
    BY <2>2, <1>t DEF SweepExtract
  <2>3. CASE FailSweep(n)
    BY <2>3, <1>t DEF FailSweep
  <2> QED BY <2>1, <2>2, <2>3
<1>3. /\ document' \in [Doc -> Document]
      /\ \A c \in Doc : Handled(c)
  <2>1. CASE SweepParse(n)
    <3> DEFINE held == {d \in Doc : Live(d) /\ bytes[d] # NoFile /\ storage = "db"}
    <3>1. document' = [d \in Doc |-> IF d \in held THEN [document[d] EXCEPT !.status = "classified"]
                                    ELSE document[d]]
      BY <2>1 DEF SweepParse
    <3>2. ASSUME NEW c \in Doc PROVE document'[c] \in Document /\ Handled(c)
      <4>1. CASE c \in held
        <5>1. document'[c] = [document[c] EXCEPT !.status = "classified"] /\ Live(c)
          BY <3>1, <4>1
        <5>2. document[c] \in Document
          BY <1>t
        <5> QED BY <5>1, <5>2 DEF Document, Handled
      <4>2. CASE c \notin held
        BY <1>t, <3>1, <4>2 DEF Handled
      <4> QED BY <4>1, <4>2
    <3> HIDE DEF held
    <3> QED BY <3>1, <3>2
  <2>2. CASE SweepExtract(n)
    <3>1. PICK found \in SUBSET sweep[n].docs :
            document' = [d \in Doc |-> [document[d] EXCEPT
               !.raw = (document[d].raw \ {"run"}) \cup IF d \in found THEN {"run"} ELSE {}]]
      BY <2>2 DEF SweepExtract
    <3>2. ASSUME NEW c \in Doc PROVE document'[c] \in Document /\ Handled(c)
      <4> DEFINE raw == (document[c].raw \ {"run"}) \cup IF c \in found THEN {"run"} ELSE {}
      <4>1. document'[c] = [document[c] EXCEPT !.raw = raw]
        BY <3>1
      <4>2. document[c] \in Document /\ raw \in SUBSET {"upload", "run"}
        BY <1>t DEF Document
      <4> HIDE DEF raw
      <4> QED BY <4>1, <4>2 DEF Document, Handled
    <3> QED BY <3>1, <3>2
  <2>3. CASE FailSweep(n)
    BY <2>3, <1>t DEF FailSweep, Handled
  <2> QED BY <2>1, <2>2, <2>3
<1>4. \A c \in Doc : Live(c) => Live(c)'
  BY <1>3 DEF Live, Handled
<1>5. \A w \in Checker : PersonOK(w)'
  BY <1>1, <1>4 DEF DocumentsInv, PersonOK
<1> QED BY <1>t, <1>1, <1>2, <1>3, <1>5, RestInv

LEMMA DocumentsInvNext == DocumentsInv /\ [DocumentsNext]_documentVars => DocumentsInv'
<1> SUFFICES ASSUME DocumentsInv, [DocumentsNext]_documentVars PROVE DocumentsInv'
  OBVIOUS
<1>1. CASE DocumentsNext
  BY <1>1, BeginInv, ScanInv, StoreInv, CommitInv, FailInv, LinkInv, EvidenceInv, PersonInv,
     SweepInv DEF DocumentsNext
<1>2. CASE UNCHANGED documentVars
  <2>1. \A v \in Checker : PersonOK(v)'
    BY <1>2 DEF documentVars, DocumentsInv, PersonOK, Live
  <2> QED BY <1>2, <2>1, RestInv DEF documentVars, DocumentsInv, DocumentsTypeOK, Handled
<1> QED BY <1>1, <1>2

\* Every row, upload, review and run keeps its type.
THEOREM DocumentTypes == DocumentsSpec => []DocumentsTypeOK
<1>1. DocumentsInv => DocumentsTypeOK
  BY DEF DocumentsInv
<1> QED BY <1>1, DocumentsInvInit, DocumentsInvNext, PTL DEF DocumentsSpec

\* However uploads race and fail, the stored bytes follow the documents
\* (server/documents/pipeline.ts, uploadDocument).
THEOREM Bytes == DocumentsSpec => []BytesFollow
<1>1. DocumentsInv => BytesFollow
  BY DEF DocumentsInv, BytesFollow, BytesAt
<1> QED BY <1>1, DocumentsInvInit, DocumentsInvNext, PTL DEF DocumentsSpec

-----------------------------------------------------------------------------
\* While no run overtakes its review: what a run is about to give facts to is classified,
\* and no review that is about to verify it was read before the run parsed it.
Unmet(n, d) ==
    sweep[n].pc = "parsed" /\ d \in sweep[n].docs =>
        /\ document[d].status = "classified"
        /\ \A v \in Checker : ~Verifying(v, d)

ConfirmedInv ==
    /\ DocumentsInv /\ VerifiedIsConfirmed
    /\ \A n \in Sweep, d \in Doc \ overtaken : Unmet(n, d)

LEMMA ConfirmedInit == DocumentsInit => ConfirmedInv
<1> SUFFICES ASSUME DocumentsInit PROVE ConfirmedInv
  OBVIOUS
<1>1. \A d \in Doc : document[d].status = "absent"
  BY Constants DEF DocumentsInit
<1>2. \A n \in Sweep : sweep[n].pc = "new"
  BY DEF DocumentsInit
<1> QED BY <1>1, <1>2, DocumentsInvInit DEF ConfirmedInv, VerifiedIsConfirmed, Unmet

\* Steps that leave the runs where they are, read no review that is to verify, and leave
\* each document as it was, or make it one that is neither verified nor under a run, or
\* settle every fact of it, to verify it only if no run has parsed it.
LEMMA ConfirmedStep ==
    ASSUME ConfirmedInv, DocumentsInv', UNCHANGED <<sweep, overtaken>>,
           \A v \in Checker, c \in Doc : Verifying(v, c)' => Verifying(v, c),
           NEW d \in Doc, \A c \in Doc \ {d} : document'[c] = document[c],
           \/ document'[d] = document[d]
           \/ document[d].status = "absent" /\ document'[d].status # "verified"
           \/ /\ document'[d].status = "verified" => document'[d].raw = {} \/ d \in overtaken
              /\ document'[d].status = document[d].status
           \/ document'[d].raw = {} /\ \E v \in Checker : Verifying(v, d)
    PROVE  ConfirmedInv'
<1>1. VerifiedIsConfirmed'
  BY DEF ConfirmedInv, VerifiedIsConfirmed
<1>2. ASSUME NEW n \in Sweep, NEW c \in Doc \ overtaken PROVE Unmet(n, c)'
  <2>1. Unmet(n, c)
    BY DEF ConfirmedInv
  <2>2. sweep' = sweep /\ \A v \in Checker : Verifying(v, c)' => Verifying(v, c)
    OBVIOUS
  <2>3. CASE c = d
    BY <2>1, <2>2, <2>3 DEF Unmet
  <2>4. CASE c # d
    BY <2>1, <2>2, <2>4 DEF Unmet
  <2> QED BY <2>3, <2>4
<1> QED BY <1>1, <1>2 DEF ConfirmedInv

\* Steps that touch neither documents nor runs.
LEMMA ConfirmedKept ==
    ASSUME ConfirmedInv, DocumentsInv', UNCHANGED <<document, sweep, overtaken>>,
           \A v \in Checker, c \in Doc :
             Verifying(v, c)' => Verifying(v, c) \/ document[c].status = "in_review"
    PROVE  ConfirmedInv'
<1>1. ASSUME NEW n \in Sweep, NEW c \in Doc \ overtaken PROVE Unmet(n, c)'
  <2>1. Unmet(n, c)
    BY DEF ConfirmedInv
  <2> QED BY <2>1 DEF Unmet
<1> QED BY <1>1 DEF ConfirmedInv, VerifiedIsConfirmed

LEMMA ConfirmedNext ==
    ASSUME ConfirmedInv, [DocumentsNext]_documentVars
    PROVE  ConfirmedInv'
<1>t. /\ reading \in [Checker -> Reading] /\ document \in [Doc -> Document]
      /\ sweep \in [Sweep -> [pc : {"new", "parsed", "over"}, docs : SUBSET Doc]]
      /\ upload \in [Uploader -> Upload]
  BY DEF ConfirmedInv, DocumentsInv, DocumentsTypeOK
<1>i. DocumentsInv'
  BY DocumentsInvNext DEF ConfirmedInv
<1>k. UNCHANGED reading => \A v \in Checker, c \in Doc : Verifying(v, c)' => Verifying(v, c)
  BY DEF Verifying
<1>1. CASE UNCHANGED <<document, sweep, overtaken, reading>>
  BY <1>1, <1>i, <1>k, ConfirmedKept
<1>2. ASSUME NEW u \in Uploader, ScanUpload(u) PROVE ConfirmedInv'
  <2>1. UNCHANGED <<sweep, overtaken, reading>>
    BY <1>2 DEF ScanUpload
  <2>2. PICK d \in Doc :
          /\ document[d] = NoDocument
          /\ \/ UNCHANGED document
             \/ document' = [document EXCEPT ![d] =
                      [status |-> "rejected", file |-> upload[u].file, raw |-> {}]]
    BY <1>2 DEF ScanUpload
  <2>3. CASE UNCHANGED document
    BY <2>1, <2>3, <1>1
  <2>4. CASE document' = [document EXCEPT ![d] =
                      [status |-> "rejected", file |-> upload[u].file, raw |-> {}]]
    <3>1. document[d].status = "absent" /\ document'[d].status = "rejected"
      BY <1>t, <2>2, <2>4, Constants
    <3>2. \A c \in Doc \ {d} : document'[c] = document[c]
      BY <1>t, <2>4
    <3> QED BY <1>i, <1>k, <2>1, <3>1, <3>2, ConfirmedStep
  <2> QED BY <2>2, <2>3, <2>4
<1>3. ASSUME NEW u \in Uploader, CommitUpload(u) \/ LoseCommit(u) PROVE ConfirmedInv'
  <2>1. UNCHANGED <<sweep, overtaken, reading>> /\ Ingested(u) /\ upload[u].pc = "commit"
    BY <1>3 DEF CommitUpload, LoseCommit
  <2>2. upload[u].doc \in Doc /\ document[upload[u].doc].status = "absent"
    BY <2>1 DEF ConfirmedInv, DocumentsInv, UploadOK, Underway
  <2>3. PICK raw \in {{}, {"upload"}} :
          document' = [document EXCEPT ![upload[u].doc] =
                       [status |-> "in_review", file |-> upload[u].file, raw |-> raw]]
    BY <2>1 DEF Ingested
  <2>4. document'[upload[u].doc].status = "in_review"
    BY <1>t, <2>2, <2>3
  <2>5. \A c \in Doc \ {upload[u].doc} : document'[c] = document[c]
    BY <1>t, <2>3
  <2> QED BY <1>i, <1>k, <2>1, <2>2, <2>4, <2>5, ConfirmedStep
<1>4. ASSUME NEW v \in Checker, NEW confirmed \in SUBSET {"upload", "run"}, WriteReview(v, confirmed)
      PROVE  ConfirmedInv'
  <2> DEFINE d == reading[v].doc
             left == document[d].raw \ confirmed
  <2>1. /\ UNCHANGED <<sweep, overtaken>> /\ d \in Doc /\ reading[v].pc = "write"
        /\ document' = [document EXCEPT ![d].raw = left,
                           ![d].status = IF reading[v].verify THEN "verified" ELSE @]
        /\ reading[v].verify => left = {}
        /\ reading' = [reading EXCEPT ![v] = NoReading]
    BY <1>4, <1>t DEF WriteReview, ConfirmedInv, DocumentsInv, PersonOK
  <2>2. \A w \in Checker, c \in Doc : Verifying(w, c)' => Verifying(w, c)
    <3> SUFFICES ASSUME NEW w \in Checker, NEW c \in Doc, Verifying(w, c)'
                 PROVE  Verifying(w, c)
      OBVIOUS
    <3>1. NoReading.pc = "idle"
      BY DEF NoReading
    <3>2. w # v
      BY <1>t, <2>1, <3>1 DEF Verifying
    <3>3. reading'[w] = reading[w]
      BY <1>t, <2>1, <3>2
    <3> QED BY <3>3 DEF Verifying
  <2>3. document[d] \in Document
    BY <1>t, <2>1
  <2>4. \A c \in Doc \ {d} : document'[c] = document[c]
    BY <1>t, <2>1
  <2>5. document'[d].raw = left
    BY <1>t, <2>1, <2>3 DEF Document
  <2>6. document'[d].status = IF reading[v].verify THEN "verified" ELSE document[d].status
    BY <1>t, <2>1, <2>3 DEF Document
  <2>7. document[d].status = "verified" => document[d].raw = {} \/ d \in overtaken
    BY <2>1 DEF ConfirmedInv, VerifiedIsConfirmed
  <2>8. CASE reading[v].verify
    <3>1. document'[d].raw = {}
      BY <2>1, <2>5, <2>8
    <3>2. Verifying(v, d)
      BY <2>1, <2>8 DEF Verifying
    <3> HIDE DEF d, left
    <3> QED BY <1>i, <2>1, <2>2, <2>4, <3>1, <3>2, ConfirmedStep
  <2>9. CASE ~reading[v].verify
    <3>1. document'[d].status = document[d].status
      BY <2>6, <2>9
    <3>2. document'[d].status = "verified" => document'[d].raw = {} \/ d \in overtaken
      BY <2>5, <2>7, <3>1
    <3> HIDE DEF d, left
    <3> QED BY <1>i, <2>1, <2>2, <2>4, <3>1, <3>2, ConfirmedStep
  <2> QED BY <2>8, <2>9
<1>5. ASSUME NEW n \in Sweep, SweepParse(n) PROVE ConfirmedInv'
  <2> DEFINE held == {d \in Doc : Live(d) /\ bytes[d] # NoFile /\ storage = "db"}
  <2>1. /\ document' = [d \in Doc |-> IF d \in held THEN [document[d] EXCEPT !.status = "classified"]
                                     ELSE document[d]]
        /\ sweep' = [sweep EXCEPT ![n] = [pc |-> "parsed", docs |-> held]]
        /\ overtaken' = overtaken \cup {d \in held : \E v \in Checker : Verifying(v, d)}
        /\ UNCHANGED reading
    BY <1>5 DEF SweepParse
  <2>2. \A c \in held : document'[c].status = "classified"
    <3> TAKE c \in held
    <3>1. document[c] \in Document /\ document'[c] = [document[c] EXCEPT !.status = "classified"]
      BY <1>t, <2>1
    <3> QED BY <3>1 DEF Document
  <2>3. held \subseteq Doc /\ \A c \in Doc \ held : document'[c] = document[c]
    BY <2>1
  <2> HIDE DEF held
  <2>4. overtaken \subseteq overtaken'
    BY <2>1
  <2>5. VerifiedIsConfirmed'
    BY <2>2, <2>3, <2>4 DEF ConfirmedInv, VerifiedIsConfirmed
  <2>6. ASSUME NEW m \in Sweep, NEW c \in Doc \ overtaken',
               sweep'[m].pc = "parsed", c \in sweep'[m].docs
        PROVE  document'[c].status = "classified" /\ \A v \in Checker : ~Verifying(v, c)'
    <3>1. CASE c \in held
      <4>1. \A v \in Checker : ~Verifying(v, c)
        BY <2>1, <2>6, <3>1
      <4> QED BY <2>1, <2>2, <3>1, <4>1 DEF Verifying
    <3>2. CASE c \notin held
      <4>1. m # n
        BY <1>t, <2>1, <2>6, <3>2
      <4>2. sweep[m].pc = "parsed" /\ c \in sweep[m].docs
        BY <1>t, <2>1, <2>6, <4>1
      <4>3. Unmet(m, c) /\ document'[c] = document[c]
        BY <2>3, <2>4, <2>6, <3>2 DEF ConfirmedInv
      <4> QED BY <2>1, <4>2, <4>3 DEF Unmet, Verifying
    <3> QED BY <3>1, <3>2
  <2> QED BY <1>i, <2>5, <2>6 DEF ConfirmedInv, Unmet
<1>6. ASSUME NEW n \in Sweep, SweepExtract(n) PROVE ConfirmedInv'
  <2>1. /\ sweep[n].pc = "parsed" /\ sweep' = [sweep EXCEPT ![n].pc = "over"]
        /\ UNCHANGED <<overtaken, reading>>
    BY <1>6 DEF SweepExtract
  <2>2. PICK found \in SUBSET sweep[n].docs :
            document' = [d \in Doc |-> [document[d] EXCEPT
               !.raw = (document[d].raw \ {"run"}) \cup IF d \in found THEN {"run"} ELSE {}]]
    BY <1>6 DEF SweepExtract
  <2>3. ASSUME NEW c \in Doc
        PROVE  /\ document'[c].status = document[c].status
               /\ document'[c].raw = (document[c].raw \ {"run"}) \cup IF c \in found THEN {"run"} ELSE {}
    <3>1. document[c] \in Document
      BY <1>t
    <3> QED BY <2>2, <3>1 DEF Document
  <2>4. \A c \in Doc \ overtaken : c \in found => document[c].status = "classified"
    <3> TAKE c \in Doc \ overtaken
    <3>1. Unmet(n, c)
      BY DEF ConfirmedInv
    <3> QED BY <2>1, <2>2, <3>1 DEF Unmet
  <2>5. VerifiedIsConfirmed'
    <3> SUFFICES ASSUME NEW c \in Doc \ overtaken, document'[c].status = "verified"
                 PROVE  document'[c].raw = {}
      BY <2>1 DEF VerifiedIsConfirmed
    <3>1. c \notin found /\ document[c].raw = {}
      BY <2>3, <2>4 DEF ConfirmedInv, VerifiedIsConfirmed
    <3> QED BY <2>3, <3>1
  <2>6. \A m \in Sweep : sweep'[m].pc = "parsed" =>
          sweep[m].pc = "parsed" /\ sweep'[m].docs = sweep[m].docs
    BY <1>t, <2>1
  <2>7. ASSUME NEW m \in Sweep, NEW c \in Doc \ overtaken PROVE Unmet(m, c)'
    <3>1. Unmet(m, c)
      BY DEF ConfirmedInv
    <3> QED BY <1>k, <2>1, <2>3, <2>6, <3>1 DEF Unmet
  <2> QED BY <1>i, <2>1, <2>5, <2>7 DEF ConfirmedInv
<1>7. ASSUME NEW n \in Sweep, FailSweep(n) PROVE ConfirmedInv'
  <2>1. /\ UNCHANGED <<document, overtaken, reading>>
        /\ sweep' = [sweep EXCEPT ![n].pc = "over"]
    BY <1>7 DEF FailSweep
  <2>2. \A m \in Sweep : sweep'[m].pc = "parsed" =>
          sweep[m].pc = "parsed" /\ sweep'[m].docs = sweep[m].docs
    BY <1>t, <2>1
  <2>3. ASSUME NEW m \in Sweep, NEW c \in Doc \ overtaken PROVE Unmet(m, c)'
    <3>1. Unmet(m, c)
      BY DEF ConfirmedInv
    <3> QED BY <1>k, <2>1, <2>2, <3>1 DEF Unmet
  <2> QED BY <1>i, <2>1, <2>3 DEF ConfirmedInv, VerifiedIsConfirmed
<1>8. ASSUME NEW v \in Checker, NEW d \in Doc, NEW verify \in BOOLEAN, ReadDocument(v, d, verify)
      PROVE  ConfirmedInv'
  <2>1. /\ UNCHANGED <<document, sweep, overtaken>>
        /\ reading' = [reading EXCEPT ![v] = [pc |-> "write", doc |-> d, verify |-> verify]]
        /\ verify => document[d].status = "in_review"
    BY <1>8 DEF ReadDocument
  <2>2. ASSUME NEW w \in Checker, NEW c \in Doc, Verifying(w, c)'
        PROVE  Verifying(w, c) \/ document[c].status = "in_review"
    <3>1. CASE w = v
      BY <1>t, <2>1, <2>2, <3>1 DEF Verifying
    <3>2. CASE w # v
      BY <1>t, <2>1, <2>2, <3>2 DEF Verifying
    <3> QED BY <3>1, <3>2
  <2> QED BY <1>i, <2>1, <2>2, ConfirmedKept
<1>9. ASSUME NEW v \in Checker, FailWriteReview(v) PROVE ConfirmedInv'
  <2>1. /\ UNCHANGED <<document, sweep, overtaken>>
        /\ reading' = [reading EXCEPT ![v] = NoReading]
    BY <1>9 DEF FailWriteReview
  <2>2. ASSUME NEW w \in Checker, NEW c \in Doc, Verifying(w, c)' PROVE Verifying(w, c)
    <3>1. NoReading.pc = "idle"
      BY DEF NoReading
    <3>2. reading'[w] = reading[w]
      BY <1>t, <2>1, <2>2, <3>1 DEF Verifying
    <3> QED BY <2>2, <3>2 DEF Verifying
  <2> QED BY <1>i, <2>1, <2>2, ConfirmedKept
<1>10. \/ UNCHANGED <<document, sweep, overtaken, reading>>
       \/ \E u \in Uploader : ScanUpload(u) \/ CommitUpload(u) \/ LoseCommit(u)
       \/ \E v \in Checker : \E confirmed \in SUBSET {"upload", "run"} : WriteReview(v, confirmed)
       \/ \E n \in Sweep : SweepParse(n) \/ SweepExtract(n) \/ FailSweep(n)
       \/ \E v \in Checker : \E d \in Doc : \E verify \in BOOLEAN : ReadDocument(v, d, verify)
       \/ \E v \in Checker : FailWriteReview(v)
  BY DEF DocumentsNext, documentVars, BeginUpload, StoreUpload, FailUpload, LinkUpload,
     SetEvidence
<1> QED BY <1>1, <1>2, <1>3, <1>4, <1>5, <1>6, <1>7, <1>8, <1>9, <1>10

\* A verified document holds only facts a person confirmed, however uploads, reviews and
\* runs overlap, unless a run parsed it between its review's read and write
\* (server/documents/pipeline.ts, submitDocumentReview).
THEOREM Confirmed == DocumentsSpec => []VerifiedIsConfirmed
<1>1. ConfirmedInv /\ [DocumentsNext]_documentVars => ConfirmedInv'
  BY ConfirmedNext
<1>2. ConfirmedInv => VerifiedIsConfirmed
  BY DEF ConfirmedInv
<1> QED BY <1>1, <1>2, ConfirmedInit, PTL DEF DocumentsSpec

-----------------------------------------------------------------------------
(* IntakeDrafts.                                                              *)
(* What the table holds for a question when the save under way has ended.    *)
Planned(q) ==
  IF q \in save.clear THEN None
  ELSE IF save.step = "upsert" /\ save.upsert[q] # None THEN save.upsert[q]
  ELSE stored[q]

(* A copy that is fresh, or that an open page shows with no query under way,  *)
(* is what the table holds.                                                   *)
CopyFollows ==
  copy.age = "fresh" \/ (page # "closed" /\ Alone /\ copy.age # "gone")
    => copy.rows = stored

(* What holds on the client's page while no request fails and no opening or   *)
(* save meets a fetch.                                                        *)
Quiet ==
  /\ Alone \/ copy.age # "fresh"
  /\ save # IdleSave => Alone
  /\ save = IdleSave => CopyFollows
  /\ save = IdleSave /\ fetch.step = "read" => fetch.rows = stored
  /\ \A q \in unsaved : drafts[q] # Untouched
  /\ page = "seeded" => \A q \in Prompt \ unsaved : Shown(q) = Planned(q)

(* A page with drafts keeps the copy they came from.                          *)
SeededFromCopy == page = "seeded" => copy.age # "gone"

QuietWhenApart == viewer = "owner" /\ apart => Quiet

IntakeInv == IntakeTypeOK /\ SeededFromCopy /\ QuietWhenApart

-----------------------------------------------------------------------------
LEMMA IntakeTypeNext == IntakeTypeOK /\ [IntakeNext]_intakeVars => IntakeTypeOK'
<1> SUFFICES ASSUME IntakeTypeOK, [IntakeNext]_intakeVars PROVE IntakeTypeOK'
  OBVIOUS
<1> USE DEF IntakeTypeOK
<1>a. Absent \in [Prompt -> Kept]
  BY DEF Absent, Kept
<1>b. NoFetch \in [step : {"none", "asked", "read"}, rows : [Prompt -> Kept]]
  BY <1>a DEF NoFetch
<1>c. Asked \in [step : {"none", "asked", "read"}, rows : [Prompt -> Kept]]
  BY <1>a DEF Asked
<1>d. NoCopy \in [age : {"fresh", "stale", "gone"}, rows : [Prompt -> Kept]]
  BY <1>a DEF NoCopy
<1>e. IdleSave \in [step : {"idle", "upsert", "delete"}, upsert : [Prompt -> Kept],
                    clear : SUBSET Prompt]
  BY <1>a DEF IdleSave
<1>f. NoDrafts \in [Prompt -> Kept \cup {Untouched}]
  BY DEF NoDrafts
<1>g. MarkCopy => /\ copy' \in [age : {"fresh", "stale", "gone"}, rows : [Prompt -> Kept]]
                  /\ fetch' \in [step : {"none", "asked", "read"}, rows : [Prompt -> Kept]]
  BY <1>c DEF MarkCopy
<1>1. CASE OpenPage
  BY <1>1, <1>c DEF OpenPage
<1>2. CASE SeedDrafts
  BY <1>2 DEF SeedDrafts
<1>3. CASE \E q \in Prompt, v \in Kept : TypeAnswer(q, v)
  BY <1>3 DEF TypeAnswer
<1>4. CASE LeavePage
  BY <1>4, <1>f DEF LeavePage
<1>5. CASE ReadRows
  BY <1>5 DEF ReadRows
<1>6. CASE RowsArrive
  <2>1. copy' \in [age : {"fresh", "stale", "gone"}, rows : [Prompt -> Kept]]
    BY <1>6 DEF RowsArrive
  <2> QED BY <1>6, <2>1, <1>b DEF RowsArrive
<1>13. CASE FetchFails
  BY <1>13, <1>b DEF FetchFails
<1>7. CASE CopyAges
  BY <1>7, <1>d DEF CopyAges
<1>8. CASE StartSave
  <2>1. Upserts \in [Prompt -> Kept] /\ Clears \subseteq Prompt
    BY DEF Upserts, Clears, Kept
  <2>2. UNCHANGED <<viewer, stored, page, drafts>> /\ unsaved' = {} /\ apart' \in BOOLEAN
    BY <1>8 DEF StartSave
  <2>3. CASE SaveEnds
    BY <2>2, <2>3, <1>e, <1>g DEF SaveEnds
  <2>4. CASE /\ save' = [step |-> IF Upserts # Absent THEN "upsert" ELSE "delete",
                         upsert |-> Upserts, clear |-> Clears]
             /\ UNCHANGED <<copy, fetch>>
    BY <2>1, <2>2, <2>4
  <2> QED BY <1>8, <2>3, <2>4 DEF StartSave
<1>9. CASE UpsertRows
  <2>1. UNCHANGED <<viewer, page, drafts, unsaved, apart>> /\ stored' \in [Prompt -> Kept]
    BY <1>9 DEF UpsertRows
  <2>2. CASE SaveEnds
    BY <2>1, <2>2, <1>e, <1>g DEF SaveEnds
  <2>3. CASE save' = [save EXCEPT !.step = "delete"] /\ UNCHANGED <<copy, fetch>>
    BY <2>1, <2>3
  <2> QED BY <1>9, <2>2, <2>3 DEF UpsertRows
<1>10. CASE DeleteRows
  BY <1>10, <1>e, <1>g DEF DeleteRows, SaveEnds, Kept
<1>11. CASE SaveFails
  BY <1>11, <1>e DEF SaveFails
<1>12. CASE UNCHANGED intakeVars
  BY <1>12 DEF intakeVars
<1> QED BY <1>1, <1>2, <1>3, <1>4, <1>5, <1>6, <1>7, <1>8, <1>9, <1>10, <1>11, <1>12, <1>13
        DEF IntakeNext, PageStep, QueryStep, SaveStep

(* The end of a save on the client's page: an open page asks again.           *)
LEMMA SaveEndsQuiet ==
  ASSUME IntakeTypeOK, viewer = "owner", Alone, Quiet, SaveEnds,
         UNCHANGED <<page, drafts, unsaved>>,
         \A q \in Prompt : Planned(q)' = Planned(q)
  PROVE  Quiet'
<1>1. save' = IdleSave /\ copy'.age # "fresh"
  BY DEF SaveEnds, MarkCopy, IntakeTypeOK
<1>2. IF page = "closed" THEN fetch' = NoFetch ELSE fetch' = Asked
  BY DEF SaveEnds, MarkCopy, Alone
<1>3. Asked # NoFetch /\ Asked.step = "asked" /\ NoFetch.step = "none"
  BY DEF Asked, NoFetch
<1>4. page' = "seeded" => \A q \in Prompt \ unsaved' : Shown(q)' = Planned(q)'
  BY DEF Quiet, Shown
<1> QED BY <1>1, <1>2, <1>3, <1>4 DEF Quiet, CopyFollows, Alone

(* The client's page, from a step that keeps the history quiet.               *)
LEMMA QuietNext ==
  ASSUME IntakeInv, IntakeNext, viewer' = "owner", apart'
  PROVE  Quiet'
<1>t. IntakeTypeOK /\ IntakeTypeOK' /\ SeededFromCopy
  BY IntakeTypeNext DEF IntakeInv
<1>v. viewer = "owner"
  BY DEF IntakeNext, PageStep, QueryStep, SaveStep, OpenPage, SeedDrafts, TypeAnswer, LeavePage,
         ReadRows, RowsArrive, FetchFails, CopyAges, StartSave, UpsertRows, DeleteRows, SaveFails
<1>p. apart
  BY DEF IntakeNext, PageStep, QueryStep, SaveStep, OpenPage, SeedDrafts, TypeAnswer, LeavePage,
         ReadRows, RowsArrive, FetchFails, CopyAges, StartSave, UpsertRows, DeleteRows, SaveFails
<1>q. Quiet
  BY <1>v, <1>p DEF IntakeInv, QuietWhenApart
<1>n. NoFetch.step = "none" /\ Asked.step = "asked" /\ Asked # NoFetch
  BY DEF NoFetch, Asked
<1>i. IdleSave.step = "idle" /\ IdleSave.clear = {}
  BY DEF IdleSave
<1>1. CASE OpenPage
  <2>1. save = IdleSave /\ UNCHANGED <<stored, copy, drafts, save, unsaved>> /\ page' = "open"
    BY <1>1 DEF OpenPage
  <2>2. fetch' = IF copy.age # "fresh" /\ Alone THEN Asked ELSE fetch
    BY <1>1 DEF OpenPage
  <2> QED BY <2>1, <2>2, <1>q, <1>n DEF Quiet, CopyFollows, Alone
<1>2. CASE SeedDrafts
  <2>1. /\ Alone /\ save = IdleSave /\ page = "open" /\ copy.age # "gone"
        /\ UNCHANGED <<stored, copy, fetch, save>> /\ page' = "seeded" /\ unsaved' = {}
    BY <1>2 DEF SeedDrafts
  <2>2. copy.rows = stored
    BY <2>1, <1>q DEF Quiet, CopyFollows
  <2>3. ASSUME NEW q \in Prompt PROVE Shown(q)' = stored[q]
    <3>1. drafts'[q] = IF stored[q] = None THEN Untouched ELSE stored[q]
      BY <1>2, <2>2 DEF SeedDrafts
    <3>2. stored[q] # Untouched
      BY <1>t, IntakeAssumption DEF IntakeTypeOK, Kept, None, Untouched
    <3> QED BY <3>1, <3>2 DEF Shown
  <2>4. ASSUME NEW q \in Prompt PROVE Planned(q)' = stored[q]
    BY <2>1, <1>i DEF Planned
  <2> QED BY <2>1, <2>2, <2>3, <2>4, <1>q DEF Quiet, CopyFollows, Alone
<1>3. CASE \E q \in Prompt, v \in Kept : TypeAnswer(q, v)
  <2> PICK p \in Prompt, v \in Kept : TypeAnswer(p, v)
    BY <1>3
  <2>1. /\ UNCHANGED <<stored, copy, fetch, page, save>> /\ unsaved' = unsaved \cup {p}
        /\ drafts' = [drafts EXCEPT ![p] = v]
    BY DEF TypeAnswer
  <2>2. v # Untouched
    BY IntakeAssumption DEF Kept, None, Untouched
  <2>3. \A q \in unsaved' : drafts'[q] # Untouched
    BY <2>1, <2>2, <1>q, <1>t DEF Quiet, IntakeTypeOK
  <2>4. page = "seeded" => \A q \in Prompt \ unsaved' : Shown(q)' = Planned(q)'
    BY <2>1, <1>q, <1>t DEF Quiet, Shown, Planned, IntakeTypeOK
  <2> QED BY <2>1, <2>3, <2>4, <1>q DEF Quiet, CopyFollows, Alone
<1>4. CASE LeavePage
  BY <1>4, <1>q DEF LeavePage, Quiet, CopyFollows, Alone
<1>5. CASE ReadRows
  BY <1>5, <1>q, <1>n DEF ReadRows, Quiet, CopyFollows, Alone, Shown, Planned
<1>6. CASE RowsArrive
  <2>1. ~Alone /\ save = IdleSave
    BY <1>6, <1>q, <1>n DEF RowsArrive, Quiet, Alone
  <2>2. copy'.rows = stored /\ Alone' /\ fetch'.step = "none"
    BY <1>6, <2>1, <1>q, <1>n DEF RowsArrive, Quiet, Alone
  <2> QED BY <1>6, <2>1, <2>2, <1>q DEF RowsArrive, Quiet, CopyFollows, Shown, Planned
<1>7. CASE CopyAges
  <2>1. Alone /\ UNCHANGED <<stored, fetch, page, drafts, save, unsaved>>
    BY <1>7 DEF CopyAges
  <2>2. \/ copy.age = "fresh" /\ copy'.rows = copy.rows
        \/ page = "closed" /\ copy'.age = "gone"
    BY <1>7, <1>t DEF CopyAges, NoCopy, IntakeTypeOK
  <2> QED BY <2>1, <2>2, <1>q DEF Quiet, CopyFollows, Alone, Shown, Planned
<1>8. CASE FetchFails \/ SaveFails
  BY <1>8 DEF FetchFails, SaveFails
<1>9. CASE StartSave
  <2>1. /\ page = "seeded" /\ save = IdleSave /\ Alone /\ unsaved' = {}
        /\ UNCHANGED <<stored, page, drafts>> /\ copy.rows = stored /\ copy.age # "gone"
    BY <1>9, <1>q, <1>t DEF StartSave, Quiet, CopyFollows, SeededFromCopy
  <2>2. ASSUME NEW q \in Prompt, drafts[q] = Untouched PROVE stored[q] = None
    <3>1. Shown(q) = None /\ Planned(q) = stored[q]
      BY <2>1, <2>2, <1>i DEF Shown, Planned
    <3> QED BY <3>1, <2>1, <2>2, <1>q DEF Quiet
  <2>3. ASSUME NEW q \in Prompt
        PROVE  Shown(q) = IF q \in Clears THEN None
                          ELSE IF Upserts[q] # None THEN Upserts[q] ELSE stored[q]
    <3>1. CASE drafts[q] = Untouched
      <4>1. Upserts[q] = None /\ q \notin Clears
        BY <3>1, IntakeAssumption DEF Upserts, Clears, None, Untouched
      <4> QED BY <3>1, <4>1, <2>2 DEF Shown
    <3>2. CASE drafts[q] = None
      <4>1. Upserts[q] = None /\ (q \in Clears <=> stored[q] # None)
        BY <3>2, <2>1, IntakeAssumption DEF Upserts, Clears
      <4> QED BY <3>2, <4>1 DEF Shown, None, Untouched
    <3>3. CASE drafts[q] \in Value
      <4>1. Upserts[q] = drafts[q] /\ drafts[q] # None /\ drafts[q] # Untouched /\ q \notin Clears
        BY <3>3, IntakeAssumption DEF Upserts, Clears
      <4> QED BY <4>1 DEF Shown
    <3> QED BY <3>1, <3>2, <3>3, <1>t DEF IntakeTypeOK, Kept
  <2>4. CASE Upserts = Absent /\ Clears = {}
    <3>1. save' = IdleSave /\ fetch' = Asked /\ copy'.age # "fresh"
      BY <1>9, <2>4, <2>1, <1>v, <1>t DEF StartSave, SaveEnds, MarkCopy, IntakeTypeOK
    <3>2. \A q \in Prompt : Shown(q)' = Planned(q)'
      BY <3>1, <2>1, <2>3, <2>4, <1>i DEF Absent, Shown, Planned
    <3> QED BY <3>1, <3>2, <2>1, <1>n DEF Quiet, CopyFollows, Alone
  <2>5. CASE ~(Upserts = Absent /\ Clears = {})
    <3>1. /\ save' = [step |-> IF Upserts # Absent THEN "upsert" ELSE "delete",
                      upsert |-> Upserts, clear |-> Clears]
          /\ UNCHANGED <<copy, fetch>>
      BY <1>9, <2>5 DEF StartSave
    <3>2. save'.step = "upsert" \/ \A q \in Prompt : Upserts[q] = None
      BY <3>1 DEF Absent
    <3>3. \A q \in Prompt : Shown(q)' = Planned(q)'
      BY <3>1, <3>2, <2>1, <2>3 DEF Shown, Planned
    <3>4. save' # IdleSave
      BY <3>1, <1>i
    <3> QED BY <3>1, <3>3, <3>4, <2>1, <1>q DEF Quiet, Alone
  <2> QED BY <2>4, <2>5
<1>10. CASE UpsertRows
  <2>1. /\ save # IdleSave /\ Alone /\ UNCHANGED <<page, drafts, unsaved>>
        /\ save.step = "upsert"
    BY <1>10, <1>q, <1>i DEF UpsertRows, Quiet
  <2>2. ASSUME NEW q \in Prompt
        PROVE  stored'[q] = IF save.upsert[q] = None THEN stored[q] ELSE save.upsert[q]
    BY <1>10 DEF UpsertRows
  <2>3. CASE save.clear = {}
    <3>1. \A q \in Prompt : Planned(q)' = Planned(q)
      BY <1>10, <2>1, <2>2, <2>3, <1>i DEF UpsertRows, SaveEnds, Planned
    <3> QED BY <3>1, <1>10, <2>1, <2>3, <1>q, <1>v, <1>t, <1>n, SaveEndsQuiet
            DEF UpsertRows
  <2>4. CASE save.clear # {}
    <3>1. save' = [save EXCEPT !.step = "delete"] /\ UNCHANGED <<copy, fetch>>
      BY <1>10, <2>4 DEF UpsertRows
    <3>2. save'.step = "delete" /\ save'.clear = save.clear
      BY <3>1, <1>t DEF IntakeTypeOK
    <3>3. \A q \in Prompt : Planned(q)' = Planned(q)
      BY <3>2, <2>1, <2>2 DEF Planned
    <3> QED BY <3>1, <3>2, <3>3, <2>1, <1>q, <1>i DEF Quiet, Alone, Shown
  <2> QED BY <2>3, <2>4
<1>11. CASE DeleteRows
  <2>1. /\ save # IdleSave /\ Alone /\ UNCHANGED <<page, drafts, unsaved>>
        /\ save.step = "delete"
    BY <1>11, <1>q, <1>i DEF DeleteRows, Quiet
  <2>2. \A q \in Prompt : Planned(q)' = Planned(q)
    BY <1>11, <2>1, <1>i DEF DeleteRows, SaveEnds, Planned
  <2> QED BY <2>2, <1>11, <2>1, <1>q, <1>v, <1>t, <1>n, SaveEndsQuiet DEF DeleteRows
<1> QED BY <1>1, <1>2, <1>3, <1>4, <1>5, <1>6, <1>7, <1>8, <1>9, <1>10, <1>11
        DEF IntakeNext, PageStep, QueryStep, SaveStep

LEMMA IntakeInvNext == IntakeInv /\ [IntakeNext]_intakeVars => IntakeInv'
<1> SUFFICES ASSUME IntakeInv, [IntakeNext]_intakeVars PROVE IntakeInv'
  OBVIOUS
<1>1. IntakeTypeOK'
  BY IntakeTypeNext DEF IntakeInv
<1>2. SeededFromCopy'
  <2>i. IntakeTypeOK /\ SeededFromCopy
    BY DEF IntakeInv
  <2>1. CASE StartSave \/ UpsertRows \/ DeleteRows \/ SaveFails
    <3>1. UNCHANGED page
      BY <2>1 DEF StartSave, UpsertRows, DeleteRows, SaveFails
    <3>2. UNCHANGED copy \/ MarkCopy
      BY <2>1 DEF StartSave, UpsertRows, DeleteRows, SaveFails, SaveEnds
    <3>3. copy.age # "gone" => copy'.age # "gone"
      BY <3>2, <2>i DEF MarkCopy, IntakeTypeOK
    <3> QED BY <3>1, <3>3, <2>i DEF SeededFromCopy
  <2>2. CASE OpenPage \/ LeavePage
    BY <2>2 DEF OpenPage, LeavePage, SeededFromCopy
  <2>3. CASE SeedDrafts
    BY <2>3 DEF SeedDrafts, SeededFromCopy
  <2>4. CASE RowsArrive
    BY <2>4 DEF RowsArrive, SeededFromCopy
  <2>5. CASE CopyAges
    <3>1. copy'.age # "gone" \/ page = "closed"
      BY <2>5, <2>i DEF CopyAges, IntakeTypeOK
    <3> QED BY <3>1, <2>5, <2>i DEF CopyAges, SeededFromCopy
  <2>6. CASE (\E q \in Prompt, v \in Kept : TypeAnswer(q, v)) \/ ReadRows \/ FetchFails
    BY <2>6, <2>i DEF TypeAnswer, ReadRows, FetchFails, SeededFromCopy
  <2>7. CASE UNCHANGED intakeVars
    BY <2>7, <2>i DEF intakeVars, SeededFromCopy
  <2> QED BY <2>1, <2>2, <2>3, <2>4, <2>5, <2>6, <2>7
          DEF IntakeNext, PageStep, QueryStep, SaveStep
<1>3. QuietWhenApart'
  <2>1. CASE IntakeNext
    BY <2>1, QuietNext DEF QuietWhenApart
  <2>2. CASE UNCHANGED intakeVars
    BY <2>2 DEF IntakeInv, QuietWhenApart, intakeVars, Quiet, CopyFollows, Alone, Shown, Planned
  <2> QED BY <2>1, <2>2
<1> QED BY <1>1, <1>2, <1>3 DEF IntakeInv

LEMMA IntakeInvInit == IntakeInit => IntakeInv
<1> SUFFICES ASSUME IntakeInit PROVE IntakeInv
  OBVIOUS
<1>1. Absent \in [Prompt -> Kept]
  BY DEF Absent, Kept
<1>2. /\ NoCopy \in [age : {"fresh", "stale", "gone"}, rows : [Prompt -> Kept]]
      /\ NoFetch \in [step : {"none", "asked", "read"}, rows : [Prompt -> Kept]]
      /\ IdleSave \in [step : {"idle", "upsert", "delete"}, upsert : [Prompt -> Kept],
                       clear : SUBSET Prompt]
  BY <1>1 DEF NoCopy, NoFetch, IdleSave
<1>3. NoDrafts \in [Prompt -> Kept \cup {Untouched}]
  BY DEF NoDrafts
<1>4. IntakeTypeOK
  BY <1>1, <1>2, <1>3 DEF IntakeInit, IntakeTypeOK
<1>5. Quiet /\ SeededFromCopy
  BY DEF IntakeInit, Quiet, CopyFollows, SeededFromCopy, Alone, NoCopy, NoFetch
<1> QED BY <1>4, <1>5 DEF IntakeInv, QuietWhenApart

(* What the client's page shows and has not changed since its last save is    *)
(* stored, through visits, saves and deletions in any order (OwnerIntakePage).  *)
THEOREM OwnerSees == IntakeSpec => []OwnerSeesSaved
<1>1. IntakeInv => OwnerSeesSaved
  <2> SUFFICES ASSUME IntakeInv, viewer = "owner", apart, page = "seeded", save = IdleSave,
                      NEW q \in Prompt \ unsaved
               PROVE  Shown(q) = stored[q]
    BY DEF OwnerSeesSaved, PageShowsRows
  <2>1. Shown(q) = Planned(q)
    BY DEF IntakeInv, QuietWhenApart, Quiet
  <2> QED BY <2>1 DEF Planned, IdleSave
<1> QED BY <1>1, IntakeInvInit, IntakeInvNext, PTL DEF IntakeSpec

(* The table, the copy and the page keep their kinds of value.                *)
THEOREM IntakeTypes == IntakeSpec => []IntakeTypeOK
<1>1. IntakeInv => IntakeTypeOK
  BY DEF IntakeInv
<1> QED BY <1>1, IntakeInvInit, IntakeInvNext, PTL DEF IntakeSpec

-----------------------------------------------------------------------------
(* Deliverables.                                                              *)
Generating == {"draft", "redraft", "cite", "recite", "compose", "store"}
Updating == {"save", "finalize", "flush"}

(* A copy is no document, or the one with a text that has its number.         *)
CopyOK(doc) == IF doc.id = 0 THEN doc = NoDeliverable ELSE doc.text \in Text

(* The page knows of no document that the table does not have, and does not    *)
(* forget one; what a button works on is there.                               *)
PageKnows ==
  /\ seen.id <= Len(docs) /\ reload.doc.id <= Len(docs)
  /\ CopyOK(seen) /\ CopyOK(reload.doc)
  /\ reload.step = "read" /\ seen.id # 0 => reload.doc.id # 0
  /\ editor \in IF seen.id = 0 THEN {Nothing} ELSE Text
  /\ operation.step \in Generating => Len(docs) < MaxDocs
  /\ operation.step \in Updating => operation.text \in Text /\ seen.id # 0
  /\ operation.step \in {"cite", "store"} => operation.text \in Text

(* What the checks have established of the draft, by where it is.             *)
DraftChecked ==
  /\ operation.step \notin Generating => operation.by = "nobody"
  /\ operation.step \in {"cite", "store"} /\ operation.by = "model"
       => operation.text \notin Foreign
  /\ operation.step = "store" /\ operation.by = "model"
       => CitationPostCheck(operation.text)

PageInv == DeliverablesTypeOK /\ PageKnows
DeliverablesInv == PageInv /\ DraftChecked

OperationType == [step : Step, text : Markdown, by : {"nobody", "model", "composer"},
                  shown : Markdown]

-----------------------------------------------------------------------------
LEMMA RestingType == Resting \in OperationType /\ Resting.step = "idle" /\ Resting.by = "nobody"
BY DEF Resting, OperationType, Step, Markdown

LEMMA LatestOK ==
  ASSUME DeliverablesTypeOK
  PROVE  /\ Latest \in DocCopy /\ CopyOK(Latest)
         /\ Latest.id = Len(docs)
<1>1. CASE docs = <<>>
  <2>1. Latest = NoDeliverable /\ Len(docs) = 0
    BY <1>1 DEF Latest
  <2> QED BY <2>1, DeliverablesAssumption DEF NoDeliverable, DocCopy, Markdown, CopyOK
<1>2. CASE docs # <<>>
  <2>1. Len(docs) \in Nat /\ Len(docs) # 0 /\ Len(docs) \in 1 .. Len(docs)
    BY <1>2 DEF DeliverablesTypeOK
  <2>2. docs[Len(docs)] \in DocRow
    BY <2>1 DEF DeliverablesTypeOK
  <2>3. Latest = [id |-> Len(docs), text |-> docs[Len(docs)].text,
                  final |-> docs[Len(docs)].final]
    BY <1>2 DEF Latest
  <2> QED BY <2>1, <2>2, <2>3, DeliverablesAssumption
          DEF DocRow, DocCopy, Markdown, CopyOK, DeliverablesTypeOK
<1> QED BY <1>1, <1>2

(* An update of a row keeps the table's kind and length.                      *)
LEMMA UpdateOK ==
  ASSUME PageInv, operation.step \in Updating, NEW final \in BOOLEAN, UpdateRow(final)
  PROVE  docs' \in Seq(DocRow) /\ Len(docs') = Len(docs)
<1>1. docs \in [1 .. Len(docs) -> DocRow] /\ Len(docs) \in Nat /\ operation.text \in Text
  BY DEF PageInv, PageKnows, DeliverablesTypeOK
<1>2. seen.id \in 1 .. Len(docs)
  BY <1>1 DEF PageInv, PageKnows, DeliverablesTypeOK, DocCopy
<1>3. docs' = [docs EXCEPT ![seen.id] = [text |-> operation.text,
                                         final |-> docs[seen.id].final \/ final]]
  BY DEF UpdateRow
<1>4. docs[seen.id].final \/ final \in BOOLEAN
  OBVIOUS
<1>5. docs' \in [1 .. Len(docs) -> DocRow]
  BY <1>1, <1>2, <1>3, <1>4 DEF DocRow
<1> QED BY <1>1, <1>5

-----------------------------------------------------------------------------
(* A step of a button that leaves the table and the page's copy alone.         *)
LEMMA OperationStep ==
  ASSUME PageInv, operation' \in OperationType, calm' \in BOOLEAN, printed' \in BOOLEAN,
         UNCHANGED <<docType, docs, seen, reload, editor>>,
         operation'.step \in Generating => Len(docs) < MaxDocs,
         operation'.step \in Updating => operation'.text \in Text /\ seen.id # 0,
         operation'.step \in {"cite", "store"} => operation'.text \in Text
  PROVE  PageInv'
BY DEF PageInv, PageKnows, DeliverablesTypeOK, OperationType, DocCopy, CopyOK, Markdown

LEMMA ReloadingOK ==
  /\ Reloading \in [step : {"none", "asked", "read"}, doc : DocCopy]
  /\ Reloading.step = "asked" /\ Reloading.doc.id = 0 /\ CopyOK(Reloading.doc)
BY DeliverablesAssumption DEF Reloading, NoDeliverable, DocCopy, CopyOK, Markdown

(* A step that writes the table, after which the page asks for it again.       *)
LEMMA Rested ==
  ASSUME PageInv, docs' \in Seq(DocRow), Len(docs') \in Len(docs) .. MaxDocs,
         operation' \in OperationType, operation'.step \in {"idle", "render"},
         reload' = Reloading, UNCHANGED <<docType, seen, editor, printed, calm>>
  PROVE  PageInv'
<1>1. Len(docs) \in Nat /\ Len(docs') \in Nat
  BY DEF PageInv, DeliverablesTypeOK
<1>2. DeliverablesTypeOK'
  BY ReloadingOK, <1>1, DeliverablesAssumption DEF PageInv, DeliverablesTypeOK, OperationType
<1>3. seen.id <= Len(docs') /\ reload'.doc.id <= Len(docs')
  BY ReloadingOK, <1>1 DEF PageInv, PageKnows, DeliverablesTypeOK, DocCopy
<1>4. CopyOK(seen)' /\ CopyOK(reload.doc)'
  BY ReloadingOK DEF PageInv, PageKnows, CopyOK
<1> QED BY ReloadingOK, <1>2, <1>3, <1>4 DEF PageInv, PageKnows, Generating, Updating

LEMMA PageNext ==
  ASSUME PageInv, [DeliverablesNext]_deliverableVars
  PROVE  PageInv'
<1>t. DeliverablesTypeOK /\ PageKnows
  BY DEF PageInv
<1>o. operation \in OperationType /\ editor \in Markdown /\ calm \in BOOLEAN /\ printed \in BOOLEAN
  BY <1>t DEF DeliverablesTypeOK, OperationType
<1>k. CopyOK(seen) /\ seen \in DocCopy
  BY <1>t DEF DeliverablesTypeOK, PageKnows
<1>e. seen # NoDeliverable => seen.id # 0 /\ editor \in Text
  BY <1>k, <1>t DEF CopyOK, PageKnows
<1>n. Len(docs) \in Nat
  BY <1>t DEF DeliverablesTypeOK
<1>b. ASSUME NEW step \in Step, Begin(step)
      PROVE  operation' \in OperationType /\ operation'.step = step /\ operation'.text = editor
  BY <1>b, <1>o, RestingType DEF Begin, OperationType
<1>g. ASSUME NEW step \in Step, Goes(step)
      PROVE  operation' \in OperationType /\ operation'.step = step
             /\ operation'.text = operation.text
  BY <1>g, <1>o DEF Goes, OperationType
<1>d. ASSUME NEW t \in Text, NEW step \in Step, Drafted(t, step)
      PROVE  operation' \in OperationType /\ operation'.step = step /\ operation'.text = t
  BY <1>d, <1>o DEF Drafted, OperationType, Markdown
<1>m. operation.step \in Generating => Len(docs) < MaxDocs
  BY <1>t DEF PageKnows
<1>1. CASE ReadLatest
  <2>1. reload' = [step |-> "read", doc |-> Latest]
        /\ UNCHANGED <<docType, docs, seen, editor, operation, printed, calm>>
    BY <1>1 DEF ReadLatest
  <2>2. Latest \in DocCopy /\ CopyOK(Latest) /\ Latest.id = Len(docs)
    BY <1>t, LatestOK
  <2>3. reload' \in [step : {"none", "asked", "read"}, doc : DocCopy]
    BY <2>1, <2>2
  <2>4. seen.id # 0 => Latest.id # 0
    BY <2>2, <1>t, <1>k, <1>n DEF PageKnows, DocCopy
  <2>5. DeliverablesTypeOK'
    BY <2>1, <2>3, <1>t DEF DeliverablesTypeOK
  <2> QED BY <2>1, <2>2, <2>4, <2>5, <1>t, <1>n DEF PageInv, PageKnows, CopyOK
<1>2. CASE LatestArrives
  <2>1. /\ reload.step = "read" /\ seen' = reload.doc /\ reload' = NotRead
        /\ editor' = IF reload.doc = seen THEN editor ELSE reload.doc.text
        /\ UNCHANGED <<docType, docs, operation, printed, calm>>
    BY <1>2 DEF LatestArrives
  <2>2. reload.doc \in DocCopy /\ CopyOK(reload.doc) /\ reload.doc.id <= Len(docs)
    BY <1>t DEF DeliverablesTypeOK, PageKnows
  <2>3. /\ NotRead \in [step : {"none", "asked", "read"}, doc : DocCopy]
        /\ NotRead.step = "none" /\ NotRead.doc.id = 0 /\ CopyOK(NotRead.doc)
        /\ NoDeliverable.id = 0 /\ NoDeliverable.text = Nothing
    BY DeliverablesAssumption DEF NotRead, NoDeliverable, DocCopy, CopyOK, Markdown
  <2>4. editor' \in IF reload.doc.id = 0 THEN {Nothing} ELSE Text
    BY <2>1, <2>2, <2>3, <1>t DEF CopyOK, PageKnows
  <2>5. DeliverablesTypeOK'
    BY <2>1, <2>2, <2>3, <2>4, <1>t DEF DeliverablesTypeOK, Markdown
  <2>6. operation.step \in Updating => reload.doc.id # 0
    BY <2>1, <1>t DEF PageKnows
  <2>7. CopyOK(seen)' /\ CopyOK(reload.doc)'
    BY <2>1, <2>2, <2>3 DEF CopyOK
  <2>8. seen'.id <= Len(docs') /\ reload'.doc.id <= Len(docs') /\ reload'.step = "none"
    BY <2>1, <2>2, <2>3, <1>n
  <2>9. editor' \in IF seen'.id = 0 THEN {Nothing} ELSE Text
    BY <2>1, <2>4
  <2> QED BY <2>1, <2>5, <2>6, <2>7, <2>8, <2>9, <1>t DEF PageInv, PageKnows
<1>3. CASE ReloadFails
  <2>1. /\ NotRead \in [step : {"none", "asked", "read"}, doc : DocCopy]
        /\ NotRead.step = "none" /\ NotRead.doc.id = 0 /\ CopyOK(NotRead.doc)
    BY DeliverablesAssumption DEF NotRead, NoDeliverable, DocCopy, CopyOK, Markdown
  <2>2. /\ UNCHANGED <<docType, docs, seen, editor, operation, printed>>
        /\ reload' = NotRead /\ calm' = FALSE
    BY <1>3 DEF ReloadFails
  <2>3. DeliverablesTypeOK'
    BY <2>1, <2>2, <1>t DEF DeliverablesTypeOK
  <2>4. CopyOK(seen)' /\ CopyOK(reload.doc)'
    BY <2>1, <2>2, <1>k DEF CopyOK
  <2>5. reload'.doc.id <= Len(docs') /\ reload'.step = "none"
    BY <2>1, <2>2, <1>n
  <2> QED BY <2>2, <2>3, <2>4, <2>5, <1>t DEF PageInv, PageKnows
<1>4. CASE \E t \in Text : TypeText(t)
  BY <1>4, <1>t, <1>e DEF TypeText, PageInv, PageKnows, DeliverablesTypeOK, CopyOK, Markdown
<1>5. CASE Generate
  <2>1. PICK step \in {"draft", "compose"} : Begin(step)
    BY <1>5 DEF Generate
  <2>2. operation' \in OperationType /\ operation'.step = step
    BY <2>1, <1>b DEF Step
  <2> QED BY <1>5, <2>1, <2>2, <1>o, OperationStep DEF Generate, Press, Updating
<1>6. CASE \E t \in Text : Draft(t) \/ Redraft(t) \/ Recite(t)
  <2> PICK t \in Text : Draft(t) \/ Redraft(t) \/ Recite(t)
    BY <1>6
  <2>1. PICK step \in {"cite", "redraft", "compose", "store"} : Drafted(t, step)
    BY DEF Draft, Redraft, Recite
  <2>2. operation' \in OperationType /\ operation'.step = step /\ operation'.text = t
    BY <2>1, <1>d DEF Step
  <2>3. UNCHANGED <<docType, docs, seen, reload, editor, printed, calm>>
        /\ operation.step \in Generating
    BY DEF Draft, Redraft, Recite, At, Generating
  <2> QED BY <2>1, <2>2, <2>3, <1>m, <1>o, OperationStep DEF Updating
<1>7. CASE Cite
  <2>1. /\ UNCHANGED <<docType, docs, seen, reload, editor, printed, calm>>
        /\ operation.step = "cite" /\ operation.text \in Text
    BY <1>7, <1>t DEF Cite, At, PageKnows
  <2>2. PICK step \in {"store", "recite"} : Goes(step)
    BY <1>7 DEF Cite
  <2>3. /\ operation' \in OperationType /\ operation'.step = step
        /\ operation'.text = operation.text
    BY <2>2, <1>g DEF Step
  <2> QED BY <2>1, <2>3, <1>m, <1>o, OperationStep DEF Generating, Updating
<1>8. CASE ModelFails
  <2>1. /\ UNCHANGED <<docType, docs, seen, reload, editor, printed, calm>>
        /\ operation.step \in Generating
    BY <1>8 DEF ModelFails, Generating
  <2>2. operation' \in OperationType /\ operation'.step = "compose"
    BY <1>8, <1>g DEF ModelFails, Step
  <2> QED BY <2>1, <2>2, <1>m, <1>o, OperationStep DEF Updating
<1>9. CASE Compose
  <2>1. /\ UNCHANGED <<docType, docs, seen, reload, editor, printed, calm>>
        /\ operation.step \in Generating
        /\ operation' = [operation EXCEPT !.step = "store", !.text = Composed, !.by = "composer"]
    BY <1>9 DEF Compose, At, Generating
  <2>2. operation' \in OperationType /\ operation'.step = "store" /\ operation'.text = Composed
    BY <2>1, <1>o, DeliverablesAssumption DEF OperationType, Step, Markdown
  <2> QED BY <2>1, <2>2, <1>m, <1>o, DeliverablesAssumption, OperationStep DEF Updating
<1>10. CASE PersistGeneratedDocument
  <2>1. /\ docs' = Append(docs, [text |-> operation.text, final |-> FALSE])
        /\ operation' = Resting /\ reload' = Reloading
        /\ UNCHANGED <<docType, seen, editor, printed, calm>>
        /\ operation.text \in Text /\ Len(docs) < MaxDocs
    BY <1>10, <1>t, <1>m DEF PersistGeneratedDocument, At, Generating, PageKnows
  <2>2. docs' \in Seq(DocRow) /\ Len(docs') = Len(docs) + 1
    BY <2>1, <1>t DEF DocRow, DeliverablesTypeOK
  <2>3. Len(docs') \in Len(docs) .. MaxDocs
    BY <2>1, <2>2, <1>n, DeliverablesAssumption
  <2> QED BY <2>1, <2>2, <2>3, RestingType, Rested
<1>11. CASE PressSave \/ PressFinalize
  <2>1. PICK step \in {"save", "finalize"} : Begin(step)
    BY <1>11 DEF PressSave, PressFinalize
  <2>2. operation' \in OperationType /\ operation'.step = step /\ operation'.text = editor
    BY <2>1, <1>b DEF Step
  <2>3. UNCHANGED <<docType, docs, seen, reload, editor, printed>> /\ calm' \in BOOLEAN
    BY <1>11, <1>o DEF PressSave, PressFinalize, Press
  <2>4. seen # NoDeliverable
    BY <1>11 DEF PressSave, PressFinalize, Dirty
  <2> QED BY <2>2, <2>3, <2>4, <1>e, <1>o, OperationStep DEF Generating
<1>12. CASE SaveDraft
  <2>1. /\ operation.step \in Updating /\ operation' = Resting /\ reload' = Reloading
        /\ UNCHANGED <<docType, seen, editor, printed, calm>>
        /\ UpdateRow(At("finalize"))
    BY <1>12 DEF SaveDraft, UpdateRow, Updating
  <2>2. docs' \in Seq(DocRow) /\ Len(docs') = Len(docs)
    BY <2>1, UpdateOK DEF At
  <2> QED BY <2>1, <2>2, <1>t, <1>n, RestingType, ReloadingOK, Rested DEF DeliverablesTypeOK
<1>13. CASE DownloadPdf
  <2>1. /\ operation' = [Resting EXCEPT !.step = IF Dirty THEN "flush" ELSE "render",
                                        !.text = editor, !.shown = ActiveMarkdown]
        /\ seen # NoDeliverable
        /\ UNCHANGED <<docType, docs, seen, reload, editor, printed>> /\ calm' \in BOOLEAN
    BY <1>13, <1>o DEF DownloadPdf, Press
  <2>2. ActiveMarkdown \in Markdown
    BY <1>k, <1>o DEF ActiveMarkdown, DocCopy
  <2>3. /\ operation' \in OperationType /\ operation'.step \in {"flush", "render"}
        /\ operation'.text = editor
    BY <2>1, <2>2, <1>o, RestingType DEF OperationType, Step
  <2> QED BY <2>1, <2>3, <1>e, <1>o, OperationStep DEF Generating
<1>14. CASE FlushEdits
  <2>1. /\ operation.step \in Updating /\ Goes("render") /\ reload' = Reloading
        /\ UNCHANGED <<docType, seen, editor, printed, calm>> /\ UpdateRow(FALSE)
    BY <1>14 DEF FlushEdits, UpdateRow, Updating, At
  <2>2. docs' \in Seq(DocRow) /\ Len(docs') = Len(docs)
    BY <2>1, UpdateOK
  <2>3. operation' \in OperationType /\ operation'.step = "render"
    BY <2>1, <1>g DEF Step
  <2> QED BY <2>1, <2>2, <2>3, <1>t, <1>n, ReloadingOK, Rested DEF DeliverablesTypeOK
<1>15. CASE RenderDocumentPdf
  <2>1. /\ operation' = Resting /\ printed' \in BOOLEAN
        /\ UNCHANGED <<docType, docs, seen, reload, editor, calm>>
    BY <1>15 DEF RenderDocumentPdf
  <2> QED BY <2>1, <1>o, RestingType, OperationStep DEF Generating, Updating
<1>16. CASE OperationFails
  <2>1. /\ UNCHANGED <<docType, docs, seen, reload, editor, printed>> /\ calm' = FALSE
        /\ Goes("render") \/ operation' = Resting
    BY <1>16 DEF OperationFails
  <2>2. operation' \in OperationType /\ operation'.step \in {"render", "idle"}
    BY <2>1, <1>g, RestingType DEF Step
  <2> QED BY <2>1, <2>2, <1>o, OperationStep DEF Generating, Updating
<1>17. CASE UNCHANGED deliverableVars
  BY <1>17, <1>t DEF deliverableVars, PageInv, PageKnows, DeliverablesTypeOK, CopyOK
<1> QED BY <1>1, <1>2, <1>3, <1>4, <1>5, <1>6, <1>7, <1>8, <1>9, <1>10, <1>11, <1>12, <1>13,
           <1>14, <1>15, <1>16, <1>17
        DEF DeliverablesNext, GenerationStep, CuratorStep

LEMMA CheckedNext ==
  ASSUME PageInv, DraftChecked, [DeliverablesNext]_deliverableVars
  PROVE  DraftChecked'
<1>o. operation \in OperationType
  BY DEF PageInv, DeliverablesTypeOK, OperationType
<1>1. CASE UNCHANGED <<docType, operation>>
  BY <1>1 DEF DraftChecked, CitationPostCheck
<1>2. CASE operation'.by = "nobody"
  BY <1>2 DEF DraftChecked
<1>3. CASE \E t \in Text : Draft(t) \/ Redraft(t) \/ Recite(t)
  <2> PICK t \in Text : Draft(t) \/ Redraft(t) \/ Recite(t)
    BY <1>3
  <2>1. CASE Draft(t) \/ Redraft(t)
    <3>1. PICK step \in {"cite", "redraft", "compose"} :
            Drafted(t, step) /\ (step = "cite" => NumeralPostCheck(t))
      BY <2>1 DEF Draft, Redraft
    <3>2. operation'.step = step /\ operation'.text = t
      BY <3>1, <1>o DEF Drafted, OperationType
    <3> QED BY <3>1, <3>2 DEF DraftChecked, NumeralPostCheck, Generating
  <2>2. CASE Recite(t)
    <3>1. PICK step \in {"store", "compose"} :
            /\ Drafted(t, step)
            /\ step = "store" => NumeralPostCheck(t) /\ CitationPostCheck(t)
      BY <2>2 DEF Recite
    <3>2. operation'.step = step /\ operation'.text = t /\ UNCHANGED docType
      BY <3>1, <2>2, <1>o DEF Drafted, OperationType, Recite
    <3> QED BY <3>1, <3>2 DEF DraftChecked, NumeralPostCheck, CitationPostCheck, Generating
  <2> QED BY <2>1, <2>2
<1>4. CASE Cite
  <2>1. PICK step \in {"store", "recite"} :
          Goes(step) /\ (step = "store" => CitationPostCheck(operation.text))
    BY <1>4 DEF Cite
  <2>2. operation'.step = step /\ operation'.text = operation.text
        /\ operation'.by = operation.by
    BY <2>1, <1>o DEF Goes, OperationType
  <2>3. operation.step = "cite" /\ UNCHANGED docType
    BY <1>4 DEF Cite, At
  <2> QED BY <2>1, <2>2, <2>3 DEF DraftChecked, CitationPostCheck, Generating
<1>5. CASE ModelFails
  <2>1. operation'.step = "compose"
    BY <1>5, <1>o DEF ModelFails, Goes, OperationType
  <2> QED BY <2>1 DEF DraftChecked, Generating
<1>6. CASE Compose
  <2>1. operation'.step = "store" /\ operation'.by = "composer"
    BY <1>6, <1>o DEF Compose, OperationType
  <2> QED BY <2>1 DEF DraftChecked, Generating
<1>7. CASE ReadLatest \/ LatestArrives \/ ReloadFails \/ \E t \in Text : TypeText(t)
  BY <1>1, <1>7 DEF ReadLatest, LatestArrives, ReloadFails, TypeText
<1>8. CASE Generate \/ PressSave \/ PressFinalize \/ DownloadPdf
  BY <1>2, <1>8, RestingType
     DEF Generate, PressSave, PressFinalize, DownloadPdf, Begin, OperationType
<1>9. CASE PersistGeneratedDocument \/ SaveDraft \/ RenderDocumentPdf
  BY <1>2, <1>9, RestingType DEF PersistGeneratedDocument, SaveDraft, RenderDocumentPdf
<1>10. CASE FlushEdits
  <2>1. operation.step = "flush" /\ operation'.by = operation.by
    BY <1>10, <1>o DEF FlushEdits, At, Goes, OperationType
  <2> QED BY <2>1, <1>2 DEF DraftChecked, Generating
<1>11. CASE OperationFails
  <2>1. CASE At("flush")
    <3>1. operation'.by = operation.by
      BY <2>1, <1>11, <1>o DEF OperationFails, Goes, OperationType
    <3> QED BY <2>1, <3>1, <1>2 DEF At, DraftChecked, Generating
  <2>2. CASE operation' = Resting
    BY <2>2, <1>2, RestingType
  <2> QED BY <1>11, <2>1, <2>2 DEF OperationFails
<1>12. CASE UNCHANGED deliverableVars
  BY <1>1, <1>12 DEF deliverableVars
<1> QED BY <1>3, <1>4, <1>5, <1>6, <1>7, <1>8, <1>9, <1>10, <1>11, <1>12
        DEF DeliverablesNext, GenerationStep, CuratorStep

LEMMA DeliverablesInvInit == DeliverablesInit => DeliverablesInv
<1> SUFFICES ASSUME DeliverablesInit PROVE DeliverablesInv
  OBVIOUS
<1>1. NoDeliverable \in DocCopy /\ NoDeliverable.id = 0 /\ CopyOK(NoDeliverable)
  BY DeliverablesAssumption DEF NoDeliverable, DocCopy, CopyOK, Markdown
<1>2. docs = <<>> /\ docs \in Seq(DocRow) /\ Len(docs) = 0
  BY DEF DeliverablesInit
<1>3. DeliverablesTypeOK
  BY <1>1, <1>2, ReloadingOK, RestingType, DeliverablesAssumption
     DEF DeliverablesInit, DeliverablesTypeOK, OperationType, Markdown
<1>4. PageKnows
  BY <1>1, <1>2, ReloadingOK, RestingType
     DEF DeliverablesInit, PageKnows, Generating, Updating
<1>5. DraftChecked
  BY RestingType DEF DeliverablesInit, DraftChecked
<1> QED BY <1>3, <1>4, <1>5 DEF DeliverablesInv, PageInv

(* What the model drafted is stored only when it invents no figure and, in the *)
(* documents for buyers, cites every market figure (runGroundedGeneration).    *)
THEOREM Grounded == DeliverablesSpec => StoredIsGrounded
<1>1. DeliverablesInv /\ [DeliverablesNext]_deliverableVars => DeliverablesInv'
  BY PageNext, CheckedNext DEF DeliverablesInv
<1>2. DeliverablesInv /\ [DeliverablesNext]_deliverableVars =>
        [docs' # docs /\ operation.by = "model" =>
           /\ docs'[Len(docs')].text \notin Foreign
           /\ docType = "cim" => docs'[Len(docs')].text \notin Uncited]_deliverableVars
  <2> SUFFICES ASSUME DeliverablesInv, DeliverablesNext, docs' # docs, operation.by = "model"
               PROVE  /\ docs'[Len(docs')].text \notin Foreign
                      /\ docType = "cim" => docs'[Len(docs')].text \notin Uncited
    BY DEF deliverableVars
  <2>1. operation.step \in Generating
    BY DEF DeliverablesInv, DraftChecked
  <2>2. PersistGeneratedDocument
    BY <2>1 DEF Generating, DeliverablesNext, GenerationStep, CuratorStep, Generate, Draft, Redraft,
       Recite, Cite, ModelFails, Compose, PressSave, PressFinalize, SaveDraft, DownloadPdf,
       FlushEdits, RenderDocumentPdf, OperationFails, TypeText, ReadLatest, LatestArrives,
       ReloadFails, At
  <2>3. docs \in Seq(DocRow) /\ operation.step = "store"
        /\ docs' = Append(docs, [text |-> operation.text, final |-> FALSE])
    BY <2>2 DEF PersistGeneratedDocument, At, DeliverablesInv, PageInv, DeliverablesTypeOK
  <2>4. docs'[Len(docs')].text = operation.text
    BY <2>3
  <2> QED BY <2>3, <2>4 DEF DeliverablesInv, DraftChecked, CitationPostCheck
<1> QED BY <1>1, <1>2, DeliverablesInvInit, PTL DEF DeliverablesSpec, StoredIsGrounded

(* The table and the page keep their kinds of value, and the page never works  *)
(* on a document that is not there (DocumentCurator.tsx).                      *)
THEOREM DeliverableTypes == DeliverablesSpec => []DeliverablesTypeOK
<1>1. DeliverablesInv /\ [DeliverablesNext]_deliverableVars => DeliverablesInv'
  BY PageNext, CheckedNext DEF DeliverablesInv
<1>2. DeliverablesInv => DeliverablesTypeOK
  BY DEF DeliverablesInv, PageInv
<1> QED BY <1>1, <1>2, DeliverablesInvInit, PTL DEF DeliverablesSpec

-----------------------------------------------------------------------------
(* The page, the table and the renderer, as long as nothing failed and no      *)
(* button was pressed during a reload: what has been read is the newest row,   *)
(* and a download prints what it has stored.                                   *)
CopyFollowsRow ==
  /\ printed
  /\ reload.step = "none" => seen = Latest
  /\ reload.step = "read" => reload.doc = Latest
  /\ At("flush") => /\ reload.step = "none" /\ ~seen.final
                    /\ operation.text = operation.shown
  /\ At("render") => Latest.text = operation.shown

FollowsWhenCalm == calm => CopyFollowsRow

(* The row that a page with nothing to read updates is the newest one.         *)
LEMMA FlushStores ==
  ASSUME PageInv, At("flush"), seen = Latest, UpdateRow(FALSE)
  PROVE  Latest'.text = operation.text
<1>1. docs' \in Seq(DocRow) /\ Len(docs') = Len(docs)
  BY UpdateOK DEF At, Updating
<1>2. docs \in [1 .. Len(docs) -> DocRow] /\ Len(docs) \in Nat /\ seen.id = Len(docs)
      /\ seen.id # 0
  BY LatestOK DEF PageInv, PageKnows, DeliverablesTypeOK, At, Updating
<1>3. docs'[Len(docs)] = [text |-> operation.text, final |-> docs[Len(docs)].final \/ FALSE]
  BY <1>2 DEF UpdateRow
<1>4. docs' # <<>>
  BY <1>1, <1>2
<1> QED BY <1>1, <1>3, <1>4 DEF Latest

(* A button, pressed while nothing is being read.                              *)
LEMMA PressFollows ==
  ASSUME PageInv, CopyFollowsRow, At("idle"), reload = NotRead,
         UNCHANGED <<docs, seen, reload, printed>>,
         operation'.step # "flush" \/ (~seen.final /\ operation'.text = operation'.shown),
         operation'.step # "render" \/ operation'.shown = seen.text
  PROVE  CopyFollowsRow'
<1>1. seen = Latest /\ Latest' = Latest /\ reload'.step = "none"
  BY DEF CopyFollowsRow, NotRead, Latest
<1> QED BY <1>1 DEF CopyFollowsRow, At

LEMMA FollowsNext ==
  ASSUME PageInv, FollowsWhenCalm, DeliverablesNext, calm'
  PROVE  CopyFollowsRow'
<1>o. operation \in OperationType
  BY DEF PageInv, DeliverablesTypeOK, OperationType
<1>r. NotRead.step = "none" /\ Reloading.step = "asked"
  BY DEF NotRead, Reloading
<1>w. docs' = docs => Latest' = Latest
  BY DEF Latest
<1>c. calm
  BY DEF DeliverablesNext, GenerationStep, CuratorStep, Generate, Draft, Redraft, Recite, Cite,
     ModelFails, Compose, PressSave, PressFinalize, SaveDraft, DownloadPdf, FlushEdits,
     RenderDocumentPdf, OperationFails, TypeText, ReadLatest, LatestArrives, ReloadFails, Press,
     PersistGeneratedDocument
<1>f. CopyFollowsRow
  BY <1>c DEF FollowsWhenCalm
<1>1. CASE ReadLatest
  <2>1. reload' = [step |-> "read", doc |-> Latest] /\ reload.step = "asked"
        /\ UNCHANGED <<docs, seen, operation, printed>>
    BY <1>1 DEF ReadLatest
  <2> QED BY <2>1, <1>f, <1>w DEF CopyFollowsRow, At
<1>2. CASE LatestArrives
  <2>1. reload.step = "read" /\ seen' = reload.doc /\ reload' = NotRead
        /\ UNCHANGED <<docs, operation, printed>>
    BY <1>2 DEF LatestArrives
  <2> QED BY <2>1, <1>f, <1>w, <1>r DEF CopyFollowsRow, At
<1>3. CASE ReloadFails \/ OperationFails
  BY <1>3 DEF ReloadFails, OperationFails
<1>4. CASE \E t \in Text : TypeText(t)
  BY <1>4, <1>f, <1>w DEF TypeText, CopyFollowsRow, At
<1>5. CASE Generate \/ PressSave \/ PressFinalize
  <2>1. PICK step \in {"draft", "compose", "save", "finalize"} : Begin(step)
    BY <1>5 DEF Generate, PressSave, PressFinalize
  <2>2. operation'.step \notin {"flush", "render"}
    BY <2>1, RestingType DEF Begin, OperationType
  <2> QED BY <1>5, <2>2, <1>f, PressFollows DEF Generate, PressSave, PressFinalize, Press
<1>6. CASE DownloadPdf
  <2>1. /\ operation' = [Resting EXCEPT !.step = IF Dirty THEN "flush" ELSE "render",
                                        !.text = editor, !.shown = ActiveMarkdown]
        /\ seen # NoDeliverable /\ UNCHANGED <<docs, seen, reload, printed>>
        /\ At("idle") /\ reload = NotRead
    BY <1>6 DEF DownloadPdf, Press
  <2>2. operation'.text = editor /\ operation'.shown = ActiveMarkdown
        /\ operation'.step = IF Dirty THEN "flush" ELSE "render"
    BY <2>1 DEF Resting
  <2>3. Dirty => ~seen.final /\ ActiveMarkdown = editor
    BY DEF Dirty, ActiveMarkdown
  <2>4. ~Dirty => ActiveMarkdown = seen.text
    BY <2>1 DEF Dirty, ActiveMarkdown
  <2> QED BY <2>1, <2>2, <2>3, <2>4, <1>f, PressFollows
<1>7. CASE (\E t \in Text : Draft(t) \/ Redraft(t) \/ Recite(t)) \/ Cite \/ ModelFails \/ Compose
  <2>1. UNCHANGED <<docs, seen, reload, printed>>
    BY <1>7 DEF Draft, Redraft, Recite, Cite, ModelFails, Compose
  <2>2. operation'.step \notin {"flush", "render"}
    BY <1>7, <1>o DEF Draft, Redraft, Recite, Cite, ModelFails, Compose, Drafted, Goes,
       OperationType
  <2> QED BY <2>1, <2>2, <1>f, <1>w DEF CopyFollowsRow, At
<1>8. CASE PersistGeneratedDocument \/ SaveDraft
  <2>1. reload' = Reloading /\ operation' = Resting /\ UNCHANGED printed
    BY <1>8 DEF PersistGeneratedDocument, SaveDraft, UpdateRow
  <2> QED BY <2>1, <1>f, <1>r, RestingType DEF CopyFollowsRow, At
<1>9. CASE FlushEdits
  <2>1. /\ At("flush") /\ UpdateRow(FALSE) /\ reload' = Reloading /\ UNCHANGED printed
        /\ operation' = [operation EXCEPT !.step = "render"]
    BY <1>9 DEF FlushEdits, UpdateRow, Goes
  <2>2. seen = Latest /\ operation.text = operation.shown
    BY <2>1, <1>f DEF CopyFollowsRow
  <2>3. operation'.step = "render" /\ operation'.shown = operation.shown
    BY <2>1, <1>o DEF OperationType
  <2> QED BY <2>1, <2>2, <2>3, <1>f, <1>r, FlushStores DEF CopyFollowsRow, At
<1>10. CASE RenderDocumentPdf
  <2>1. /\ At("render") /\ printed' = (Latest.text = operation.shown) /\ operation' = Resting
        /\ UNCHANGED <<docs, seen, reload>>
    BY <1>10 DEF RenderDocumentPdf
  <2> QED BY <2>1, <1>f, <1>w, RestingType DEF CopyFollowsRow, At
<1> QED BY <1>1, <1>2, <1>3, <1>4, <1>5, <1>6, <1>7, <1>8, <1>9, <1>10
        DEF DeliverablesNext, GenerationStep, CuratorStep

(* A download prints what was on screen when it was asked for, through typing, *)
(* saving, finalizing and generating anew, as long as no request failed and no *)
(* button was pressed during a reload (DocumentCurator.tsx).                   *)
THEOREM Printed == DeliverablesSpec => []PdfMatchesScreen
<1>1. DeliverablesInit => FollowsWhenCalm
  BY RestingType DEF DeliverablesInit, FollowsWhenCalm, CopyFollowsRow, Reloading, At
<1>2. DeliverablesInit => PageInv
  BY DeliverablesInvInit DEF DeliverablesInv
<1>3. PageInv /\ FollowsWhenCalm /\ [DeliverablesNext]_deliverableVars => FollowsWhenCalm'
  <2> SUFFICES ASSUME PageInv, FollowsWhenCalm, [DeliverablesNext]_deliverableVars
               PROVE  FollowsWhenCalm'
    OBVIOUS
  <2>1. CASE DeliverablesNext
    BY <2>1, FollowsNext DEF FollowsWhenCalm
  <2>2. CASE UNCHANGED deliverableVars
    BY <2>2 DEF deliverableVars, FollowsWhenCalm, CopyFollowsRow, Latest, At
  <2> QED BY <2>1, <2>2
<1>4. PageInv /\ [DeliverablesNext]_deliverableVars => PageInv'
  BY PageNext
<1>5. FollowsWhenCalm => PdfMatchesScreen
  BY DEF FollowsWhenCalm, CopyFollowsRow, PdfMatchesScreen
<1> QED BY <1>1, <1>2, <1>3, <1>4, <1>5, PTL DEF DeliverablesSpec

-----------------------------------------------------------------------------
\* The six together.  Where MCEvidence starts, every component starts, and each of its
\* steps is a step of a component and leaves the others as they are.
THEOREM Together ==
  EvidenceSpec => /\ Spec /\ DocumentsSpec /\ EngineSpec
                  /\ IntakeSpec /\ DeliverablesSpec /\ ValuationSpec
<1>1. EvidenceInit => /\ Init /\ DocumentsInit /\ EngineInit
                      /\ IntakeInit /\ DeliverablesInit /\ ValuationInit
  BY DEF EvidenceInit
<1>2. [EvidenceNext]_evidenceVars
      => /\ [Next]_vars /\ [DocumentsNext]_documentVars /\ [EngineNext]_engineVars
         /\ [IntakeNext]_intakeVars /\ [DeliverablesNext]_deliverableVars
         /\ [ValuationNext]_valuationVars
  BY DEF EvidenceNext, DocumentsStep, evidenceVars
<1> QED
  BY <1>1, <1>2, PTL
     DEF EvidenceSpec, Spec, DocumentsSpec, EngineSpec, IntakeSpec, DeliverablesSpec, ValuationSpec

\* Every component keeps its types.
THEOREM EvidenceTypes == EvidenceSpec => []EvidenceTypeOK
<1>1. TypeOK /\ DocumentsTypeOK /\ IntakeTypeOK /\ DeliverablesTypeOK /\ ValuationTypeOK
      => EvidenceTypeOK
  BY DEF EvidenceTypeOK
<1> QED
  BY <1>1, Together, TypeCorrect, DocumentTypes, IntakeTypes, DeliverableTypes,
     ValuationTypes, PTL

\* What the components promise, each over its own specification, they promise together:
\* what the run of MCEvidence checks.
THEOREM EvidencePromises ==
  EvidenceSpec => /\ [](/\ AutoIsConfident /\ FindingsQueued
                        /\ BytesFollow /\ VerifiedIsConfirmed
                        /\ ScoresInRange /\ DominantNotSaleable
                        /\ OwnerSeesSaved /\ PdfMatchesScreen)
                  /\ ImprovementNeverHurts /\ StoredIsGrounded /\ ImprovementPays
<1>1. EvidenceSpec => ImprovementNeverHurts /\ StoredIsGrounded /\ ImprovementPays
  BY Together, NeverHurts, Grounded, Pays
<1> QED
  BY <1>1, Together, Confident, Queued, Bytes, Confirmed, InRange, Dominant, OwnerSees,
     Printed, PTL

\* LatestShows as well, when runs do not overlap.
THEOREM EvidenceLatest ==
  ASSUME MaxRunning = 1
  PROVE  EvidenceSpec => []LatestShows
<1>1. Spec => []LatestShows
  BY LatestIsShown
<1> QED BY <1>1, Together
=============================================================================
