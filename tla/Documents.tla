----------------------------- MODULE Documents ------------------------------
(***************************************************************************)
(* DocumentsService: documents, the versions of their files, and the job   *)
(* that expires documents.  An upload stores the file before it knows      *)
(* whether the rest will work, and numbers its version by a count it reads *)
(* before it inserts.                                                      *)
(*                                                                         *)
(* A file is known by the order it was stored in.                          *)
(***************************************************************************)
EXTENDS Handlers, Sequences

CONSTANTS
    Docs,        \* ids for Document rows; bound: their number
    MaxFiles     \* bound: files stored

ASSUME DocumentsAssumption == MaxFiles \in Nat

VARIABLES
    doc,       \* doc[d]: the Document row, NULL before it is created
    versions,  \* versions[d]: its DocumentVersion rows, in the order they were inserted
    files      \* the number of files the storage holds: 1 .. files

documentVars  == <<doc, versions, files>>

\* The statuses this service and its job give.
DocumentStatuses ==
    {"PENDING_REQUEST", "RECEIVED", "UNDER_REVIEW", "APPROVED", "REJECTED", "EXPIRED"}

\* file is 0 for a document without one; the expiry date is "none", to come or past.
DocumentRows ==
    [status : DocumentStatuses, file : 0 .. MaxFiles,
     expiry : {"none", "future", "past"}]

\* No row is the value that stands for the absence of one.
ASSUME NoRowAssumption == NULL \notin DocumentRows

DocumentsTypeOK ==
    /\ \A d \in Docs : doc[d] # NULL => doc[d] \in DocumentRows
    /\ \A d \in Docs : \A i \in DOMAIN versions[d] :
          versions[d][i] \in [version : Nat \ {0}, file : 1 .. files]
    /\ files \in 0 .. MaxFiles

DocumentsInit ==
    /\ doc = [d \in Docs |-> NULL]
    /\ versions = [d \in Docs |-> <<>>]
    /\ files = 0

Filed == {d \in Docs : doc[d] # NULL}

\* Whatever the request says of the dates; without a date the row keeps its own.
Redated(expiry, given) == IF given = "kept" THEN expiry ELSE given

CreateDocument(d, expiry) ==
    /\ doc[d] = NULL
    /\ doc' = [doc EXCEPT ![d] = [status |-> "PENDING_REQUEST", file |-> 0,
                                  expiry |-> Redated("none", expiry)]]
    /\ UNCHANGED <<versions, files, handlerVars>>

-----------------------------------------------------------------------------
(* upload                                                                  *)

\* storage.save comes first, for a document that exists or for a new one.
StartUpload(w, d, expiry) ==
    /\ files < MaxFiles
    /\ files' = files + 1
    /\ Begin(w, IF d = NULL THEN "upload.create" ELSE "upload.count",
             [doc |-> d, file |-> files + 1, expiry |-> expiry])
    /\ UNCHANGED <<doc, versions>>

UploadCreate(w) ==
    \E d \in Docs \ Filed :
       /\ At(w, "upload.create")
       /\ doc' = [doc EXCEPT ![d] = [status |-> "RECEIVED",
                                     file |-> 0, expiry |-> "none"]]
       /\ GotoWith(w, "upload.count", [ctx[w] EXCEPT !.doc = d])
       /\ UNCHANGED <<versions, files>>

UploadCount(w) ==
    /\ At(w, "upload.count")
    /\ GotoWith(w, "upload.write",
          [doc |-> ctx[w].doc, file |-> ctx[w].file, expiry |-> ctx[w].expiry,
           version |-> Len(versions[ctx[w].doc]) + 1])
    /\ UNCHANGED documentVars

\* Mutant: the document keeps the file of the highest version number.
UploadWriteHighest(w) ==
    LET c == ctx[w]
        rows == versions[c.doc]
    IN
    /\ At(w, "upload.write")
    /\ versions' = [versions EXCEPT ![c.doc] =
                      Append(@, [version |-> c.version, file |-> c.file])]
    /\ doc' = [doc EXCEPT ![c.doc].status = "UNDER_REVIEW",
                          ![c.doc].expiry = Redated(@, c.expiry),
                          ![c.doc].file =
                             IF \E i \in DOMAIN rows : rows[i].version >= c.version
                             THEN @ ELSE c.file]
    /\ Return(w)
    /\ UNCHANGED files

\* One transaction: the document and its new version.
UploadWrite(w) ==
    LET c == ctx[w] IN
    /\ At(w, "upload.write")
    /\ doc' = [doc EXCEPT ![c.doc].status = "UNDER_REVIEW",
                          ![c.doc].expiry = Redated(@, c.expiry),
                          ![c.doc].file = c.file]
    /\ versions' = [versions EXCEPT ![c.doc] =
                      Append(@, [version |-> c.version, file |-> c.file])]
    /\ Return(w)
    /\ UNCHANGED files

DocumentsStep(w) == UploadCreate(w) \/ UploadCount(w) \/ UploadWrite(w)

-----------------------------------------------------------------------------
\* validate looks at nothing but the id: any document is approved or rejected, whatever its
\* status, and with a file or without.
Validate(d, status) ==
    /\ d \in Filed
    /\ doc' = [doc EXCEPT ![d].status = status]
    /\ UNCHANGED <<versions, files, handlerVars>>

ExpiryPasses(d) ==
    /\ d \in Filed
    /\ doc[d].expiry = "future"
    /\ doc' = [doc EXCEPT ![d].expiry = "past"]
    /\ UNCHANGED <<versions, files, handlerVars>>

Overdue == {d \in Filed : doc[d].expiry = "past" /\ doc[d].status # "EXPIRED"}

\* checkDocuments: one statement.
ExpireDocuments ==
    /\ Overdue # {}
    /\ doc' = [d \in Docs |-> IF d \in Overdue THEN [doc[d] EXCEPT !.status = "EXPIRED"]
                              ELSE doc[d]]
    /\ UNCHANGED <<versions, files, handlerVars>>

DocumentsRequest(w) ==
    \E expiry \in {"kept", "future"}, d \in Docs :
       \/ CreateDocument(d, expiry)
       \/ StartUpload(w, NULL, expiry) /\ Docs # Filed
       \/ d \in Filed /\ StartUpload(w, d, expiry)
       \/ \E status \in {"APPROVED", "REJECTED"} : Validate(d, status)

-----------------------------------------------------------------------------
\* However uploads of a document overlap, the file it serves is the one of the version that
\* was inserted last, and no version has the file of another (documents.service.ts:164).
CurrentFileIsLatest ==
    /\ \A d \in Filed :
          doc[d].file = IF versions[d] = <<>> THEN 0 ELSE versions[d][Len(versions[d])].file
    /\ \A d, e \in Docs : \A i \in DOMAIN versions[d], j \in DOMAIN versions[e] :
          versions[d][i].file = versions[e][j].file => d = e /\ i = j

\* No version number runs ahead of the versions there are: a number is one more than a count
\* of rows that are never removed (documents.service.ts:160).
VersionsAreCounted ==
    \A d \in Docs : \A i \in DOMAIN versions[d] : versions[d][i].version <= i

\* One upload at a time, and whatever happens to the ones that fail, versions are numbered
\* without a gap; overlapping uploads that counted the same rows give a number twice.
VersionsAreNumbered ==
    \A d \in Docs : \A i \in DOMAIN versions[d] : versions[d][i].version = i

\* A document whose date has passed is marked by the daily job, or its date is renewed
\* (jobs.service.ts:135), whatever uploads and reviews happen meanwhile.
OverdueExpire ==
    \A d \in Docs : d \in Overdue ~> d \notin Overdue
=============================================================================
