------------------------------- MODULE Office -------------------------------
(***************************************************************************)
(* The services around the sale of vehicles that share nothing with one    *)
(* another: contacts, e-mails, documents, visitors, consents, the erasure  *)
(* of personal data, the showroom.  A behaviour is one of these parts at   *)
(* work, since none reads what another one writes, under one of two        *)
(* schedules.                                                              *)
(***************************************************************************)
EXTENDS Leads, Documents, Visitors, Consents, Erasure, Showroom

CONSTANTS
    Parts,      \* the parts that are looked at
    Schedules   \* "alone": one handler at a time, and none dies; "overlap"

ASSUME OfficeAssumption ==
    /\ Parts \subseteq {"contacts", "followup", "mail", "documents", "visitors",
                     "consents", "banner", "erasure", "creation", "media", "sheet"}
    /\ Schedules \subseteq {"alone", "overlap"}

VARIABLES part, schedule

officeVars ==
    <<leadsVars, documentVars, visitorVars, consentVars, erasureVars, showroomVars,
      part, schedule>>

OfficeInit ==
    /\ HandlersInit
    /\ LeadsInit /\ DocumentsInit /\ VisitorsInit /\ ConsentsInit /\ ErasureInit
    /\ ShowroomInit
    /\ part \in Parts
    /\ schedule \in Schedules

\* What changes nothing but the part p and the handlers
Only(p) ==
    /\ part = p
    /\ p \in {"contacts", "followup"} \/ UNCHANGED leadVars
    /\ p \in {"contacts", "followup", "mail"} \/ UNCHANGED mailboxVars
    /\ p = "documents" \/ UNCHANGED documentVars
    /\ p = "visitors"  \/ UNCHANGED visitorVars
    /\ p \in {"consents", "banner"} \/ UNCHANGED consentVars
    /\ p = "erasure"   \/ UNCHANGED erasureVars
    /\ p \in {"creation", "media", "sheet"} \/ UNCHANGED showroomVars
    /\ UNCHANGED <<part, schedule>>

Alone == schedule = "alone"

\* Bound: runs of the job that overlap have one e-mail to fight for.
Mailed == {s \in Subjects : Alone \/ \A other \in Subjects : s <= other}

-----------------------------------------------------------------------------
OfficeRequest(w) ==
    /\ pc[w] = "idle"
    /\ Alone => Quiet
    /\ \/ Only("contacts")  /\ RequestContact(w)
       \/ Only("contacts")  /\ \E s \in Sellers : SellerLeaves(s)
       \/ Only("followup")  /\ UNCHANGED leadVars
                            /\ \E read \in {Subjects} \cup {{s} : s \in Subjects} : MarkRead(read)
       \/ Only("followup")  /\ Created = {} /\ Quiet /\ RequestContact(w)
       \/ Only("followup")  /\ FollowUp(w)
       \/ Only("mail")      /\ \E s \in Mailed : RequestEmail(w, s)
       \/ Only("documents") /\ DocumentsRequest(w)
       \/ Only("documents") /\ \E d \in Docs : ExpiryPasses(d)
       \/ Only("visitors")  /\ VisitorsRequest(w)
       \/ Only("consents")  /\ ConsentsRequest(w)
       \/ Only("erasure")   /\ ErasureRequest(w)
       \/ Only("creation")  /\ CreationRequest(w)
       \/ Only("media")     /\ MediaRequest(w)
       \/ Only("sheet")     /\ SheetRequest

\* The event loop resumes every handler.
OfficeStep(w) ==
    \/ (Only("contacts") \/ Only("followup")) /\ LeadsStep(w)
    \/ Only("mail")      /\ MailboxStep(w)
    \/ Only("documents") /\ DocumentsStep(w)
    \/ Only("visitors")  /\ VisitorsStep(w)
    \/ Only("consents")  /\ ConsentsStep(w)
    \/ Only("erasure")   /\ ErasureStep(w)
    \/ Only("creation")  /\ CreationStep(w)
    \/ Only("media")     /\ MediaStep(w)

\* The jobs are started by the clock, however busy the server is with requests.
DrainJob == \E w \in Workers :
    (Alone => Quiet) /\ Only("mail") /\ StartDrain(w)

ExpiryJob == Only("documents") /\ ExpireDocuments

DeletionJob == \E w \in Workers :
    (Alone => Quiet) /\ Only("erasure") /\ StartDeletions(w)

OfficeFails(w) ==
    /\ ~Alone
    /\ UNCHANGED <<leadVars, documentVars, visitorVars, consentVars, erasureVars, showroomVars,
                   part, schedule>>
    /\ \/ MarkSentFails(w)
       \/ Die(w) /\ UNCHANGED mailboxVars

OfficeNext ==
    \/ \E w \in Workers : OfficeRequest(w) \/ OfficeStep(w) \/ OfficeFails(w)
    \/ Only("banner") /\ BannerStep
    \/ DrainJob \/ ExpiryJob \/ DeletionJob

OfficeSpec == OfficeInit /\ [][OfficeNext]_officeVars

\* Handlers go on, and the jobs run; nothing makes a request arrive.
OfficeFairSpec ==
    /\ OfficeSpec
    /\ \A w \in Workers : WF_officeVars(OfficeStep(w))
    /\ SF_officeVars(DrainJob) /\ WF_officeVars(ExpiryJob) /\ SF_officeVars(DeletionJob)

-----------------------------------------------------------------------------
\* The rows of all services keep their shape (prisma/schema.prisma).
OfficeTypeOK ==
    /\ LeadsTypeOK /\ DocumentsTypeOK /\ VisitorsTypeOK /\ ConsentsTypeOK /\ ErasureTypeOK
    /\ ShowroomTypeOK
    /\ failures \in 0 .. MaxFailures

\* No e-mail is tried for ever, and none is marked SENT that has not left; one run at a time, and
\* without failures, none leaves twice (JobsService.processEmailQueue, jobs.service.ts:29-59).
MailIsKept == RetriesAreBounded /\ SentHasLeft /\ (Alone => DeliversOnce)

\* One run at a time, and without failures, job and requests implement Outbox: an e-mail leaves
\* once, is SENT for good when it has left, and is tried MailAttempts times at most
\* (JobsService.processEmailQueue, jobs.service.ts:29-59).
KeepsOutbox ==
    /\ Alone => Sends!Init
    /\ [][Alone => Sends!Next \/ UNCHANGED Sends!outboxVars]_officeVars

\* One request at a time, round robin gives every seller who is there a lead between two leads
\* of another one; the open leads of two sellers differ by one, or, when requests overlap, by no
\* more than the requests that may have counted the same leads (LeadsService.pickSeller,
\* leads.service.ts:45-75).
LeadsAreShared ==
    /\ Alone => SellersTakeTurns
    /\ LoadIsSpread(IF Alone THEN 1 ELSE Cardinality(Workers))

\* Nobody is notified of a lead that nobody has, or mailed without a notification, however
\* requests overlap and wherever they stop; one request at a time, firstContactAt is the date of
\* the first change to CONTACTED in the history of the lead (LeadsService.specialistContact and
\* updateStatus, leads.service.ts:155, :232).
LeadsAreFollowed ==
    /\ part = "contacts" => NoticesFollowLeads
    /\ Alone => FirstContactIsFirst

\* However uploads overlap, a document serves the file of its latest version, and no version
\* number runs ahead of the versions there are; one upload at a time leaves no gap
\* (DocumentsService.upload, documents.service.ts:160-176).
FilesFollowVersions ==
    /\ CurrentFileIsLatest
    /\ VersionsAreCounted
    /\ Alone => VersionsAreNumbered

\* One request at a time, marketing goes by the customer's last answer, through whichever of
\* three endpoints it came, and the server has the choice the visitor's browser has, unless a
\* post was lost (privacy.service.ts:50, :229, customers.service.ts:140, CookieConsent.tsx:97).
AnswersCount ==
    /\ Alone => LastAnswerCounts
    /\ BannerIsRecorded

\* A slug leads to one vehicle, a field labelled as the user's was typed by the user, and, one
\* request at a time, a vehicle has at most one main medium (VehiclesService,
\* vehicles.service.ts:34, :232, :335).
ShowroomIsClear ==
    /\ SlugsDiffer
    /\ LabelsAreHonest
    /\ Alone => OneMainMedium

\* One request at a time, data that are erased come back only by the hand of somebody whose
\* account was given back (JobsService.processPrivacyDeletions, jobs.service.ts:226).
StaysErased == [][Alone => ErasedStaysErased]_officeVars

\* Every e-mail is sent in the end or given up after its attempts, unless a crash has left it
\* in the hands of a run that is gone (jobs.service.ts:31-58).
MailSettles ==
    \A s \in Subjects :
       part = "mail" /\ Queued(s) ~>
                    \/ Queued(s) /\ mail[s].status = "SENT"
                    \/ Queued(s) /\ mail[s].attempts >= MailAttempts
                    \/ failures > 0

\* A document whose date has passed is marked or renewed, and every request of deletion is
\* worked off, whatever happens meanwhile (JobsService.checkDocuments and
\* processPrivacyDeletions, jobs.service.ts:135, :219).
JobsComplete == OverdueExpire /\ DeletionsComplete
=============================================================================
