--------------------------- MODULE Services_proofs ---------------------------
(***************************************************************************)
(* The other services of the office for any instance: e-mails, leads,      *)
(* consents, the showroom and the erasure of personal data.                *)
(*                                                                         *)
(* Most of what they promise holds with one request at a time.  OneAtATime *)
(* says what that gives: what a handler has read is what there is.         *)
(***************************************************************************)
EXTENDS Office_proofs

Busy(w) == pc[w] # "idle"

\* Under the schedule "alone" the handlers take turns.
OneAtATime == Alone => \A w, x \in Workers : Busy(w) /\ Busy(x) => w = x

\* Only w is somewhere else afterwards, and it begins when its turn has come.
Turns(w) ==
    /\ \A x \in Workers \ {w} : pc'[x] = pc[x] /\ ctx'[x] = ctx[x]
    /\ Alone /\ ~Busy(w) => Quiet

TurnsInv == OneAtATime /\ DOMAIN pc = Workers /\ DOMAIN ctx = Workers

LEMMA LeadsTurn ==
    ASSUME NEW w \in Workers, DOMAIN pc = Workers, DOMAIN ctx = Workers, LeadsStep(w)
    PROVE  /\ Busy(w) /\ \A x \in Workers \ {w} : pc'[x] = pc[x] /\ ctx'[x] = ctx[x]
           /\ DOMAIN pc' = Workers /\ DOMAIN ctx' = Workers
  BY DEF LeadsStep, ContactRank, ContactCreate, ContactCount, LeadWrite, LeadLog, MailboxStep,
         NotifyCreate, QueueEmail, DrainNext, DrainDone, Deliver, Bounce, MarkSent, PutBack,
         At, Goto, GotoWith, Return, Busy

LEMMA StepTurns ==
    ASSUME NEW w \in Workers, TurnsInv, OfficeStep(w) \/ OfficeFails(w)
    PROVE  /\ Busy(w) /\ \A x \in Workers \ {w} : pc'[x] = pc[x] /\ ctx'[x] = ctx[x]
           /\ DOMAIN pc' = Workers /\ DOMAIN ctx' = Workers
<1> USE DEF TurnsInv, Busy
<1>1. CASE LeadsStep(w)
  BY <1>1, LeadsTurn
<1>2. CASE MailboxStep(w)
  BY <1>2
  DEF MailboxStep, NotifyCreate, QueueEmail, DrainNext, DrainDone, Deliver, Bounce, MarkSent,
      PutBack, At, Goto, GotoWith, Return
<1>3. CASE DocumentsStep(w)
  BY <1>3 DEF DocumentsStep, UploadCreate, UploadCount, UploadWrite, At, Goto, GotoWith, Return
<1>4. CASE VisitorsStep(w)
  BY <1>4 DEF VisitorsStep, CreateFavorite, DeleteFavorite, FavoriteFails, At, Return
<1>5. CASE ConsentsStep(w)
  BY <1>5 DEF ConsentsStep, SnapshotConsent, SnapshotPreference, At, Return
<1>6. CASE ErasureStep(w)
  BY <1>6 DEF ErasureStep, WriteCustomer, CreateAddress, Anonymize, DeletionsDone, At, GotoWith, Return
<1>7. CASE CreationStep(w) \/ MediaStep(w)
  BY <1>7 DEF CreationStep, MediaStep, ProbeSlug, InsertVehicle, InsertFails, DemoteMedia,
              CreateMedia, At, Goto, GotoWith, Return
<1>8. CASE OfficeFails(w)
  BY <1>8 DEF OfficeFails, MarkSentFails, Die, At
<1> QED BY <1>1, <1>2, <1>3, <1>4, <1>5, <1>6, <1>7, <1>8 DEF OfficeStep

\* Whatever arrives begins a handler, or is settled at once.
LEMMA RequestTurns ==
    ASSUME NEW w \in Workers, TurnsInv, OfficeRequest(w)
    PROVE  /\ pc[w] = "idle" /\ (Alone => Quiet)
           /\ \A x \in Workers \ {w} : pc'[x] = pc[x] /\ ctx'[x] = ctx[x]
           /\ DOMAIN pc' = Workers /\ DOMAIN ctx' = Workers
<1> USE DEF TurnsInv
<1>1. ASSUME NEW label, NEW locals, Begin(w, label, locals)
      PROVE  /\ \A x \in Workers \ {w} : pc'[x] = pc[x] /\ ctx'[x] = ctx[x]
             /\ DOMAIN pc' = Workers /\ DOMAIN ctx' = Workers
  BY <1>1 DEF Begin
<1>2. ASSUME UNCHANGED handlerVars
      PROVE  /\ \A x \in Workers \ {w} : pc'[x] = pc[x] /\ ctx'[x] = ctx[x]
             /\ DOMAIN pc' = Workers /\ DOMAIN ctx' = Workers
  BY <1>2 DEF handlerVars
<1>3. UNCHANGED handlerVars \/ \E label, locals : Begin(w, label, locals)
  <2>1. CASE RequestContact(w) \/ (\E s \in Sellers : SellerLeaves(s)) \/ FollowUp(w)
    BY <2>1 DEF RequestContact, SellerLeaves, FollowUp, RequestLeadStatus
  <2>2. CASE \E subjects : MarkRead(subjects)
    BY <2>2 DEF MarkRead
  <2>3. CASE \E s : RequestEmail(w, s)
    BY <2>3 DEF RequestEmail
  <2>4. CASE DocumentsRequest(w)
    BY <2>4 DEF DocumentsRequest, CreateDocument, Validate, StartUpload
  <2>5. CASE \E d \in Docs : ExpiryPasses(d)
    BY <2>5 DEF ExpiryPasses
  <2>6. CASE VisitorsRequest(w)
    BY <2>6 DEF VisitorsRequest, RequestFavorite, RequestUnfavorite, TrackVehicleView
  <2>7. CASE ConsentsRequest(w)
    BY <2>7 DEF ConsentsRequest, LogConsent, StorePreference, UpdateMyConsent, TrackLocation
  <2>8. CASE ErasureRequest(w)
    BY <2>8 DEF ErasureRequest, RequestEdit, RequestAddress, Reactivate, RequestDeletion
  <2>9. CASE CreationRequest(w) \/ MediaRequest(w)
    BY <2>9 DEF CreationRequest, RequestVehicle, MediaRequest, RequestMedia, RemoveMedia, ReorderMedia
  <2>10. CASE SheetRequest
    BY <2>10 DEF SheetRequest, ApplySpecs, UpsertSpec
  <2> QED
    BY <2>1, <2>2, <2>3, <2>4, <2>5, <2>6, <2>7, <2>8, <2>9, <2>10 DEF OfficeRequest
<1>4. pc[w] = "idle" /\ (Alone => Quiet)
  BY DEF OfficeRequest
<1> QED BY <1>1, <1>2, <1>3, <1>4


LEMMA JobTurns ==
    ASSUME TurnsInv, NEW w \in Workers, StartDrain(w) \/ StartDeletions(w)
    PROVE  /\ pc[w] = "idle" /\ \A x \in Workers \ {w} : pc'[x] = pc[x] /\ ctx'[x] = ctx[x]
           /\ DOMAIN pc' = Workers /\ DOMAIN ctx' = Workers
  BY DEF StartDrain, StartDeletions, Begin, TurnsInv

LEMMA Turn ==
    ASSUME TurnsInv, [OfficeNext]_officeVars
    PROVE  /\ UNCHANGED schedule
           /\ \/ UNCHANGED <<pc, ctx>>
              \/ /\ \E w \in Workers : Turns(w)
                 /\ DOMAIN pc' = Workers /\ DOMAIN ctx' = Workers
<1>1. UNCHANGED schedule
  BY PartStays
<1>2. ASSUME NEW w \in Workers, OfficeRequest(w) \/ OfficeStep(w) \/ OfficeFails(w)
      PROVE  Turns(w) /\ DOMAIN pc' = Workers /\ DOMAIN ctx' = Workers
  BY <1>2, StepTurns, RequestTurns DEF Turns
<1>3. CASE DrainJob
  <2> PICK w \in Workers : (Alone => Quiet) /\ StartDrain(w)
    BY <1>3 DEF DrainJob
  <2>1. Turns(w) /\ DOMAIN pc' = Workers /\ DOMAIN ctx' = Workers
    BY JobTurns DEF Turns, Busy
  <2> QED BY <1>1, <2>1
<1>4. CASE DeletionJob
  <2> PICK w \in Workers : (Alone => Quiet) /\ StartDeletions(w)
    BY <1>4 DEF DeletionJob
  <2>1. Turns(w) /\ DOMAIN pc' = Workers /\ DOMAIN ctx' = Workers
    BY JobTurns DEF Turns, Busy
  <2> QED BY <1>1, <2>1
<1>5. CASE ExpiryJob
  BY <1>1, <1>5 DEF ExpiryJob, ExpireDocuments, handlerVars
<1>6. CASE BannerStep
  BY <1>1, <1>6 DEF BannerStep, Persist, RegisterVisitor, PostIsLost, handlerVars
<1>7. CASE UNCHANGED officeVars
  BY <1>1, <1>7 DEF officeVars, leadsVars, handlerVars
<1> QED BY <1>1, <1>2, <1>3, <1>4, <1>5, <1>6, <1>7 DEF OfficeNext

LEMMA TurnsStep == TurnsInv /\ [OfficeNext]_officeVars => TurnsInv'
<1> SUFFICES ASSUME TurnsInv, [OfficeNext]_officeVars PROVE TurnsInv'
  OBVIOUS
<1>1. CASE UNCHANGED <<pc, ctx>>
  BY <1>1, Turn DEF TurnsInv, OneAtATime, Alone, Busy
<1>2. ASSUME NEW w \in Workers, Turns(w), DOMAIN pc' = Workers, DOMAIN ctx' = Workers
      PROVE  TurnsInv'
  <2>1. UNCHANGED schedule
    BY Turn
  <2>2. ASSUME Alone, NEW x \in Workers \ {w} PROVE ~Busy(x)'
    <3>1. CASE Busy(w)
      BY <1>2, <2>2, <3>1 DEF TurnsInv, OneAtATime, Turns, Busy
    <3>2. CASE ~Busy(w)
      BY <1>2, <2>2, <3>2 DEF Turns, Quiet, Busy
    <3> QED BY <3>1, <3>2
  <2>3. OneAtATime'
    BY <2>1, <2>2 DEF OneAtATime, Alone
  <2> QED BY <1>2, <2>3 DEF TurnsInv
<1> QED BY <1>1, <1>2, Turn

LEMMA TurnsAlways == OfficeSpec => []TurnsInv
<1>1. OfficeInit => TurnsInv
  BY DEF OfficeInit, HandlersInit, TurnsInv, OneAtATime, Busy
<1> QED BY <1>1, TurnsStep, PTL DEF OfficeSpec

\* A handler that moves while the schedule is "alone" is the only one.
LEMMA NobodyElse ==
    ASSUME TurnsInv, [OfficeNext]_officeVars, Alone, NEW w \in Workers, Turns(w)
    PROVE  \A x \in Workers \ {w} : ~Busy(x) /\ ~Busy(x)'
<1>1. \A x \in Workers \ {w} : ~Busy(x)
  BY DEF TurnsInv, OneAtATime, Turns, Quiet, Busy
<1> QED BY <1>1 DEF Turns, Busy

-----------------------------------------------------------------------------
(* The answers of the customer and of the visitor                          *)

ConsentLabels == {"consent.snapshot", "preference.snapshot"}

\* What a handler is about to copy to the snapshot is the last thing said.
CopiesAnswer(w) ==
    /\ pc[w] = "consent.snapshot" =>
           said = IF "MARKETING" \in DOMAIN ctx[w].consents
                  THEN ctx[w].consents["MARKETING"] ELSE snapshot
    /\ pc[w] = "preference.snapshot" => said = ctx[w].optIn

AnswersOK ==
    /\ StandAt(ConsentLabels)
    /\ Alone => (Quiet => snapshot = said) /\ \A w \in Workers : CopiesAnswer(w)

\* What is posted is the choice stored, and what is not posted is recorded or lost.
BannerOK ==
    /\ banner \in [stored : Answers, posting : Answers, choices : Int]
    /\ banner.posting # NULL => banner.posting = banner.stored
    /\ BannerIsRecorded

ConsentsInv ==
    /\ TurnsInv
    /\ BannerOK
    /\ part = "consents" => AnswersOK
    /\ part # "consents" => snapshot = said

LEMMA OthersKeepConsents ==
    ASSUME [OfficeNext]_officeVars, part \notin {"consents", "banner"}
    PROVE  UNCHANGED consentVars
<1>1. ASSUME NEW w \in Workers, OfficeRequest(w) \/ OfficeStep(w) \/ OfficeFails(w)
      PROVE  UNCHANGED consentVars
  BY <1>1 DEF OfficeRequest, OfficeStep, OfficeFails, Only
<1> QED
  BY <1>1 DEF OfficeNext, officeVars, Only, DrainJob, ExpiryJob, DeletionJob

LEMMA BannerMoves ==
    ASSUME [OfficeNext]_officeVars, part = "banner"
    PROVE  BannerStep \/ UNCHANGED consentVars
<1>1. ASSUME NEW w \in Workers, OfficeRequest(w) \/ OfficeStep(w) \/ OfficeFails(w)
      PROVE  UNCHANGED consentVars
  BY <1>1 DEF OfficeRequest, OfficeStep, OfficeFails, Only
<1> QED
  BY <1>1 DEF OfficeNext, officeVars, Only, DrainJob, ExpiryJob, DeletionJob

LEMMA ConsentsMove ==
    ASSUME [OfficeNext]_officeVars, part = "consents"
    PROVE  \/ UNCHANGED <<consentVars, pc, ctx>>
           \/ \E w \in Workers :
                 \/ ConsentsRequest(w) /\ (Alone => Quiet)
                 \/ ConsentsStep(w)
                 \/ OfficeFails(w)
<1>1. ASSUME NEW w \in Workers, OfficeRequest(w)
      PROVE  ConsentsRequest(w) /\ (Alone => Quiet)
  BY <1>1 DEF OfficeRequest, Only
<1>2. ASSUME NEW w \in Workers, OfficeStep(w)
      PROVE  ConsentsStep(w)
  BY <1>2 DEF OfficeStep, Only
<1>3. CASE UNCHANGED officeVars
  BY <1>3 DEF officeVars, leadsVars, handlerVars
<1> QED
  BY <1>1, <1>2, <1>3 DEF OfficeNext, Only, DrainJob, ExpiryJob, DeletionJob

LEMMA BannerStepKept ==
    ASSUME BannerOK, BannerStep
    PROVE  BannerOK' /\ UNCHANGED customerVars
<1>1. ASSUME NEW choice \in BOOLEAN, Persist(choice)
      PROVE  BannerOK' /\ UNCHANGED customerVars
  <2>1. banner' = [stored |-> choice, posting |-> choice, choices |-> banner.choices + 1]
    BY <1>1 DEF Persist
  <2>2. banner' \in [stored : Answers, posting : Answers, choices : Int] /\ banner'.posting # NULL
    BY <2>1, ConsentsAssumption DEF BannerOK, Answers
  <2> QED BY <1>1, <2>1, <2>2 DEF BannerOK, BannerIsRecorded, Persist
<1>2. CASE RegisterVisitor
  BY <1>2 DEF RegisterVisitor, BannerOK, BannerIsRecorded, Answers
<1>3. CASE PostIsLost
  BY <1>3 DEF PostIsLost, BannerOK, BannerIsRecorded, Answers
<1> QED BY <1>1, <1>2, <1>3 DEF BannerStep

LEMMA AnswerGiven ==
    ASSUME TurnsInv, AnswersOK, NEW w \in Workers, ConsentsRequest(w), Alone => Quiet,
           UNCHANGED schedule
    PROVE  AnswersOK' /\ UNCHANGED bannerVars
<1> USE DEF AnswersOK, StandAt, ConsentLabels, CopiesAnswer, Alone, Quiet
<1>1. ASSUME NEW asked, NEW consents \in [asked -> BOOLEAN], LogConsent(w, consents)
      PROVE  AnswersOK' /\ UNCHANGED bannerVars
  BY <1>1 DEF LogConsent, Begin
<1>2. ASSUME NEW answer \in BOOLEAN, StorePreference(w, answer)
      PROVE  AnswersOK' /\ UNCHANGED bannerVars
  BY <1>2 DEF StorePreference, Begin
<1>3. ASSUME NEW answer \in BOOLEAN, UpdateMyConsent(answer)
      PROVE  AnswersOK' /\ UNCHANGED bannerVars
  BY <1>3 DEF UpdateMyConsent, handlerVars
<1>4. CASE TrackLocation
  BY <1>4 DEF TrackLocation, handlerVars
<1> QED
  BY <1>1, <1>2, <1>3, <1>4 DEF ConsentsRequest

LEMMA AnswerCopied ==
    ASSUME TurnsInv, AnswersOK, NEW w \in Workers, ConsentsStep(w), UNCHANGED schedule
    PROVE  AnswersOK' /\ UNCHANGED bannerVars
<1>1. /\ pc' = [pc EXCEPT ![w] = "idle"] /\ ctx' = [ctx EXCEPT ![w] = NULL]
      /\ pc[w] \in ConsentLabels /\ UNCHANGED said /\ UNCHANGED bannerVars
  BY DEF ConsentsStep, SnapshotConsent, SnapshotPreference, Return, At, ConsentLabels
<1>2. StandAt(ConsentLabels)'
  BY <1>1 DEF AnswersOK, StandAt
<1>3. Alone => snapshot' = said'
  BY DEF ConsentsStep, SnapshotConsent, SnapshotPreference, At, AnswersOK, CopiesAnswer
<1>4. ASSUME Alone, NEW x \in Workers PROVE pc'[x] = "idle"
  BY <1>1, <1>4 DEF TurnsInv, OneAtATime, Busy, ConsentLabels
<1> QED BY <1>1, <1>2, <1>3, <1>4 DEF AnswersOK, CopiesAnswer, Alone

LEMMA ConsentsKept == ConsentsInv /\ [OfficeNext]_officeVars => ConsentsInv'
<1> SUFFICES ASSUME ConsentsInv, [OfficeNext]_officeVars PROVE ConsentsInv'
  OBVIOUS
<1>1. TurnsInv' /\ UNCHANGED <<part, schedule>>
  BY TurnsStep, PartStays DEF ConsentsInv
<1>2. ASSUME UNCHANGED consentVars PROVE BannerOK'
  BY <1>2 DEF ConsentsInv, consentVars, BannerOK, BannerIsRecorded
<1>3. CASE part \notin {"consents", "banner"}
  BY <1>1, <1>2, <1>3, OthersKeepConsents DEF ConsentsInv, consentVars
<1>4. CASE part = "banner"
  <2>1. CASE BannerStep
    BY <1>1, <1>4, <2>1, BannerStepKept DEF ConsentsInv, customerVars
  <2> QED BY <1>1, <1>2, <1>4, <2>1, BannerMoves DEF ConsentsInv, consentVars
<1>5. CASE part = "consents"
  <2>1. TurnsInv /\ AnswersOK /\ BannerOK
    BY <1>5 DEF ConsentsInv
  <2>2. ASSUME UNCHANGED bannerVars PROVE BannerOK'
    BY <2>1, <2>2 DEF bannerVars, BannerOK, BannerIsRecorded
  <2>3. CASE UNCHANGED <<consentVars, pc, ctx>>
    BY <1>1, <2>1, <2>3 DEF AnswersOK, StandAt, CopiesAnswer, Alone, Quiet, consentVars,
       ConsentsInv, BannerOK, BannerIsRecorded
  <2>4. ASSUME NEW w \in Workers, OfficeFails(w) PROVE AnswersOK' /\ UNCHANGED bannerVars
    <3>1. ~MarkSentFails(w)
      BY <2>1 DEF MarkSentFails, At, AnswersOK, StandAt, ConsentLabels
    <3> QED BY <1>1, <2>1, <2>4, <3>1
            DEF OfficeFails, Die, AnswersOK, StandAt, Alone, consentVars, bannerVars
  <2>5. ASSUME NEW w \in Workers, (ConsentsRequest(w) /\ (Alone => Quiet)) \/ ConsentsStep(w)
        PROVE  AnswersOK' /\ UNCHANGED bannerVars
    BY <1>1, <2>1, <2>5, AnswerGiven, AnswerCopied
  <2> QED BY <1>1, <1>5, <2>2, <2>3, <2>4, <2>5, ConsentsMove DEF ConsentsInv
<1> QED BY <1>3, <1>4, <1>5

\* One request at a time, the snapshot that marketing goes by is the customer's last answer,
\* whichever endpoint took it, and the server has the choice of the visitor's browser unless a
\* post was lost (privacy.service.ts:50, :229, customers.service.ts:140, CookieConsent.tsx:97).
THEOREM LastAnswersCount == OfficeSpec => []AnswersCount
<1>1. OfficeInit => ConsentsInv
  <2> SUFFICES ASSUME OfficeInit PROVE ConsentsInv
    OBVIOUS
  <2> DEFINE nothing == [stored |-> NULL, posting |-> NULL, choices |-> 0]
  <2>0. banner = nothing /\ recorded = NULL /\ snapshot = FALSE /\ said = FALSE
    BY DEF OfficeInit, ConsentsInit
  <2>1. BannerOK /\ (snapshot <=> said)
    <3>1. nothing \in [stored : Answers, posting : Answers, choices : Int]
      BY DEF Answers
    <3>2. nothing.posting = NULL /\ nothing.stored = NULL
      OBVIOUS
    <3> QED BY <2>0, <3>1, <3>2 DEF BannerOK, BannerIsRecorded
  <2>2. TurnsInv /\ AnswersOK
    BY <2>0 DEF OfficeInit, HandlersInit, TurnsInv, OneAtATime, Busy, AnswersOK, StandAt,
            CopiesAnswer, ConsentLabels
  <2> QED BY <2>0, <2>1, <2>2 DEF ConsentsInv
<1>2. ConsentsInv => AnswersCount
  BY DEF ConsentsInv, AnswersCount, AnswersOK, LastAnswerCounts, BannerOK
<1> QED BY <1>1, <1>2, ConsentsKept, PTL DEF OfficeSpec

-----------------------------------------------------------------------------
(* The showroom                                                            *)

MediaLabels == {"media.demote", "media.create"}

Main == {m \in Shown : media[m].isMain}

AtMostOneMain == \A m, n \in Main : m = n

\* One request at a time, a new main medium is inserted where none is left.
PlaceIsFree(w) == pc[w] = "media.create" /\ ctx[w].isMain => Main = {}

MediaOK ==
    /\ StandAt(MediaLabels)
    /\ \A w \in Workers : pc[w] \in MediaLabels => ctx[w].isMain \in BOOLEAN
    /\ media \in [Media -> MediaRows \cup {NULL}]
    /\ Alone => \A w \in Workers : PlaceIsFree(w)

ShowroomInv ==
    /\ TurnsInv
    /\ DOMAIN slug = Cars /\ SlugsDiffer
    /\ LabelsAreHonest
    /\ Alone => AtMostOneMain
    /\ part = "media" => MediaOK

LEMMA SlugMoves ==
    ASSUME [OfficeNext]_officeVars
    PROVE  UNCHANGED slug \/ \E w \in Workers : InsertVehicle(w)
<1>1. ASSUME NEW w \in Workers, OfficeRequest(w) \/ OfficeFails(w)
      PROVE  UNCHANGED slug
  BY <1>1 DEF OfficeRequest, OfficeFails, Only, CreationRequest, MediaRequest, SheetRequest,
     RequestVehicle, RequestMedia, RemoveMedia, ReorderMedia, ApplySpecs, UpsertSpec, showroomVars
<1>2. ASSUME NEW w \in Workers, OfficeStep(w)
      PROVE  UNCHANGED slug \/ InsertVehicle(w)
  BY <1>2 DEF OfficeStep, Only, CreationStep, MediaStep, ProbeSlug, InsertFails, DemoteMedia,
     CreateMedia, showroomVars
<1> QED
  BY <1>1, <1>2 DEF OfficeNext, officeVars, Only, DrainJob, ExpiryJob, DeletionJob, showroomVars

LEMMA SheetMoves ==
    ASSUME [OfficeNext]_officeVars
    PROVE  UNCHANGED sheet \/ SheetRequest
<1>1. ASSUME NEW w \in Workers, OfficeRequest(w)
      PROVE  UNCHANGED sheet \/ SheetRequest
  BY <1>1 DEF OfficeRequest, Only, CreationRequest, MediaRequest, RequestVehicle, RequestMedia,
     RemoveMedia, ReorderMedia, showroomVars
<1>2. ASSUME NEW w \in Workers, OfficeStep(w) \/ OfficeFails(w)
      PROVE  UNCHANGED sheet
  BY <1>2 DEF OfficeStep, OfficeFails, Only, CreationStep, MediaStep, ProbeSlug, InsertVehicle,
     InsertFails, DemoteMedia, CreateMedia, showroomVars
<1> QED
  BY <1>1, <1>2 DEF OfficeNext, officeVars, Only, DrainJob, ExpiryJob, DeletionJob, showroomVars

LEMMA OthersKeepMedia ==
    ASSUME [OfficeNext]_officeVars, part # "media"
    PROVE  UNCHANGED media
<1>1. ASSUME NEW w \in Workers, OfficeRequest(w) \/ OfficeStep(w) \/ OfficeFails(w)
      PROVE  UNCHANGED media
  BY <1>1 DEF OfficeRequest, OfficeStep, OfficeFails, Only, CreationRequest, SheetRequest,
     RequestVehicle, ApplySpecs, UpsertSpec, CreationStep, ProbeSlug, InsertVehicle, InsertFails,
     showroomVars
<1> QED
  BY <1>1 DEF OfficeNext, officeVars, Only, DrainJob, ExpiryJob, DeletionJob, showroomVars

LEMMA MediaMove ==
    ASSUME [OfficeNext]_officeVars, part = "media"
    PROVE  \/ UNCHANGED <<media, pc, ctx>>
           \/ \E w \in Workers :
                 \/ MediaRequest(w) /\ (Alone => Quiet)
                 \/ MediaStep(w)
                 \/ OfficeFails(w)
<1>1. ASSUME NEW w \in Workers, OfficeRequest(w)
      PROVE  MediaRequest(w) /\ (Alone => Quiet)
  BY <1>1 DEF OfficeRequest, Only
<1>2. ASSUME NEW w \in Workers, OfficeStep(w)
      PROVE  MediaStep(w)
  BY <1>2 DEF OfficeStep, Only
<1>3. CASE UNCHANGED officeVars
  BY <1>3 DEF officeVars, leadsVars, handlerVars, showroomVars
<1> QED
  BY <1>1, <1>2, <1>3 DEF OfficeNext, Only, DrainJob, ExpiryJob, DeletionJob

\* Only the transaction that inserts a vehicle gives it a slug, and it looks at the key.
LEMMA SlugsKept ==
    ASSUME DOMAIN slug = Cars, SlugsDiffer, NEW w \in Workers, InsertVehicle(w)
    PROVE  DOMAIN slug' = Cars /\ SlugsDiffer'
  BY DEF InsertVehicle, Taken, SlugsDiffer

LEMMA LabelsKept ==
    ASSUME LabelsAreHonest, SheetRequest
    PROVE  LabelsAreHonest'
<1>1. ASSUME NEW known \in SUBSET Fields, NEW given \in SUBSET Fields, ApplySpecs(known, given)
      PROVE  LabelsAreHonest'
  BY <1>1, AuthorsAssumption DEF ApplySpecs, LabelsAreHonest, Authors
<1>2. ASSUME NEW typed \in SUBSET Fields, UpsertSpec(typed)
      PROVE  LabelsAreHonest'
  BY <1>2, AuthorsAssumption DEF UpsertSpec, LabelsAreHonest, Authors
<1> QED
  BY <1>1, <1>2 DEF SheetRequest

LEMMA MediaRequestKept ==
    ASSUME MediaOK, Alone => AtMostOneMain, NEW w \in Workers, MediaRequest(w), Alone => Quiet,
           UNCHANGED schedule
    PROVE  MediaOK' /\ (Alone => AtMostOneMain')
<1>1. ASSUME NEW isMain \in BOOLEAN, RequestMedia(w, isMain)
      PROVE  MediaOK' /\ (Alone => AtMostOneMain')
  <2>1. CASE isMain
    BY <1>1, <2>1 DEF RequestMedia, Begin, MediaOK, StandAt, MediaLabels, showroomVars, Alone,
       PlaceIsFree, AtMostOneMain, Main, Shown, Quiet
  <2>2. CASE ~isMain
    BY <1>1, <2>2 DEF RequestMedia, Begin, MediaOK, StandAt, MediaLabels, showroomVars, Alone,
       PlaceIsFree, AtMostOneMain, Main, Shown, Quiet
  <2> QED BY <2>1, <2>2
<1>2. ASSUME UNCHANGED handlerVars, media' \in [Media -> MediaRows \cup {NULL}], Main' \subseteq Main
      PROVE  MediaOK' /\ (Alone => AtMostOneMain')
  BY <1>2 DEF handlerVars, MediaOK, StandAt, PlaceIsFree, AtMostOneMain, Alone, Quiet
<1>3. ASSUME NEW m \in Media, RemoveMedia(m)
      PROVE  MediaOK' /\ (Alone => AtMostOneMain')
  <2>1. media' = [media EXCEPT ![m] = NULL] /\ UNCHANGED handlerVars
    BY <1>3 DEF RemoveMedia
  <2>2. media' \in [Media -> MediaRows \cup {NULL}] /\ Main' \subseteq Main
    BY <2>1 DEF MediaOK, Main, Shown
  <2> QED BY <1>2, <2>1, <2>2
<1>4. ASSUME NEW some \in SUBSET Shown, NEW order \in [some -> 0 .. 1], ReorderMedia(order)
      PROVE  MediaOK' /\ (Alone => AtMostOneMain')
  <2>1. /\ media' = [m \in Media |-> IF m \in some THEN [media[m] EXCEPT !.position = order[m]]
                                     ELSE media[m]]
        /\ UNCHANGED handlerVars
    BY <1>4 DEF ReorderMedia
  <2>2. ASSUME NEW m \in some
        PROVE  /\ m \in Media /\ media[m] \in MediaRows /\ m \in Shown
               /\ media'[m] \in MediaRows /\ media'[m].isMain = media[m].isMain
    <3>1. m \in Media /\ media[m] \in MediaRows /\ m \in Shown /\ order[m] \in 0 .. 1
      BY DEF Shown, MediaOK
    <3> QED BY <2>1, <3>1 DEF MediaRows
  <2>3. media' \in [Media -> MediaRows \cup {NULL}]
    BY <2>1, <2>2 DEF MediaOK
  <2>4. ASSUME NEW m \in Media, m \in Main' PROVE m \in Main
    BY <2>1, <2>2, <2>4 DEF Main, Shown
  <2> QED BY <1>2, <2>1, <2>3, <2>4 DEF Main, Shown
<1> QED
  BY <1>1, <1>3, <1>4 DEF MediaRequest

LEMMA MediaStepKept ==
    ASSUME TurnsInv, MediaOK, Alone => AtMostOneMain, NEW w \in Workers, MediaStep(w),
           UNCHANGED schedule
    PROVE  MediaOK' /\ (Alone => AtMostOneMain')
<1>1. ASSUME Alone, NEW x \in Workers \ {w} PROVE pc[x] = "idle"
  BY <1>1 DEF MediaStep, DemoteMedia, CreateMedia, At, TurnsInv, OneAtATime, Busy
<1>2. CASE DemoteMedia(w)
  <2>1. /\ pc[w] = "media.demote" /\ pc' = [pc EXCEPT ![w] = "media.create"] /\ ctx' = ctx
        /\ media' = [m \in Media |-> IF m \in Shown THEN [media[m] EXCEPT !.isMain = FALSE]
                                     ELSE media[m]]
    BY <1>2 DEF DemoteMedia, At, Goto
  <2>2. ASSUME NEW m \in Shown
        PROVE  m \in Media /\ media'[m] \in MediaRows /\ media'[m].isMain = FALSE
    BY <2>1 DEF Shown, MediaOK, MediaRows
  <2>3. media' \in [Media -> MediaRows \cup {NULL}] /\ Main' = {}
    BY <2>1, <2>2 DEF MediaOK, Main, Shown
  <2>4. StandAt(MediaLabels)'
    BY <2>1 DEF MediaOK, StandAt, MediaLabels
  <2>5. \A x \in Workers : pc'[x] \in MediaLabels => ctx'[x].isMain \in BOOLEAN
    BY <2>1 DEF MediaOK, StandAt, MediaLabels
  <2> QED BY <2>3, <2>4, <2>5 DEF MediaOK, PlaceIsFree, AtMostOneMain
<1>3. CASE CreateMedia(w)
  <2> PICK m \in Media \ Shown :
          /\ pc[w] = "media.create" /\ ctx[w].isMain \in BOOLEAN
          /\ media' = [media EXCEPT ![m] = [isMain |-> ctx[w].isMain, position |-> 0]]
          /\ pc' = [pc EXCEPT ![w] = "idle"] /\ ctx' = [ctx EXCEPT ![w] = NULL]
    BY <1>3 DEF CreateMedia, At, Return, MediaOK, MediaLabels
  <2>1. media' \in [Media -> MediaRows \cup {NULL}]
    BY DEF MediaOK, MediaRows
  <2>2. /\ media'[m].isMain = ctx[w].isMain
        /\ \A n \in Media \ {m} : media'[n] = media[n]
    BY DEF MediaOK
  <2>3. IF ctx[w].isMain THEN Main' \subseteq Main \cup {m} ELSE Main' \subseteq Main
    BY <2>2 DEF Main, Shown
  <2>4. Alone => AtMostOneMain'
    BY <2>3 DEF MediaOK, PlaceIsFree, AtMostOneMain
  <2>5. StandAt(MediaLabels)' /\ \A x \in Workers : pc'[x] \in MediaLabels => ctx'[x].isMain \in BOOLEAN
    BY DEF MediaOK, StandAt, MediaLabels
  <2>6. ASSUME Alone, NEW x \in Workers PROVE PlaceIsFree(x)'
    BY <1>1, <2>6 DEF PlaceIsFree, MediaOK, StandAt
  <2> QED BY <2>1, <2>4, <2>5, <2>6 DEF MediaOK, Alone
<1> QED
  BY <1>2, <1>3 DEF MediaStep

LEMMA ShowroomKept == ShowroomInv /\ [OfficeNext]_officeVars => ShowroomInv'
<1> SUFFICES ASSUME ShowroomInv, [OfficeNext]_officeVars PROVE ShowroomInv'
  OBVIOUS
<1>1. TurnsInv' /\ UNCHANGED <<part, schedule>>
  BY TurnsStep, PartStays DEF ShowroomInv
<1>2. DOMAIN slug' = Cars /\ SlugsDiffer'
  <2>1. CASE UNCHANGED slug
    BY <2>1 DEF ShowroomInv, SlugsDiffer
  <2> QED BY <2>1, SlugMoves, SlugsKept DEF ShowroomInv
<1>3. LabelsAreHonest'
  <2>1. CASE UNCHANGED sheet
    BY <2>1 DEF ShowroomInv, LabelsAreHonest
  <2> QED BY <2>1, SheetMoves, LabelsKept DEF ShowroomInv
<1>4. CASE part # "media"
  <2>1. Alone' => AtMostOneMain'
    BY <1>1, <1>4, OthersKeepMedia DEF ShowroomInv, AtMostOneMain, Main, Shown, Alone
  <2> QED BY <1>1, <1>2, <1>3, <1>4, <2>1 DEF ShowroomInv
<1>5. CASE part = "media"
  <2>1. TurnsInv /\ MediaOK /\ (Alone => AtMostOneMain)
    BY <1>5 DEF ShowroomInv
  <2>2. CASE UNCHANGED <<media, pc, ctx>>
    <3>1. Main' = Main
      BY <2>2 DEF Main, Shown
    <3>2. MediaOK'
      BY <1>1, <2>1, <2>2, <3>1 DEF MediaOK, StandAt, PlaceIsFree, Alone
    <3>3. Alone' => AtMostOneMain'
      BY <1>1, <2>1, <3>1 DEF AtMostOneMain, Alone
    <3> QED BY <1>1, <1>2, <1>3, <3>2, <3>3 DEF ShowroomInv
  <2>3. ASSUME NEW w \in Workers, OfficeFails(w)
        PROVE  MediaOK' /\ (Alone => AtMostOneMain')
    <3>1. ~MarkSentFails(w)
      BY <2>1 DEF MarkSentFails, At, MediaOK, StandAt, MediaLabels
    <3>2. ~Alone /\ pc' = [pc EXCEPT ![w] = "idle"] /\ ctx' = [ctx EXCEPT ![w] = NULL] /\ media' = media
      BY <2>3, <3>1 DEF OfficeFails, Die, showroomVars
    <3> QED BY <1>1, <2>1, <3>2 DEF MediaOK, StandAt, Alone, MediaLabels
  <2>4. ASSUME NEW w \in Workers, (MediaRequest(w) /\ (Alone => Quiet)) \/ MediaStep(w)
        PROVE  MediaOK' /\ (Alone => AtMostOneMain')
    BY <1>1, <2>1, <2>4, MediaRequestKept, MediaStepKept
  <2>5. CASE MediaOK' /\ (Alone => AtMostOneMain')
    BY <1>1, <1>2, <1>3, <2>5 DEF ShowroomInv, Alone
  <2> QED BY <1>5, <2>2, <2>3, <2>4, <2>5, MediaMove
<1> QED BY <1>4, <1>5

LEMMA AtMostOneCounts == AtMostOneMain => OneMainMedium
<1> SUFFICES ASSUME AtMostOneMain PROVE Cardinality(Main) <= 1
  BY DEF OneMainMedium, Main
<1>1. CASE Main = {}
  BY <1>1, FS_EmptySet
<1>2. CASE Main # {}
  <2> PICK m \in Main : TRUE
    BY <1>2
  <2>1. Main = {m}
    BY DEF AtMostOneMain
  <2>2. Cardinality({m}) = 1
    BY FS_Singleton
  <2> QED BY <2>1, <2>2
<1> QED BY <1>1, <1>2

\* However creations overlap a slug leads to one vehicle, a field labelled as the user's was
\* typed by the user, and, one request at a time, a vehicle has at most one main medium
\* (VehiclesService.uniqueSlug, applySpecs and addMedia, vehicles.service.ts:33, :232, :335).
THEOREM ShowroomStaysClear == OfficeSpec => []ShowroomIsClear
<1>1. OfficeInit => ShowroomInv
  <2> SUFFICES ASSUME OfficeInit PROVE ShowroomInv
    OBVIOUS
  <2>1. slug = [c \in Cars |-> NULL] /\ media = [m \in Media |-> NULL]
    BY DEF OfficeInit, ShowroomInit
  <2>2. LabelsAreHonest
    BY AuthorsAssumption DEF OfficeInit, ShowroomInit, LabelsAreHonest, Authors
  <2>3. TurnsInv /\ StandAt(MediaLabels) /\ \A w \in Workers : pc[w] = "idle"
    BY DEF OfficeInit, HandlersInit, TurnsInv, OneAtATime, Busy, StandAt
  <2>4. AtMostOneMain
    BY <2>1 DEF AtMostOneMain, Main, Shown
  <2> QED BY <2>1, <2>2, <2>3, <2>4 DEF ShowroomInv, SlugsDiffer, MediaOK, PlaceIsFree, MediaLabels
<1>2. ShowroomInv => ShowroomIsClear
  BY AtMostOneCounts DEF ShowroomInv, ShowroomIsClear
<1> QED BY <1>1, <1>2, ShowroomKept, PTL DEF OfficeSpec


-----------------------------------------------------------------------------
(* The erasure of personal data                                            *)

WriteLabels == {"customer.write", "address.create"}

ErasureLabels == WriteLabels \cup {"deletions.next"}

\* Whom a handler is about to write to is still somebody who may be written to.
MayWrite(w) ==
    pc[w] \in WriteLabels =>
        /\ ctx[w].customer \in Clients
        /\ customer[ctx[w].customer].anonymized => customer[ctx[w].customer].account = "ACTIVE"

ErasureInv ==
    /\ TurnsInv
    /\ customer \in [Clients -> CustomerRows]
    /\ part = "erasure" => StandAt(ErasureLabels)
    /\ part = "erasure" /\ Alone => \A w \in Workers : MayWrite(w)

LEMMA OthersKeepCustomers ==
    ASSUME [OfficeNext]_officeVars, part # "erasure"
    PROVE  UNCHANGED customer
<1>1. ASSUME NEW w \in Workers, OfficeRequest(w) \/ OfficeStep(w) \/ OfficeFails(w)
      PROVE  UNCHANGED customer
  BY <1>1 DEF OfficeRequest, OfficeStep, OfficeFails, Only, erasureVars
<1> QED
  BY <1>1 DEF OfficeNext, officeVars, Only, DrainJob, ExpiryJob, DeletionJob, erasureVars

LEMMA ErasureMoves ==
    ASSUME [OfficeNext]_officeVars, part = "erasure"
    PROVE  \/ UNCHANGED <<customer, pc, ctx>>
           \/ \E w \in Workers :
                 \/ ErasureRequest(w) /\ (Alone => Quiet)
                 \/ ErasureStep(w)
                 \/ OfficeFails(w)
                 \/ StartDeletions(w) /\ (Alone => Quiet)
<1>1. ASSUME NEW w \in Workers, OfficeRequest(w)
      PROVE  ErasureRequest(w) /\ (Alone => Quiet)
  BY <1>1 DEF OfficeRequest, Only
<1>2. ASSUME NEW w \in Workers, OfficeStep(w)
      PROVE  ErasureStep(w)
  BY <1>2 DEF OfficeStep, Only
<1>3. CASE UNCHANGED officeVars
  BY <1>3 DEF officeVars, leadsVars, handlerVars, erasureVars
<1> QED
  BY <1>1, <1>2, <1>3 DEF OfficeNext, Only, DrainJob, ExpiryJob, DeletionJob

LEMMA ErasureRequestKept ==
    ASSUME ErasureInv, part = "erasure", NEW w \in Workers,
           ErasureRequest(w) \/ StartDeletions(w), Alone => Quiet, UNCHANGED schedule
    PROVE  /\ customer' \in [Clients -> CustomerRows] /\ StandAt(ErasureLabels)'
           /\ Alone => \A x \in Workers : MayWrite(x)'
           /\ ErasedStaysErased
<1> DEFINE Kept == /\ customer' \in [Clients -> CustomerRows] /\ StandAt(ErasureLabels)'
                   /\ Alone => \A x \in Workers : MayWrite(x)'
                   /\ ErasedStaysErased
<1>1. ASSUME NEW c \in Clients, RequestEdit(w, c) \/ RequestAddress(w, c)
      PROVE  Kept
  <2>1. PICK label \in WriteLabels :
           /\ pc' = [pc EXCEPT ![w] = label] /\ ctx' = [ctx EXCEPT ![w] = [customer |-> c]]
    BY <1>1 DEF RequestEdit, RequestAddress, Begin, WriteLabels
  <2>2. /\ UNCHANGED customer
        /\ customer[c].anonymized => customer[c].account = "ACTIVE"
    BY <1>1 DEF RequestEdit, RequestAddress, erasureVars, Admits, Listed
  <2>3. StandAt(ErasureLabels)'
    BY <2>1 DEF ErasureInv, StandAt, ErasureLabels
  <2>4. ASSUME Alone, NEW x \in Workers PROVE MayWrite(x)'
    <3>1. CASE x = w
      BY <2>1, <2>2, <3>1 DEF MayWrite, ErasureInv, StandAt
    <3>2. CASE x # w
      BY <2>1, <2>4, <3>2 DEF MayWrite, ErasureInv, StandAt, Quiet, WriteLabels
    <3> QED BY <3>1, <3>2
  <2> QED BY <2>2, <2>3, <2>4 DEF ErasureInv, ErasedStaysErased
<1>2. ASSUME NEW c \in Clients, Reactivate(c)
      PROVE  Kept
  <2>1. customer' \in [Clients -> CustomerRows]
    BY <1>2 DEF Reactivate, ErasureInv, CustomerRows
  <2>2. ASSUME NEW d \in Clients
        PROVE  /\ customer'[d].personal = customer[d].personal
               /\ customer'[d].addresses = customer[d].addresses
    BY <1>2 DEF Reactivate, ErasureInv, CustomerRows
  <2>3. UNCHANGED handlerVars
    BY <1>2 DEF Reactivate
  <2>4. ErasedStaysErased
    BY <2>2 DEF ErasedStaysErased
  <2>5. ASSUME Alone, NEW x \in Workers PROVE MayWrite(x)'
    BY <2>3, <2>5 DEF MayWrite, Quiet, WriteLabels, handlerVars
  <2>6. StandAt(ErasureLabels)'
    BY <2>3 DEF ErasureInv, StandAt, handlerVars
  <2> QED BY <2>1, <2>4, <2>5, <2>6
<1>3. ASSUME NEW c \in Clients, NEW r \in Requests, RequestDeletion(r, c)
      PROVE  Kept
  <2>1. UNCHANGED <<customer, pc, ctx>>
    BY <1>3 DEF RequestDeletion, handlerVars
  <2> QED BY <2>1 DEF ErasureInv, StandAt, MayWrite, ErasedStaysErased
<1>4. CASE StartDeletions(w)
  <2>1. /\ UNCHANGED customer /\ pc' = [pc EXCEPT ![w] = "deletions.next"]
        /\ ctx' = [ctx EXCEPT ![w] = [todo |-> PendingDeletions]]
    BY <1>4 DEF StartDeletions, Begin, erasureVars
  <2>2. StandAt(ErasureLabels)'
    BY <2>1 DEF ErasureInv, StandAt, ErasureLabels
  <2>3. ASSUME Alone, NEW x \in Workers PROVE MayWrite(x)'
    BY <2>1, <2>3 DEF MayWrite, ErasureInv, StandAt, Quiet, WriteLabels
  <2> QED BY <2>1, <2>2, <2>3 DEF ErasureInv, ErasedStaysErased
<1> QED BY <1>1, <1>2, <1>3, <1>4 DEF ErasureRequest

LEMMA ErasureStepKept ==
    ASSUME ErasureInv, part = "erasure", NEW w \in Workers, ErasureStep(w), UNCHANGED schedule
    PROVE  /\ customer' \in [Clients -> CustomerRows] /\ StandAt(ErasureLabels)'
           /\ Alone => (\A x \in Workers : MayWrite(x)') /\ ErasedStaysErased
<1> DEFINE Erased == [personal |-> FALSE, addresses |-> FALSE, anonymized |-> TRUE,
                      account |-> "INACTIVE"]
<1>1. Busy(w)
  BY DEF ErasureStep, WriteCustomer, CreateAddress, Anonymize, DeletionsDone, At, Busy
<1>2. ASSUME Alone, NEW x \in Workers \ {w} PROVE pc[x] = "idle"
  BY <1>1, <1>2 DEF ErasureInv, TurnsInv, OneAtATime, Busy
<1>3. /\ pc'[w] \in {"idle", "deletions.next"}
      /\ pc' = [pc EXCEPT ![w] = pc'[w]] /\ ctx' = [ctx EXCEPT ![w] = ctx'[w]]
  BY DEF ErasureInv, StandAt, ErasureLabels, ErasureStep, WriteCustomer, CreateAddress, Anonymize,
     DeletionsDone, GotoWith, Return
<1>4. StandAt(ErasureLabels)'
  BY <1>3 DEF ErasureInv, StandAt, ErasureLabels
<1>5. ASSUME Alone, NEW x \in Workers PROVE MayWrite(x)'
  BY <1>2, <1>3, <1>5 DEF ErasureInv, StandAt, MayWrite, WriteLabels
<1>6. CASE WriteCustomer(w)
  <2>1. pc[w] \in WriteLabels /\ customer' = [customer EXCEPT ![ctx[w].customer].personal = TRUE]
    BY <1>6 DEF WriteCustomer, At, WriteLabels
  <2>2. customer' \in [Clients -> CustomerRows]
    BY <2>1 DEF ErasureInv, CustomerRows
  <2>3. Alone => ErasedStaysErased
    BY <2>1 DEF ErasureInv, CustomerRows, MayWrite, ErasedStaysErased
  <2> QED BY <1>4, <1>5, <2>2, <2>3
<1>7. CASE CreateAddress(w)
  <2>1. pc[w] \in WriteLabels /\ customer' = [customer EXCEPT ![ctx[w].customer].addresses = TRUE]
    BY <1>7 DEF CreateAddress, At, WriteLabels
  <2>2. customer' \in [Clients -> CustomerRows]
    BY <2>1 DEF ErasureInv, CustomerRows
  <2>3. Alone => ErasedStaysErased
    BY <2>1 DEF ErasureInv, CustomerRows, MayWrite, ErasedStaysErased
  <2> QED BY <1>4, <1>5, <2>2, <2>3
<1>8. CASE Anonymize(w)
  <2> PICK c : customer' = [customer EXCEPT ![c] = Erased]
    BY <1>8 DEF Anonymize
  <2>1. Erased \in CustomerRows /\ ~Erased.personal /\ ~Erased.addresses
    BY DEF CustomerRows
  <2> HIDE DEF Erased
  <2>2. customer' \in [Clients -> CustomerRows]
    BY <2>1 DEF ErasureInv
  <2>3. ErasedStaysErased
    BY <2>1 DEF ErasureInv, ErasedStaysErased
  <2> QED BY <1>4, <1>5, <2>2, <2>3
<1>9. CASE DeletionsDone(w)
  BY <1>4, <1>5, <1>9 DEF DeletionsDone, erasureVars, ErasureInv, ErasedStaysErased
<1> QED BY <1>6, <1>7, <1>8, <1>9 DEF ErasureStep

LEMMA ErasureKept ==
    ErasureInv /\ [OfficeNext]_officeVars => ErasureInv' /\ (Alone => ErasedStaysErased)
<1> SUFFICES ASSUME ErasureInv, [OfficeNext]_officeVars
             PROVE  ErasureInv' /\ (Alone => ErasedStaysErased)
  OBVIOUS
<1>1. TurnsInv' /\ UNCHANGED <<part, schedule>>
  BY TurnsStep, PartStays DEF ErasureInv
<1>2. CASE part # "erasure"
  BY <1>1, <1>2, OthersKeepCustomers DEF ErasureInv, ErasedStaysErased
<1>3. CASE part = "erasure"
  <2>1. CASE UNCHANGED <<customer, pc, ctx>>
    BY <1>1, <2>1 DEF ErasureInv, StandAt, MayWrite, Alone, ErasedStaysErased
  <2>2. ASSUME NEW w \in Workers, OfficeFails(w)
        PROVE  ErasureInv' /\ (Alone => ErasedStaysErased)
    <3>1. ~MarkSentFails(w)
      BY <1>3 DEF MarkSentFails, At, ErasureInv, StandAt, ErasureLabels, WriteLabels
    <3>2. ~Alone /\ pc' = [pc EXCEPT ![w] = "idle"] /\ ctx' = [ctx EXCEPT ![w] = NULL]
          /\ UNCHANGED customer
      BY <2>2, <3>1 DEF OfficeFails, Die, erasureVars
    <3> QED BY <1>1, <3>2 DEF ErasureInv, StandAt, Alone
  <2>3. ASSUME NEW w \in Workers, \/ (ErasureRequest(w) \/ StartDeletions(w)) /\ (Alone => Quiet)
                                  \/ ErasureStep(w)
        PROVE  ErasureInv' /\ (Alone => ErasedStaysErased)
    <3>1. /\ customer' \in [Clients -> CustomerRows] /\ StandAt(ErasureLabels)'
          /\ Alone => (\A x \in Workers : MayWrite(x)') /\ ErasedStaysErased
      BY <1>1, <1>3, <2>3, ErasureRequestKept, ErasureStepKept
    <3> QED BY <1>1, <3>1 DEF ErasureInv, Alone
  <2> QED BY <1>3, <2>1, <2>2, <2>3, ErasureMoves
<1> QED BY <1>2, <1>3

\* One request at a time, data that the job has erased come back only by the hand of somebody
\* whose account was given back: what admits a request, the account or the list of the staff,
\* still holds when it writes (JobsService.processPrivacyDeletions, jobs.service.ts:226,
\* CustomersService.update, customers.service.ts:66).
THEOREM ErasedStaysAway == OfficeSpec => StaysErased
<1>1. OfficeInit => ErasureInv
  <2> SUFFICES ASSUME OfficeInit PROVE ErasureInv
    OBVIOUS
  <2>1. customer \in [Clients -> CustomerRows]
    BY DEF OfficeInit, ErasureInit, CustomerRows
  <2>2. TurnsInv /\ StandAt(ErasureLabels) /\ \A w \in Workers : pc[w] = "idle"
    BY DEF OfficeInit, HandlersInit, TurnsInv, OneAtATime, Busy, StandAt
  <2> QED BY <2>1, <2>2 DEF ErasureInv, MayWrite, WriteLabels
<1>2. ErasureInv /\ [OfficeNext]_officeVars => [Alone => ErasedStaysErased]_officeVars
  BY ErasureKept
<1> QED BY <1>1, <1>2, ErasureKept, PTL DEF OfficeSpec, StaysErased

-----------------------------------------------------------------------------
(* The e-mail queue                                                        *)

DrainLabels == {"drain.next", "drain.send", "drain.sent", "drain.back"}

SendLabels == DrainLabels \ {"drain.next"}

\* A run of the job that may still add an attempt to the e-mail
Holds(w, s) ==
    \/ pc[w] \in DrainLabels /\ s \in ctx[w].batch
    \/ pc[w] \in SendLabels /\ s = ctx[w].subject

Holders(s) == {w \in Workers : Holds(w, s)}

Fresh == [status |-> "PENDING", attempts |-> 0, delivered |-> 0]

MailTyped ==
    /\ mail \in [Subjects -> MailRows \cup {NULL}]
    /\ StandAt({"notify.queue"} \cup DrainLabels)

\* An e-mail is queued once, and what a run has taken is queued.
QueueOK(w) ==
    pc[w] = "notify.queue" =>
        /\ ctx[w].subject \in Subjects /\ ~Queued(ctx[w].subject)
        /\ \A x \in Workers \ {w} : pc[x] = "notify.queue" => ctx[x].subject # ctx[w].subject

DrainOK(w) ==
    /\ pc[w] \in DrainLabels =>
           ctx[w].batch \subseteq Subjects /\ \A s \in ctx[w].batch : Queued(s)
    /\ pc[w] \in SendLabels =>
           /\ ctx[w].subject \in Subjects /\ Queued(ctx[w].subject)
           /\ ctx[w].subject \notin ctx[w].batch
    /\ pc[w] = "drain.sent" => mail[ctx[w].subject].delivered > 0

\* The runs at work leave room for the attempts they may add.
AttemptsOK ==
    \A s \in Subjects : Queued(s) =>
        mail[s].attempts + Cardinality(Holders(s)) < MailAttempts + Cardinality(Workers)

\* One run at a time: what it has not come to is pending, and what is pending has not left.
TurnOK(w) ==
    /\ pc[w] \in DrainLabels => \A s \in ctx[w].batch : mail[s].status = "PENDING"
    /\ pc[w] \in SendLabels => mail[ctx[w].subject].status = "PROCESSING"
    /\ pc[w] \in {"drain.send", "drain.back"} => mail[ctx[w].subject].delivered = 0

OnceOK ==
    /\ DeliversOnce
    /\ \A s \in Subjects : Queued(s) /\ mail[s].status = "PENDING" => mail[s].delivered = 0
    /\ \A w \in Workers : TurnOK(w)

DrainInv ==
    /\ MailTyped
    /\ \A w \in Workers : QueueOK(w) /\ DrainOK(w)
    /\ SentHasLeft
    /\ AttemptsOK
    /\ Alone => OnceOK

LEMMA LeastOfTwo ==
    ASSUME NEW a \in Int, NEW b \in Int
    PROVE  Min({a, b}) = IF a <= b THEN a ELSE b
<1> DEFINE least == IF a <= b THEN a ELSE b
<1>1. least \in {a, b} /\ \A y \in {a, b} : least <= y
  OBVIOUS
<1>2. \A x \in {a, b} : (\A y \in {a, b} : x <= y) => x = least
  OBVIOUS
<1> QED BY <1>1, <1>2 DEF Min

LEMMA HoldersCount ==
    ASSUME NEW s
    PROVE  /\ Cardinality(Holders(s)) \in Nat /\ Cardinality(Workers) \in Nat
           /\ Cardinality(Holders(s)) <= Cardinality(Workers)
<1>1. Holders(s) \subseteq Workers /\ IsFiniteSet(Workers)
  BY HandlersAssumption DEF Holders
<1> QED BY <1>1, FS_Subset, FS_CardinalityType

\* What a run that goes on may do with the attempts: keep them, or turn its own claim on an
\* e-mail into one.
LEMMA AttemptsKept ==
    ASSUME AttemptsOK, NEW w \in Workers, mail' \in [Subjects -> MailRows \cup {NULL}],
           mail \in [Subjects -> MailRows \cup {NULL}],
           \A x \in Workers \ {w} : pc'[x] = pc[x] /\ ctx'[x] = ctx[x],
           \A s \in Subjects : Queued(s) /\ Queued(s)' =>
               \/ mail'[s].attempts = mail[s].attempts
               \/ mail'[s].attempts = mail[s].attempts + 1 /\ Holds(w, s) /\ ~Holds(w, s)',
           \A s \in Subjects : Queued(s)' /\ ~Queued(s) => mail'[s].attempts < MailAttempts,
           \A s \in Subjects : Holds(w, s)' => Holds(w, s) \/ mail'[s].attempts < MailAttempts
    PROVE  AttemptsOK'
<1> SUFFICES ASSUME NEW s \in Subjects, Queued(s)'
             PROVE  mail'[s].attempts + Cardinality(Holders(s)') < MailAttempts + Cardinality(Workers)
  BY DEF AttemptsOK
<1>1. mail'[s].attempts \in Nat /\ (Queued(s) => mail[s].attempts \in Nat)
  BY DEF Queued, MailRows
<1>2. /\ Cardinality(Holders(s)) \in Nat /\ Cardinality(Workers) \in Nat /\ MailAttempts \in Nat
      /\ IsFiniteSet(Holders(s))
  BY HoldersCount, HandlersAssumption, MailboxAssumption, FS_Subset DEF Holders
<1>3. Cardinality(Holders(s)') \in Nat /\ Cardinality(Holders(s)') <= Cardinality(Workers)
  <2>1. Holders(s)' \subseteq Workers /\ IsFiniteSet(Workers)
    BY HandlersAssumption DEF Holders
  <2> QED BY <2>1, FS_Subset, FS_CardinalityType
<1>4. CASE mail'[s].attempts < MailAttempts
  BY <1>1, <1>2, <1>3, <1>4
<1>5. CASE Queued(s) /\ ~(mail'[s].attempts < MailAttempts)
  <2>1. mail[s].attempts + Cardinality(Holders(s)) < MailAttempts + Cardinality(Workers)
    BY <1>5 DEF AttemptsOK
  <2>2. \A x \in Workers \ {w} : Holds(x, s)' <=> Holds(x, s)
    BY DEF Holds
  <2>3. Holders(s)' \subseteq Holders(s)
    BY <1>5, <2>2 DEF Holders
  <2>4. Cardinality(Holders(s)') <= Cardinality(Holders(s))
    BY <1>2, <2>3, FS_Subset
  <2>5. CASE mail'[s].attempts = mail[s].attempts
    BY <1>1, <1>2, <1>3, <1>5, <2>1, <2>4, <2>5
  <2>6. CASE mail'[s].attempts = mail[s].attempts + 1 /\ Holds(w, s) /\ ~Holds(w, s)'
    <3>1. Holders(s)' \subseteq Holders(s) \ {w} /\ w \in Holders(s)
      BY <2>3, <2>6 DEF Holders
    <3>2. /\ IsFiniteSet(Holders(s) \ {w})
          /\ Cardinality(Holders(s) \ {w}) = Cardinality(Holders(s)) - 1
      BY <1>2, <3>1, FS_RemoveElement
    <3>3. Cardinality(Holders(s)') <= Cardinality(Holders(s)) - 1
      BY <3>1, <3>2, FS_Subset
    <3> QED BY <1>1, <1>2, <1>3, <1>5, <2>1, <2>6, <3>3
  <2> QED BY <1>5, <2>5, <2>6
<1> QED BY <1>4, <1>5

\* Only w is somewhere else.
GoesOn(w, label, locals) ==
    /\ pc' = [pc EXCEPT ![w] = label]
    /\ DOMAIN ctx' = Workers /\ ctx'[w] = locals
    /\ \A x \in Workers \ {w} : ctx'[x] = ctx[x]

LEMMA GoesOnWith ==
    ASSUME DrainInv, NEW w \in Workers, NEW label, NEW locals,
           pc' = [pc EXCEPT ![w] = label], ctx' = [ctx EXCEPT ![w] = locals]
    PROVE  GoesOn(w, label, locals)
  BY DEF DrainInv, MailTyped, StandAt, GoesOn

\* A handler that goes on leaves the others what they rest on.
LEMMA DrainMoves ==
    ASSUME TurnsInv, DrainInv, NEW w \in Workers, UNCHANGED schedule,
           NEW label \in {"idle", "notify.queue"} \cup DrainLabels, NEW locals,
           GoesOn(w, label, locals),
           Alone => \A x \in Workers \ {w} : pc[x] = "idle",
           mail' \in [Subjects -> MailRows \cup {NULL}],
           \A s \in Subjects : Queued(s) =>
               /\ Queued(s)'
               /\ mail[s].delivered > 0 => mail'[s].delivered > 0
               /\ \/ mail'[s].attempts = mail[s].attempts
                  \/ mail'[s].attempts = mail[s].attempts + 1 /\ Holds(w, s) /\ ~Holds(w, s)',
           \A s \in Subjects : Queued(s)' /\ ~Queued(s) =>
               pc[w] = "notify.queue" /\ ctx[w].subject = s /\ mail'[s].attempts = 0,
           \A s \in Subjects : Holds(w, s)' => Holds(w, s) \/ mail'[s].attempts < MailAttempts,
           label = "notify.queue" =>
               /\ locals.subject \in Subjects /\ ~Queued(locals.subject) /\ UNCHANGED mail
               /\ \A x \in Workers \ {w} : pc[x] = "notify.queue" => ctx[x].subject # locals.subject,
           DrainOK(w)', SentHasLeft',
           Alone => /\ TurnOK(w)' /\ DeliversOnce'
                    /\ \A s \in Subjects :
                          Queued(s)' /\ mail'[s].status = "PENDING" => mail'[s].delivered = 0
    PROVE  DrainInv'
<1>1. /\ mail \in [Subjects -> MailRows \cup {NULL}] /\ StandAt({"notify.queue"} \cup DrainLabels)
      /\ \A x \in Workers : QueueOK(x) /\ DrainOK(x)
  BY DEF DrainInv, MailTyped
<1>2. \A x \in Workers \ {w} : pc'[x] = pc[x] /\ ctx'[x] = ctx[x]
  BY <1>1 DEF StandAt, GoesOn
<1>3. pc'[w] = label /\ ctx'[w] = locals
  BY <1>1 DEF StandAt, GoesOn
<1>4. MailTyped'
  BY <1>1 DEF MailTyped, StandAt, GoesOn
<1>5. ASSUME NEW x \in Workers \ {w} PROVE DrainOK(x)'
  <2>1. CASE pc[x] \notin DrainLabels
    BY <1>2, <2>1 DEF DrainOK, SendLabels, DrainLabels
  <2>2. CASE pc[x] \in DrainLabels
    <3>1. ctx[x].batch \subseteq Subjects /\ \A s \in ctx[x].batch : Queued(s)
      BY <1>1, <2>2 DEF DrainOK
    <3>2. \A s \in ctx[x].batch : Queued(s)'
      BY <3>1
    <3>3. pc[x] \in SendLabels =>
             ctx[x].subject \in Subjects /\ Queued(ctx[x].subject) /\ ctx[x].subject \notin ctx[x].batch
      BY <1>1 DEF DrainOK
    <3>4. pc[x] = "drain.sent" => mail'[ctx[x].subject].delivered > 0
      BY <1>1, <3>3 DEF DrainOK, SendLabels, DrainLabels
    <3>5. pc[x] \in SendLabels => mail'[ctx[x].subject] # NULL
      BY <3>3 DEF Queued
    <3> QED BY <1>2, <3>1, <3>2, <3>3, <3>4, <3>5 DEF DrainOK, Queued
  <2> QED BY <2>1, <2>2
<1>6. ASSUME NEW x \in Workers, pc'[x] = "notify.queue"
      PROVE  QueueOK(x)'
  <2>1. CASE x = w
    BY <1>2, <1>3, <1>6, <2>1 DEF QueueOK, Queued
  <2>2. CASE x # w
    <3>1. /\ pc[x] = "notify.queue" /\ ctx[x].subject \in Subjects /\ ~Queued(ctx[x].subject)
          /\ \A y \in Workers \ {x} : pc[y] = "notify.queue" => ctx[y].subject # ctx[x].subject
      BY <1>1, <1>2, <1>6, <2>2 DEF QueueOK
    <3>2. mail'[ctx[x].subject] = NULL
      BY <2>2, <3>1 DEF Queued
    <3>3. ASSUME NEW y \in Workers \ {x}, pc'[y] = "notify.queue"
          PROVE  ctx'[y].subject # ctx[x].subject
      BY <1>2, <1>3, <2>2, <3>1, <3>3
    <3> QED BY <1>2, <2>2, <3>1, <3>2, <3>3 DEF QueueOK, Queued
  <2> QED BY <2>1, <2>2
<1>7. AttemptsOK'
  <2>1. \A s \in Subjects : Queued(s)' /\ ~Queued(s) => mail'[s].attempts < MailAttempts
    BY MailboxAssumption
  <2> QED BY <1>1, <1>2, <2>1, AttemptsKept DEF DrainInv
<1>8. ASSUME Alone PROVE OnceOK'
  <2>1. ASSUME NEW x \in Workers PROVE TurnOK(x)'
    <3>1. CASE x = w
      BY <1>8, <3>1
    <3>2. CASE x # w
      BY <1>2, <1>8, <3>2 DEF TurnOK, SendLabels, DrainLabels
    <3> QED BY <3>1, <3>2
  <2> QED BY <1>8, <2>1 DEF OnceOK, Queued
<1>9. \A x \in Workers : QueueOK(x)' /\ DrainOK(x)'
  BY <1>5, <1>6 DEF QueueOK
<1> QED BY <1>4, <1>7, <1>8, <1>9 DEF DrainInv, Alone


\* A run that stands somewhere stands there alone, where requests take turns.
LEMMA OthersIdle ==
    ASSUME TurnsInv, NEW w \in Workers, pc[w] # "idle"
    PROVE  Alone => \A x \in Workers \ {w} : pc[x] = "idle"
  BY DEF TurnsInv, OneAtATime, Busy

LEMMA RequestEmailKept ==
    ASSUME TurnsInv, DrainInv, NEW w \in Workers, NEW s \in Subjects, RequestEmail(w, s),
           Alone => Quiet, UNCHANGED schedule
    PROVE  DrainInv'
<1> DEFINE locals == [subject |-> s]
<1>1. /\ pc[w] = "idle" /\ ~Queued(s) /\ UNCHANGED mail
      /\ pc' = [pc EXCEPT ![w] = "notify.queue"] /\ ctx' = [ctx EXCEPT ![w] = locals]
      /\ \A x \in Workers : pc[x] = "notify.queue" => ctx[x].subject # s
  BY DEF RequestEmail, Begin, mailboxVars, At
<1>2. pc'[w] = "notify.queue" /\ mail \in [Subjects -> MailRows \cup {NULL}] /\ locals.subject = s
  BY <1>1 DEF DrainInv, MailTyped, StandAt
<1>3. \A t \in Subjects : ~Holds(w, t)'
  BY <1>2 DEF Holds, SendLabels, DrainLabels
<1>4. DrainOK(w)' /\ TurnOK(w)'
  BY <1>2 DEF DrainOK, TurnOK, SendLabels, DrainLabels
<1>5. SentHasLeft'
  BY <1>1 DEF DrainInv, SentHasLeft, Queued
<1>6. Alone => /\ DeliversOnce'
               /\ \A t \in Subjects : Queued(t)' /\ mail'[t].status = "PENDING" => mail'[t].delivered = 0
  BY <1>1 DEF DrainInv, OnceOK, DeliversOnce, Queued
<1>7. Alone => \A x \in Workers \ {w} : pc[x] = "idle"
  BY DEF Quiet
<1>8. \A t \in Subjects : Queued(t)' <=> Queued(t)
  BY <1>1 DEF Queued
<1> HIDE DEF locals
<1> QED BY <1>1, <1>2, <1>3, <1>4, <1>5, <1>6, <1>7, <1>8, GoesOnWith, DrainMoves

LEMMA StartDrainKept ==
    ASSUME TurnsInv, DrainInv, NEW w \in Workers, StartDrain(w), Alone => Quiet, UNCHANGED schedule
    PROVE  DrainInv'
<1> PICK batch \in SUBSET Pending :
        pc[w] = "idle" /\ pc' = [pc EXCEPT ![w] = "drain.next"] /\ UNCHANGED mail
        /\ ctx' = [ctx EXCEPT ![w] = [batch |-> batch]]
  BY DEF StartDrain, Begin, mailboxVars, kSubset
<1> DEFINE locals == [batch |-> batch]
<1>1. pc'[w] = "drain.next" /\ ctx'[w] = locals /\ mail \in [Subjects -> MailRows \cup {NULL}]
  BY DEF DrainInv, MailTyped, StandAt
<1>2. \A t \in batch : t \in Subjects /\ Queued(t) /\ mail[t].status = "PENDING"
                       /\ mail[t].attempts < MailAttempts
  BY DEF Pending
<1>3. \A t \in Subjects : Holds(w, t)' => t \in batch
  BY <1>1 DEF Holds, SendLabels, DrainLabels
<1>4. DrainOK(w)' /\ TurnOK(w)'
  BY <1>1, <1>2 DEF DrainOK, TurnOK, SendLabels, DrainLabels, Queued
<1>5. SentHasLeft'
  BY DEF DrainInv, SentHasLeft, Queued
<1>6. Alone => /\ DeliversOnce'
               /\ \A t \in Subjects : Queued(t)' /\ mail'[t].status = "PENDING" => mail'[t].delivered = 0
  BY DEF DrainInv, OnceOK, DeliversOnce, Queued
<1>7. Alone => \A x \in Workers \ {w} : pc[x] = "idle"
  BY DEF Quiet
<1>8. \A t \in Subjects : Queued(t)' <=> Queued(t)
  BY DEF Queued
<1>9. ctx' = [ctx EXCEPT ![w] = locals] /\ "drain.next" \in DrainLabels
  BY DEF DrainLabels
<1>10. \A t \in Subjects : Holds(w, t)' => mail'[t].attempts < MailAttempts
  BY <1>2, <1>3
<1> HIDE DEF locals
<1> QED BY <1>1, <1>4, <1>5, <1>6, <1>7, <1>8, <1>9, <1>10, GoesOnWith, DrainMoves

LEMMA QueueEmailKept ==
    ASSUME TurnsInv, DrainInv, NEW w \in Workers, QueueEmail(w), UNCHANGED schedule
    PROVE  DrainInv'
<1> PICK s : s = ctx[w].subject
  OBVIOUS
<1>1. /\ pc[w] = "notify.queue" /\ mail' = [mail EXCEPT ![s] = Fresh]
      /\ pc' = [pc EXCEPT ![w] = "idle"] /\ ctx' = [ctx EXCEPT ![w] = NULL]
  BY DEF QueueEmail, Return, At, Fresh
<1>2. s \in Subjects /\ ~Queued(s)
  BY <1>1 DEF DrainInv, QueueOK
<1>3. Fresh \in MailRows /\ Fresh.status = "PENDING" /\ Fresh.attempts = 0 /\ Fresh.delivered = 0
  BY DEF Fresh, MailRows
<1> HIDE DEF Fresh
<1>4. /\ pc'[w] = "idle" /\ mail \in [Subjects -> MailRows \cup {NULL}]
      /\ mail' \in [Subjects -> MailRows \cup {NULL}]
      /\ mail'[s] = Fresh /\ \A t \in Subjects \ {s} : mail'[t] = mail[t]
  BY <1>1, <1>2, <1>3 DEF DrainInv, MailTyped, StandAt
<1>5. \A t \in Subjects : ~Holds(w, t)'
  BY <1>4 DEF Holds, SendLabels, DrainLabels
<1>6. DrainOK(w)' /\ TurnOK(w)'
  BY <1>4 DEF DrainOK, TurnOK, SendLabels, DrainLabels
<1>7. SentHasLeft'
  BY <1>3, <1>4 DEF DrainInv, SentHasLeft, Queued
<1>8. Alone => /\ DeliversOnce'
               /\ \A t \in Subjects : Queued(t)' /\ mail'[t].status = "PENDING" => mail'[t].delivered = 0
  BY <1>3, <1>4 DEF DrainInv, OnceOK, DeliversOnce, Queued
<1>9. Alone => \A x \in Workers \ {w} : pc[x] = "idle"
  BY <1>1, OthersIdle
<1>10. ASSUME NEW t \in Subjects, Queued(t)
       PROVE  Queued(t)' /\ mail'[t] = mail[t]
  BY <1>2, <1>4, <1>10 DEF Queued
<1>11. ASSUME NEW t \in Subjects, Queued(t)', ~Queued(t)
       PROVE  ctx[w].subject = t /\ mail'[t].attempts = 0
  BY <1>3, <1>4, <1>11 DEF Queued
<1> QED BY <1>1, <1>4, <1>5, <1>6, <1>7, <1>8, <1>9, <1>10, <1>11, GoesOnWith, DrainMoves

\* A step of a run that is at the e-mail s and leaves the rows of the others as they are
LEMMA RunMoves ==
    ASSUME TurnsInv, DrainInv, NEW w \in Workers, UNCHANGED schedule,
           pc[w] \in DrainLabels, NEW label \in DrainLabels, NEW locals,
           GoesOn(w, label, locals),
           NEW s \in Subjects, Queued(s), NEW row \in MailRows, mail' = [mail EXCEPT ![s] = row],
           mail[s].delivered > 0 => row.delivered > 0,
           row.status = "SENT" => row.delivered > 0,
           \/ row.attempts = mail[s].attempts
           \/ row.attempts = mail[s].attempts + 1 /\ Holds(w, s) /\ ~Holds(w, s)',
           \A t \in Subjects : Holds(w, t)' => Holds(w, t),
           DrainOK(w)',
           Alone => /\ TurnOK(w)' /\ row.delivered <= 1
                    /\ row.status = "PENDING" => row.delivered = 0
    PROVE  DrainInv'
<1>1. mail \in [Subjects -> MailRows \cup {NULL}] /\ pc[w] # "idle" /\ label # "notify.queue"
  BY DEF DrainInv, MailTyped, DrainLabels
<1>2. /\ mail' \in [Subjects -> MailRows \cup {NULL}] /\ mail'[s] = row /\ row # NULL
      /\ \A t \in Subjects \ {s} : mail'[t] = mail[t]
  BY <1>1, MailboxNull
<1>3. SentHasLeft'
  BY <1>2 DEF DrainInv, SentHasLeft, Queued
<1>4. Alone => /\ DeliversOnce'
               /\ \A t \in Subjects : Queued(t)' /\ mail'[t].status = "PENDING" => mail'[t].delivered = 0
  BY <1>2 DEF DrainInv, OnceOK, DeliversOnce, Queued
<1>5. Alone => \A x \in Workers \ {w} : pc[x] = "idle"
  BY <1>1, OthersIdle
<1>6. \A t \in Subjects : Queued(t)' <=> Queued(t)
  BY <1>2 DEF Queued
<1>7. ASSUME NEW t \in Subjects, Queued(t)
      PROVE  /\ mail[t].delivered > 0 => mail'[t].delivered > 0
             /\ \/ mail'[t].attempts = mail[t].attempts
                \/ mail'[t].attempts = mail[t].attempts + 1 /\ Holds(w, t) /\ ~Holds(w, t)'
  BY <1>2, <1>7
<1> QED BY <1>1, <1>2, <1>3, <1>4, <1>5, <1>6, <1>7, DrainMoves


LEMMA DrainNextKept ==
    ASSUME TurnsInv, DrainInv, NEW w \in Workers, DrainNext(w), UNCHANGED schedule
    PROVE  DrainInv'
<1> PICK s \in ctx[w].batch :
        /\ pc[w] = "drain.next" /\ mail' = [mail EXCEPT ![s].status = "PROCESSING"]
        /\ pc' = [pc EXCEPT ![w] = "drain.send"]
        /\ ctx' = [ctx EXCEPT ![w] = [batch |-> ctx[w].batch \ {s}, subject |-> s]]
  BY DEF DrainNext, GotoWith, At
<1> PICK batch : batch = ctx[w].batch
  OBVIOUS
<1> DEFINE locals == [batch |-> batch \ {s}, subject |-> s]
           row == [mail[s] EXCEPT !.status = "PROCESSING"]
<1>1. /\ batch \subseteq Subjects /\ \A t \in batch : Queued(t)
      /\ Alone => \A t \in batch : mail[t].status = "PENDING"
  BY DEF DrainInv, DrainOK, OnceOK, TurnOK, DrainLabels
<1>2. s \in Subjects /\ Queued(s) /\ s \in batch
  BY <1>1
<1>3. mail[s] \in MailRows /\ mail \in [Subjects -> MailRows \cup {NULL}]
  BY <1>2 DEF DrainInv, MailTyped, Queued
<1>4. /\ row \in MailRows /\ row.status = "PROCESSING" /\ row.attempts = mail[s].attempts
      /\ row.delivered = mail[s].delivered /\ mail' = [mail EXCEPT ![s] = row]
  BY <1>3 DEF MailRows
<1>5. pc'[w] = "drain.send" /\ ctx'[w] = locals /\ ctx' = [ctx EXCEPT ![w] = locals]
  BY DEF DrainInv, MailTyped, StandAt
<1>6. locals.batch = batch \ {s} /\ locals.subject = s
  OBVIOUS
<1> HIDE DEF locals, row
<1>7. mail'[s] = row /\ row # NULL /\ \A t \in Subjects \ {s} : mail'[t] = mail[t]
  <2>1. mail'[s] = row /\ \A t \in Subjects \ {s} : mail'[t] = mail[t]
    BY <1>2, <1>3, <1>4
  <2> QED BY <1>4, <2>1, MailboxNull
<1>8. ASSUME NEW t \in Subjects, Holds(w, t)' PROVE Holds(w, t)
  BY <1>2, <1>5, <1>6, <1>8 DEF Holds, SendLabels, DrainLabels
<1>9. DrainOK(w)'
  BY <1>1, <1>2, <1>5, <1>6, <1>7 DEF DrainOK, SendLabels, DrainLabels, Queued
<1>10. Alone => TurnOK(w)' /\ row.delivered = 0
  BY <1>1, <1>2, <1>4, <1>5, <1>6, <1>7 DEF DrainInv, OnceOK, TurnOK, SendLabels, DrainLabels
<1>11. mail[s].delivered \in Int
  BY <1>3 DEF MailRows
<1>12. "drain.send" \in DrainLabels /\ pc[w] \in DrainLabels
  BY DEF DrainLabels
<1>13. GoesOn(w, "drain.send", locals)
  BY <1>5, GoesOnWith
<1>14. Alone => /\ TurnOK(w)' /\ row.delivered <= 1
                /\ row.status = "PENDING" => row.delivered = 0
  BY <1>10
<1>15. row.status # "SENT" /\ (mail[s].delivered > 0 => row.delivered > 0)
  BY <1>4
<1> QED BY <1>2, <1>4, <1>8, <1>9, <1>12, <1>13, <1>14, <1>15, RunMoves

\* Where a run has taken an e-mail, its row is there.
LEMMA Sending ==
    ASSUME DrainInv, NEW w \in Workers, pc[w] \in SendLabels, NEW s, s = ctx[w].subject,
           NEW batch, batch = ctx[w].batch
    PROVE  /\ s \in Subjects /\ Queued(s) /\ mail[s] \in MailRows /\ s \notin batch
           /\ mail \in [Subjects -> MailRows \cup {NULL}]
           /\ mail[s].delivered \in 0 .. 2 /\ mail[s].attempts \in Nat
           /\ batch \subseteq Subjects /\ \A t \in batch : Queued(t)
           /\ Alone => \A t \in batch : mail[t].status = "PENDING"
           /\ pc[w] \in DrainLabels /\ DOMAIN pc = Workers /\ DOMAIN ctx = Workers
           /\ Holds(w, s)
<1>1. s \in Subjects /\ Queued(s) /\ s \notin batch /\ pc[w] \in DrainLabels
  BY DEF DrainInv, DrainOK, SendLabels
<1>2. batch \subseteq Subjects /\ \A t \in batch : Queued(t)
  BY <1>1 DEF DrainInv, DrainOK
<1>3. mail \in [Subjects -> MailRows \cup {NULL}] /\ DOMAIN pc = Workers /\ DOMAIN ctx = Workers
  BY DEF DrainInv, MailTyped, StandAt
<1>4. mail[s] \in MailRows
  BY <1>1, <1>3 DEF Queued
<1>5. Alone => \A t \in batch : mail[t].status = "PENDING"
  BY <1>1 DEF DrainInv, OnceOK, TurnOK
<1> QED BY <1>1, <1>2, <1>3, <1>4, <1>5 DEF MailRows, Holds

\* A run that is at an e-mail goes on with it, and changes its row or nothing.
LEMMA SendMoves ==
    ASSUME TurnsInv, DrainInv, NEW w \in Workers, UNCHANGED <<schedule, ctx>>,
           pc[w] \in SendLabels, NEW label \in DrainLabels, pc' = [pc EXCEPT ![w] = label],
           NEW s, s = ctx[w].subject, NEW row \in MailRows, mail' = [mail EXCEPT ![s] = row],
           mail[s].delivered > 0 => row.delivered > 0,
           row.status = "SENT" => row.delivered > 0,
           label = "drain.sent" => row.delivered > 0,
           \/ row.attempts = mail[s].attempts
           \/ row.attempts = mail[s].attempts + 1 /\ label = "drain.next",
           Alone => /\ row.delivered <= 1
                    /\ row.status = "PENDING" => row.delivered = 0
                    /\ label # "drain.next" => row.status = "PROCESSING"
                    /\ label \in {"drain.send", "drain.back"} => row.delivered = 0
    PROVE  DrainInv'
<1> PICK batch : batch = ctx[w].batch
  OBVIOUS
<1>1. /\ s \in Subjects /\ Queued(s) /\ mail[s] \in MailRows /\ s \notin batch
      /\ mail \in [Subjects -> MailRows \cup {NULL}]
      /\ batch \subseteq Subjects /\ \A t \in batch : Queued(t)
      /\ Alone => \A t \in batch : mail[t].status = "PENDING"
      /\ pc[w] \in DrainLabels /\ DOMAIN pc = Workers /\ DOMAIN ctx = Workers
      /\ Holds(w, s)
  BY Sending
<1>2. pc'[w] = label /\ ctx'[w] = ctx[w] /\ GoesOn(w, label, ctx[w])
  BY <1>1 DEF GoesOn
<1>3. mail'[s] = row /\ row # NULL /\ \A t \in Subjects \ {s} : mail'[t] = mail[t]
  BY <1>1, MailboxNull
<1>4. ASSUME NEW t \in Subjects, Holds(w, t)' PROVE Holds(w, t)
  BY <1>1, <1>2, <1>4 DEF Holds, SendLabels
<1>5. label = "drain.next" => ~Holds(w, s)'
  BY <1>1, <1>2 DEF Holds, SendLabels, DrainLabels
<1>6. DrainOK(w)'
  BY <1>1, <1>2, <1>3 DEF DrainOK, Queued
<1>7. Alone => TurnOK(w)'
  BY <1>1, <1>2, <1>3 DEF TurnOK, SendLabels
<1> QED BY <1>1, <1>2, <1>4, <1>5, <1>6, <1>7, RunMoves

LEMMA SendStepKept ==
    ASSUME TurnsInv, DrainInv, NEW w \in Workers, UNCHANGED schedule,
           Deliver(w) \/ Bounce(w) \/ MarkSent(w) \/ PutBack(w) \/ (MarkSentFails(w) /\ ~Alone)
    PROVE  DrainInv'
<1> PICK s : s = ctx[w].subject
  OBVIOUS
<1> PICK batch : batch = ctx[w].batch
  OBVIOUS
<1>1. pc[w] \in SendLabels /\ UNCHANGED ctx
  BY DEF Deliver, Bounce, MarkSent, PutBack, MarkSentFails, At, Goto, SendLabels, DrainLabels
<1>2. /\ s \in Subjects /\ Queued(s) /\ mail[s] \in MailRows
      /\ mail \in [Subjects -> MailRows \cup {NULL}]
      /\ mail[s].delivered \in 0 .. 2 /\ mail[s].attempts \in Nat
  BY <1>1, Sending
<1>3. Alone => /\ mail[s].status = "PROCESSING" /\ mail[s].delivered <= 1
               /\ pc[w] \in {"drain.send", "drain.back"} => mail[s].delivered = 0
  BY <1>1, <1>2 DEF DrainInv, OnceOK, TurnOK, DeliversOnce
<1>4. mail[s].status = "SENT" => mail[s].delivered > 0
  BY <1>2 DEF DrainInv, SentHasLeft
<1>5. {"drain.next", "drain.sent", "drain.back"} \subseteq DrainLabels
  BY DEF DrainLabels
<1>6. CASE Deliver(w)
  <2> DEFINE row == [mail[s] EXCEPT !.delivered = Min({2, mail[s].delivered + 1})]
  <2>1. pc[w] = "drain.send" /\ pc' = [pc EXCEPT ![w] = "drain.sent"] /\ mail' = [mail EXCEPT ![s] = row]
    BY <1>6 DEF Deliver, At, Goto
  <2>2. Min({2, mail[s].delivered + 1}) = IF 2 <= mail[s].delivered + 1 THEN 2 ELSE mail[s].delivered + 1
    BY <1>2, LeastOfTwo
  <2>3. /\ Min({2, mail[s].delivered + 1}) \in 1 .. 2
        /\ mail[s].delivered = 0 => Min({2, mail[s].delivered + 1}) = 1
    BY <1>2, <2>2
  <2>4. /\ row \in MailRows /\ row.delivered > 0 /\ row.status = mail[s].status
        /\ row.attempts = mail[s].attempts /\ (mail[s].delivered = 0 => row.delivered = 1)
    BY <1>2, <2>3 DEF MailRows
  <2> HIDE DEF row
  <2>5. Alone => row.delivered <= 1 /\ row.status = "PROCESSING"
    BY <1>3, <2>1, <2>4
  <2>6. "drain.sent" \in DrainLabels
    BY <1>5
  <2>7. UNCHANGED <<schedule, ctx>>
    BY <1>1
  <2> QED BY <1>1, <2>1, <2>4, <2>5, <2>6, <2>7, SendMoves
<1>7. CASE Bounce(w) \/ (MarkSentFails(w) /\ ~Alone)
  <2>1. /\ pc' = [pc EXCEPT ![w] = "drain.back"] /\ UNCHANGED mail
        /\ Alone => pc[w] = "drain.send"
    BY <1>7 DEF Bounce, MarkSentFails, At, Goto, mailboxVars
  <2>2. mail' = [mail EXCEPT ![s] = mail[s]]
    BY <1>2, <2>1
  <2>3. Alone => mail[s].status = "PROCESSING" /\ mail[s].delivered = 0
    BY <1>3, <2>1
  <2>4. mail[s].delivered = 0 => mail[s].delivered <= 1
    OBVIOUS
  <2>5. "drain.back" \in DrainLabels /\ "drain.back" # "drain.sent" /\ "PROCESSING" # "PENDING"
    BY <1>5
  <2> PICK row \in MailRows : /\ mail' = [mail EXCEPT ![s] = row]
                              /\ row.attempts = mail[s].attempts
                              /\ row.delivered = mail[s].delivered
                              /\ row.status = mail[s].status
    BY <1>2, <2>2
  <2>6. /\ row.status = "SENT" => row.delivered > 0
        /\ Alone => row.delivered <= 1 /\ row.status = "PROCESSING" /\ row.delivered = 0
    BY <1>4, <2>3, <2>4
  <2>7. UNCHANGED <<schedule, ctx>>
    BY <1>1
  <2>8. pc' = [pc EXCEPT ![w] = "drain.back"] /\ (mail[s].delivered > 0 => row.delivered > 0)
    BY <2>1
  <2> QED BY <1>1, <2>5, <2>6, <2>7, <2>8, SendMoves
<1>8. CASE MarkSent(w)
  <2> DEFINE row == [mail[s] EXCEPT !.status = "SENT"]
  <2>1. pc[w] = "drain.sent" /\ pc' = [pc EXCEPT ![w] = "drain.next"] /\ mail' = [mail EXCEPT ![s] = row]
    BY <1>8 DEF MarkSent, At, Goto
  <2>2. mail[s].delivered > 0
    BY <2>1 DEF DrainInv, DrainOK
  <2>3. /\ row \in MailRows /\ row.delivered = mail[s].delivered /\ row.status = "SENT"
        /\ row.attempts = mail[s].attempts
    BY <1>2 DEF MailRows
  <2> HIDE DEF row
  <2> QED BY <1>1, <1>3, <1>5, <2>1, <2>2, <2>3, SendMoves
<1>9. CASE PutBack(w)
  <2> PICK n \in Nat : n = mail[s].attempts + 1
    BY <1>2
  <2> DEFINE row == [mail[s] EXCEPT !.status = "PENDING", !.attempts = n]
  <2>1. pc[w] = "drain.back" /\ pc' = [pc EXCEPT ![w] = "drain.next"] /\ mail' = [mail EXCEPT ![s] = row]
    BY <1>2, <1>9 DEF PutBack, At, Goto, MailRows
  <2>2. /\ row \in MailRows /\ row.delivered = mail[s].delivered /\ row.status = "PENDING"
        /\ row.attempts = mail[s].attempts + 1
    <3>1. row \in MailRows
      BY <1>2 DEF MailRows
    <3>2. row.status = "PENDING" /\ row.delivered = mail[s].delivered
      BY <1>2 DEF MailRows
    <3>3. row.attempts = n
      BY <1>2 DEF MailRows
    <3> QED BY <3>1, <3>2, <3>3
  <2> HIDE DEF row
  <2> QED BY <1>1, <1>3, <1>5, <2>1, <2>2, SendMoves
<1> QED BY <1>6, <1>7, <1>8, <1>9


LEMMA HandlerEnds ==
    ASSUME TurnsInv, DrainInv, NEW w \in Workers, UNCHANGED <<schedule, mail>>, pc[w] # "idle",
           pc' = [pc EXCEPT ![w] = "idle"], ctx' = [ctx EXCEPT ![w] = NULL]
    PROVE  DrainInv'
<1>1. pc'[w] = "idle" /\ mail \in [Subjects -> MailRows \cup {NULL}]
  BY DEF DrainInv, MailTyped, StandAt
<1>2. \A t \in Subjects : ~Holds(w, t)'
  BY <1>1 DEF Holds, SendLabels, DrainLabels
<1>3. DrainOK(w)' /\ TurnOK(w)'
  BY <1>1 DEF DrainOK, TurnOK, SendLabels, DrainLabels
<1>4. SentHasLeft'
  BY DEF DrainInv, SentHasLeft, Queued
<1>5. Alone => /\ DeliversOnce'
               /\ \A t \in Subjects : Queued(t)' /\ mail'[t].status = "PENDING" => mail'[t].delivered = 0
  BY DEF DrainInv, OnceOK, DeliversOnce, Queued
<1>6. Alone => \A x \in Workers \ {w} : pc[x] = "idle"
  BY OthersIdle
<1>7. \A t \in Subjects : Queued(t)' <=> Queued(t)
  BY DEF Queued
<1> QED BY <1>1, <1>2, <1>3, <1>4, <1>5, <1>6, <1>7, GoesOnWith, DrainMoves

LEMMA MailMoves ==
    ASSUME [OfficeNext]_officeVars, part = "mail"
    PROVE  \/ UNCHANGED <<mail, pc, ctx>>
           \/ \E w \in Workers :
                 \/ (\E s \in Subjects : RequestEmail(w, s)) /\ (Alone => Quiet)
                 \/ StartDrain(w) /\ (Alone => Quiet)
                 \/ MailboxStep(w)
                 \/ OfficeFails(w)
<1>1. ASSUME NEW w \in Workers, OfficeRequest(w)
      PROVE  (\E s \in Subjects : RequestEmail(w, s)) /\ (Alone => Quiet)
  BY <1>1 DEF OfficeRequest, Only, Mailed
<1>2. ASSUME NEW w \in Workers, OfficeStep(w)
      PROVE  MailboxStep(w)
  BY <1>2 DEF OfficeStep, Only
<1>3. CASE UNCHANGED officeVars
  BY <1>3 DEF officeVars, leadsVars, handlerVars, mailboxVars
<1> QED
  BY <1>1, <1>2, <1>3 DEF OfficeNext, Only, DrainJob, ExpiryJob, DeletionJob

LEMMA DrainKept ==
    ASSUME TurnsInv, DrainInv, [OfficeNext]_officeVars, part = "mail"
    PROVE  DrainInv'
<1>1. UNCHANGED schedule
  BY PartStays
<1>2. CASE UNCHANGED <<mail, pc, ctx>>
  BY <1>1, <1>2 DEF DrainInv, MailTyped, StandAt, QueueOK, DrainOK, SentHasLeft, AttemptsOK,
     Holders, Holds, OnceOK, DeliversOnce, TurnOK, Queued, Alone
<1>3. ASSUME NEW w \in Workers, MailboxStep(w)
      PROVE  DrainInv'
  <2>1. CASE NotifyCreate(w)
    BY <2>1 DEF NotifyCreate, At, DrainInv, MailTyped, StandAt, DrainLabels
  <2>2. CASE DrainDone(w)
    <3>1. /\ pc[w] # "idle" /\ UNCHANGED mail
          /\ pc' = [pc EXCEPT ![w] = "idle"] /\ ctx' = [ctx EXCEPT ![w] = NULL]
      BY <2>2 DEF DrainDone, Return, At, mailboxVars
    <3> QED BY <1>1, <3>1, HandlerEnds
  <2> QED
    BY <1>1, <1>3, <2>1, <2>2, QueueEmailKept, DrainNextKept, SendStepKept DEF MailboxStep
<1>4. ASSUME NEW w \in Workers, OfficeFails(w)
      PROVE  DrainInv'
  <2>1. CASE MarkSentFails(w)
    BY <1>1, <1>4, <2>1, SendStepKept DEF OfficeFails
  <2>2. CASE Die(w) /\ UNCHANGED mailboxVars
    BY <1>1, <2>2, HandlerEnds DEF Die, mailboxVars
  <2> QED BY <1>4, <2>1, <2>2 DEF OfficeFails
<1> QED
  BY <1>1, <1>2, <1>3, <1>4, MailMoves, RequestEmailKept, StartDrainKept

\* The services of leads queue e-mails and send none.
QueueOnly ==
    /\ mail \in [Subjects -> {NULL, Fresh}]
    /\ part \in {"contacts", "followup"} => \A w \in Workers : pc[w] \notin DrainLabels

\* Only the part "mail" has runs of the job.
MailInv ==
    /\ TurnsInv
    /\ part = "mail" => DrainInv
    /\ part # "mail" => QueueOnly

LEMMA LeadsMove ==
    ASSUME [OfficeNext]_officeVars, part \in {"contacts", "followup"}
    PROVE  \/ UNCHANGED <<leadVars, mailboxVars, pc, ctx>>
           \/ \E w \in Workers :
                 \/ /\ Alone => Quiet
                    /\ \/ RequestContact(w) /\ (part = "followup" => Created = {} /\ Quiet)
                       \/ part = "contacts" /\ \E s \in Sellers : SellerLeaves(s)
                       \/ part = "followup" /\ UNCHANGED leadVars
                              /\ \E read \in SUBSET Subjects : MarkRead(read)
                       \/ part = "followup" /\ FollowUp(w)
                 \/ LeadsStep(w)
                 \/ OfficeFails(w)
<1>1. ASSUME NEW w \in Workers, OfficeRequest(w)
      PROVE  /\ Alone => Quiet
             /\ \/ RequestContact(w) /\ (part = "followup" => Created = {} /\ Quiet)
                \/ part = "contacts" /\ \E s \in Sellers : SellerLeaves(s)
                \/ part = "followup" /\ UNCHANGED leadVars
                       /\ \E read \in SUBSET Subjects : MarkRead(read)
                \/ part = "followup" /\ FollowUp(w)
  BY <1>1 DEF OfficeRequest, Only
<1>2. ASSUME NEW w \in Workers, OfficeStep(w)
      PROVE  LeadsStep(w)
  BY <1>2 DEF OfficeStep, Only
<1>3. CASE UNCHANGED officeVars
  BY <1>3 DEF officeVars, leadsVars, handlerVars
<1> QED
  BY <1>1, <1>2, <1>3 DEF OfficeNext, Only, DrainJob, ExpiryJob, DeletionJob

LEMMA OthersKeepMail ==
    ASSUME [OfficeNext]_officeVars, part \notin {"contacts", "followup", "mail"}
    PROVE  UNCHANGED mail
<1>1. ASSUME NEW w \in Workers, OfficeRequest(w) \/ OfficeStep(w)
      PROVE  UNCHANGED mail
  BY <1>1 DEF OfficeRequest, OfficeStep, Only, mailboxVars
<1>2. ASSUME NEW w \in Workers, OfficeFails(w)
      PROVE  UNCHANGED mail
  BY <1>2 DEF OfficeFails, MarkSentFails, mailboxVars
<1> QED
  BY <1>1, <1>2 DEF OfficeNext, officeVars, leadsVars, Only, DrainJob, ExpiryJob, DeletionJob, mailboxVars

LEMMA QueueOnlyKept ==
    ASSUME TurnsInv, QueueOnly, [OfficeNext]_officeVars, part # "mail"
    PROVE  QueueOnly'
<1>1. UNCHANGED part
  BY PartStays
<1>2. CASE part \notin {"contacts", "followup"}
  <2>1. UNCHANGED mail
    BY <1>2, OthersKeepMail
  <2> QED BY <1>1, <1>2, <2>1 DEF QueueOnly
<1>3. CASE part \in {"contacts", "followup"}
  <2>1. \A x \in Workers : pc[x] \notin DrainLabels
    BY <1>3 DEF QueueOnly
  <2>2. DOMAIN pc = Workers
    BY DEF TurnsInv
  <2>3. CASE UNCHANGED <<leadVars, mailboxVars, pc, ctx>>
    BY <1>1, <2>3 DEF QueueOnly, mailboxVars
  <2>4. ASSUME NEW w \in Workers, LeadsStep(w)
        PROVE  QueueOnly'
    <3>1. /\ \A x \in Workers : pc'[x] \notin DrainLabels
          /\ UNCHANGED mail \/ mail' = [mail EXCEPT ![ctx[w].subject] = Fresh]
      BY <2>1, <2>2, <2>4
      DEF LeadsStep, ContactRank, ContactCreate, ContactCount, LeadWrite, LeadLog, MailboxStep,
          NotifyCreate, QueueEmail, DrainNext, DrainDone, Deliver, Bounce, MarkSent, PutBack,
          At, Goto, GotoWith, Return, DrainLabels, mailboxVars, Fresh
    <3> HIDE DEF Fresh
    <3>2. mail' \in [Subjects -> {NULL, Fresh}]
      BY <3>1 DEF QueueOnly
    <3> QED BY <3>1, <3>2 DEF QueueOnly
  <2>5. ASSUME NEW w \in Workers, OfficeFails(w)
        PROVE  QueueOnly'
    <3>1. ~MarkSentFails(w)
      BY <2>1 DEF MarkSentFails, At, DrainLabels
    <3> QED BY <1>1, <2>1, <2>2, <2>5, <3>1 DEF OfficeFails, Die, QueueOnly, mailboxVars, DrainLabels
  <2>6. ASSUME NEW w \in Workers,
               \/ RequestContact(w) \/ (\E s \in Sellers : SellerLeaves(s))
               \/ (\E read \in SUBSET Subjects : MarkRead(read)) \/ FollowUp(w)
        PROVE  QueueOnly'
    <3>1. UNCHANGED mail /\ \A x \in Workers : pc'[x] \notin DrainLabels
      BY <2>1, <2>2, <2>6 DEF RequestContact, SellerLeaves, MarkRead, FollowUp, RequestLeadStatus,
         Begin, mailboxVars, handlerVars, DrainLabels
    <3> QED BY <1>1, <3>1 DEF QueueOnly
  <2> QED BY <1>3, <2>3, <2>4, <2>5, <2>6, LeadsMove
<1> QED BY <1>2, <1>3

LEMMA MailKept == MailInv /\ [OfficeNext]_officeVars => MailInv'
<1> SUFFICES ASSUME MailInv, [OfficeNext]_officeVars PROVE MailInv'
  OBVIOUS
<1>1. TurnsInv' /\ UNCHANGED part
  BY TurnsStep, PartStays DEF MailInv
<1>2. CASE part = "mail"
  BY <1>1, <1>2, DrainKept DEF MailInv
<1>3. CASE part # "mail"
  BY <1>1, <1>3, QueueOnlyKept DEF MailInv
<1> QED BY <1>2, <1>3

LEMMA MailStarts == OfficeInit => MailInv
<1> SUFFICES ASSUME OfficeInit PROVE MailInv
  OBVIOUS
<1>1. mail = [s \in Subjects |-> NULL]
  BY DEF OfficeInit, LeadsInit, MailboxInit
<1>2. TurnsInv /\ (\A w \in Workers : pc[w] = "idle") /\ StandAt({"notify.queue"} \cup DrainLabels)
  BY DEF OfficeInit, HandlersInit, TurnsInv, OneAtATime, Busy, StandAt
<1>3. \A w \in Workers : QueueOK(w) /\ DrainOK(w) /\ TurnOK(w)
  BY <1>2 DEF QueueOK, DrainOK, TurnOK, SendLabels, DrainLabels
<1>4. DrainInv
  BY <1>1, <1>2, <1>3 DEF DrainInv, MailTyped, SentHasLeft, AttemptsOK, OnceOK, DeliversOnce, Queued
<1>5. QueueOnly
  BY <1>1, <1>2 DEF QueueOnly, DrainLabels
<1> QED BY <1>2, <1>4, <1>5 DEF MailInv

\* No e-mail is tried for ever, and none is marked SENT that has not left, however the runs of
\* the job overlap and wherever they stop; one run at a time, and without failures, none leaves
\* twice (JobsService.processEmailQueue, jobs.service.ts:29-59).
THEOREM MailStaysKept == OfficeSpec => []MailIsKept
<1>1. OfficeInit => MailInv
  BY MailStarts
<1>2. MailInv => MailIsKept
  <2> SUFFICES ASSUME MailInv PROVE MailIsKept
    OBVIOUS
  <2>1. CASE part = "mail"
    <3>1. DrainInv
      BY <2>1 DEF MailInv
    <3>2. ASSUME NEW s \in Subjects, Queued(s)
          PROVE  mail[s].attempts < MailAttempts + Cardinality(Workers)
      <4>1. mail[s].attempts + Cardinality(Holders(s)) < MailAttempts + Cardinality(Workers)
        BY <3>1, <3>2 DEF DrainInv, AttemptsOK
      <4>2. mail[s].attempts \in Nat
        BY <3>1, <3>2 DEF DrainInv, MailTyped, Queued, MailRows
      <4> QED BY <4>1, <4>2, HoldersCount, MailboxAssumption
    <3> QED BY <3>1, <3>2 DEF MailIsKept, RetriesAreBounded, DrainInv, OnceOK
  <2>2. CASE part # "mail"
    <3>1. \A s \in Subjects : Queued(s) => mail[s] = Fresh
      BY <2>2 DEF MailInv, QueueOnly, Queued
    <3>2. Fresh.status = "PENDING" /\ Fresh.attempts = 0 /\ Fresh.delivered = 0
      BY DEF Fresh
    <3>3. 0 < MailAttempts + Cardinality(Workers)
      BY HoldersCount, MailboxAssumption
    <3> HIDE DEF Fresh
    <3> QED BY <3>1, <3>2, <3>3 DEF MailIsKept, RetriesAreBounded, SentHasLeft, DeliversOnce
  <2> QED BY <2>1, <2>2
<1> QED BY <1>1, <1>2, MailKept, PTL DEF OfficeSpec

-----------------------------------------------------------------------------
(* The e-mail queue implements Outbox                                      *)

\* One run at a time: what it has before it may be tried again, and what is in hand is the
\* e-mail the run is at.
HandOK ==
    /\ \A w \in Workers : pc[w] \in DrainLabels =>
           \A s \in ctx[w].batch : mail[s].attempts < MailAttempts
    /\ \A s \in InHand :
           \E w \in Workers : pc[w] \in SendLabels /\ ctx[w].subject = s

OutboxInv == MailInv /\ (Alone /\ part = "mail" => HandOK)

OutboxStep == Sends!Next \/ UNCHANGED Sends!outboxVars

\* The row of s is written, and its letter moves, no other one.
RowAt(s, row) ==
    /\ Waiting' = IF row.status = "PENDING" THEN Waiting \cup {s} ELSE Waiting \ {s}
    /\ InHand' = IF row.status = "PROCESSING" THEN InHand \cup {s} ELSE InHand \ {s}
    /\ Reported' = IF row.status = "SENT" THEN Reported \cup {s} ELSE Reported \ {s}
    /\ HasLeft' = IF row.delivered > 0 THEN HasLeft \cup {s} ELSE HasLeft \ {s}
    /\ Tried' = [Tried EXCEPT ![s] = row.attempts]
    /\ Tried[s] = row.attempts => Tried' = Tried

LEMMA RowWritten ==
    ASSUME mail \in [Subjects -> MailRows \cup {NULL}], NEW s \in Subjects, NEW row \in MailRows,
           mail' = [mail EXCEPT ![s] = row]
    PROVE  RowAt(s, row)
<1>1. mail'[s] = row /\ row # NULL /\ \A t \in Subjects \ {s} : mail'[t] = mail[t]
  BY MailboxNull
<1>2. Queued(s)' /\ \A t \in Subjects \ {s} : Queued(t)' <=> Queued(t)
  BY <1>1 DEF Queued
<1>3. /\ Waiting' = IF row.status = "PENDING" THEN Waiting \cup {s} ELSE Waiting \ {s}
      /\ InHand' = IF row.status = "PROCESSING" THEN InHand \cup {s} ELSE InHand \ {s}
      /\ Reported' = IF row.status = "SENT" THEN Reported \cup {s} ELSE Reported \ {s}
  BY <1>1, <1>2 DEF Waiting, InHand, Reported
<1>4. HasLeft' = IF row.delivered > 0 THEN HasLeft \cup {s} ELSE HasLeft \ {s}
  BY <1>1, <1>2 DEF HasLeft
<1>5. Tried' = [Tried EXCEPT ![s] = row.attempts]
  BY <1>1, <1>2 DEF Tried
<1>6. Tried[s] = row.attempts => Tried' = Tried
  BY <1>5 DEF Tried
<1> QED BY <1>3, <1>4, <1>5, <1>6 DEF RowAt

LEMMA SetStays ==
    ASSUME NEW S, NEW s PROVE (s \notin S => S \ {s} = S) /\ (s \in S => S \cup {s} = S)
  OBVIOUS

\* Rows that stay leave the letters where they are.
LEMMA RowsStand == ASSUME UNCHANGED mail PROVE UNCHANGED Sends!outboxVars
  BY DEF Sends!outboxVars, Waiting, InHand, Reported, HasLeft, Tried, Queued

\* Where a letter that is queued stands
LEMMA LetterStands ==
    ASSUME mail \in [Subjects -> MailRows \cup {NULL}], NEW s \in Subjects
    PROVE  /\ s \in Waiting <=> Queued(s) /\ mail[s].status = "PENDING"
           /\ s \in InHand <=> Queued(s) /\ mail[s].status = "PROCESSING"
           /\ s \in Reported <=> Queued(s) /\ mail[s].status = "SENT"
           /\ s \in HasLeft <=> Queued(s) /\ mail[s].delivered > 0
           /\ Queued(s) => Tried[s] = mail[s].attempts
           /\ ~Queued(s) => Tried[s] = 0
           /\ Queued(s) => mail[s] \in MailRows
  BY DEF Waiting, InHand, Reported, HasLeft, Tried, Queued

\* The first row of an e-mail, or the same again
LEMMA QueueImplements ==
    ASSUME mail \in [Subjects -> MailRows \cup {NULL}], NEW s \in Subjects, ~Queued(s),
           mail' = [mail EXCEPT ![s] = Fresh]
    PROVE  Sends!Next
<1>1. Fresh \in MailRows /\ Fresh.status = "PENDING" /\ Fresh.attempts = 0 /\ Fresh.delivered = 0
  BY DEF Fresh, MailRows
<1> HIDE DEF Fresh
<1>2. s \notin Waiting \cup InHand \cup Reported
  BY LetterStands
<1>3. s \notin HasLeft /\ Tried[s] = 0
  BY LetterStands
<1>4. RowAt(s, Fresh)
  BY <1>1, RowWritten
<1>5. /\ Waiting' = Waiting \cup {s}
      /\ InHand' = InHand /\ Reported' = Reported
      /\ HasLeft' = HasLeft
  BY <1>1, <1>2, <1>3, <1>4, SetStays DEF RowAt
<1>6. Tried' = Tried
  BY <1>1, <1>3, <1>4 DEF RowAt
<1>7. Sends!Queue(s)
  BY <1>2, <1>3, <1>5, <1>6 DEF Sends!Queue
<1> QED BY <1>7 DEF Sends!Next

\* A run alone takes the next e-mail: nobody has one in hand.
LEMMA TakeImplements ==
    ASSUME OutboxInv, Alone, part = "mail", NEW w \in Workers, DrainNext(w)
    PROVE  Sends!Next /\ HandOK'
<1> PICK s \in ctx[w].batch :
        /\ pc[w] = "drain.next" /\ mail' = [mail EXCEPT ![s].status = "PROCESSING"]
        /\ pc' = [pc EXCEPT ![w] = "drain.send"]
        /\ ctx' = [ctx EXCEPT ![w] = [batch |-> ctx[w].batch \ {s}, subject |-> s]]
  BY DEF DrainNext, GotoWith, At
<1> DEFINE row == [mail[s] EXCEPT !.status = "PROCESSING"]
<1>1. DrainInv /\ TurnsInv /\ HandOK
  BY DEF OutboxInv, MailInv
<1>2. /\ s \in Subjects /\ Queued(s) /\ mail[s].status = "PENDING" /\ mail[s].attempts < MailAttempts
      /\ ctx[w].batch \subseteq Subjects
      /\ \A t \in ctx[w].batch : mail[t].attempts < MailAttempts
  BY <1>1 DEF DrainInv, DrainOK, OnceOK, TurnOK, HandOK, DrainLabels
<1>3. mail \in [Subjects -> MailRows \cup {NULL}] /\ mail[s] \in MailRows /\ mail[s].delivered = 0
  BY <1>1, <1>2 DEF DrainInv, MailTyped, OnceOK, Queued
<1>4. /\ row \in MailRows /\ row.status = "PROCESSING" /\ row.attempts = mail[s].attempts
      /\ row.delivered = 0 /\ mail' = [mail EXCEPT ![s] = row]
  BY <1>3 DEF MailRows
<1> HIDE DEF row
<1>5. \A x \in Workers : pc[x] \notin SendLabels
  BY <1>1 DEF TurnsInv, OneAtATime, Busy, SendLabels, DrainLabels
<1>6. InHand = {}
  BY <1>1, <1>5 DEF HandOK
<1>7. /\ s \in Waiting /\ s \notin Reported /\ s \notin HasLeft
      /\ Tried[s] = mail[s].attempts
  BY <1>2, <1>3, LetterStands
<1>8. RowAt(s, row)
  BY <1>2, <1>3, <1>4, RowWritten
<1>9. /\ Waiting' = Waiting \ {s} /\ InHand' = {s}
      /\ Reported' = Reported /\ HasLeft' = HasLeft
  BY <1>4, <1>6, <1>7, <1>8, SetStays DEF RowAt
<1>10. Tried' = Tried
  BY <1>4, <1>7, <1>8 DEF RowAt
<1>11. Sends!Take(s)
  BY <1>2, <1>6, <1>7, <1>9, <1>10 DEF Sends!Take
<1>12. DOMAIN pc = Workers /\ DOMAIN ctx = Workers
  BY <1>1 DEF TurnsInv
<1>13. pc'[w] = "drain.send" /\ ctx'[w] = [batch |-> ctx[w].batch \ {s}, subject |-> s]
  BY <1>12
<1>14. \A x \in Workers \ {w} : pc'[x] \notin DrainLabels
  BY <1>1, <1>12 DEF TurnsInv, OneAtATime, Busy, DrainLabels
<1>15. \A t \in ctx[w].batch \ {s} : mail'[t] = mail[t]
  BY <1>2, <1>3
<1>16. pc'[w] \in SendLabels /\ ctx'[w].subject = s /\ ctx'[w].batch = ctx[w].batch \ {s}
  BY <1>13 DEF SendLabels, DrainLabels
<1> QED BY <1>2, <1>9, <1>11, <1>14, <1>15, <1>16 DEF HandOK, Sends!Next

\* Whatever the run does with the e-mail it is at, it stays with it or has put it away.
LEMMA HandKept ==
    ASSUME OutboxInv, Alone, part = "mail", NEW w \in Workers, pc[w] \in SendLabels,
           NEW label \in DrainLabels, pc' = [pc EXCEPT ![w] = label], UNCHANGED ctx,
           NEW s, s = ctx[w].subject, NEW row \in MailRows, mail' = [mail EXCEPT ![s] = row],
           label = "drain.next" => row.status # "PROCESSING"
    PROVE  HandOK'
<1> PICK batch : batch = ctx[w].batch
  OBVIOUS
<1>1. DrainInv /\ TurnsInv /\ HandOK
  BY DEF OutboxInv, MailInv
<1>2. /\ s \in Subjects /\ mail \in [Subjects -> MailRows \cup {NULL}] /\ s \notin batch
      /\ batch \subseteq Subjects
      /\ pc[w] \in DrainLabels /\ DOMAIN pc = Workers
  BY <1>1, Sending
<1>3. \A t \in batch : mail'[t].attempts < MailAttempts
  BY <1>1, <1>2 DEF HandOK
<1>4. \A x \in Workers \ {w} : pc'[x] \notin DrainLabels /\ pc[x] \notin SendLabels
  BY <1>1, <1>2 DEF TurnsInv, OneAtATime, Busy, DrainLabels, SendLabels
<1>5. \A t \in InHand : t = s
  BY <1>1, <1>4 DEF HandOK
<1>6. RowAt(s, row)
  BY <1>2, RowWritten
<1>7. InHand' \subseteq {s} /\ (label = "drain.next" => InHand' = {})
  BY <1>5, <1>6 DEF RowAt
<1>8. pc'[w] = label /\ ctx'[w] = ctx[w]
  BY <1>2
<1> QED BY <1>3, <1>4, <1>7, <1>8 DEF HandOK, SendLabels

\* The e-mail a run alone is at: it leaves, or bounces, and is settled or put back.
LEMMA SendImplements ==
    ASSUME OutboxInv, Alone, part = "mail", NEW w \in Workers,
           Deliver(w) \/ Bounce(w) \/ MarkSent(w) \/ PutBack(w)
    PROVE  OutboxStep /\ HandOK'
<1> PICK s : s = ctx[w].subject
  OBVIOUS
<1>1. DrainInv /\ pc[w] \in SendLabels /\ UNCHANGED ctx
  BY DEF OutboxInv, MailInv, Deliver, Bounce, MarkSent, PutBack, At, Goto, SendLabels, DrainLabels
<1>2. /\ s \in Subjects /\ Queued(s) /\ mail[s] \in MailRows
      /\ mail \in [Subjects -> MailRows \cup {NULL}]
      /\ mail[s].delivered \in 0 .. 2 /\ mail[s].attempts \in Nat
  BY <1>1, Sending
<1>3. /\ mail[s].status = "PROCESSING"
      /\ pc[w] \in {"drain.send", "drain.back"} => mail[s].delivered = 0
      /\ pc[w] = "drain.sent" => mail[s].delivered > 0
  BY <1>1, <1>2 DEF DrainInv, OnceOK, TurnOK, DrainOK
<1>4. /\ s \in InHand /\ s \notin Waiting /\ s \notin Reported
      /\ Tried[s] = mail[s].attempts
      /\ pc[w] \in {"drain.send", "drain.back"} => s \notin HasLeft
      /\ pc[w] = "drain.sent" => s \in HasLeft
  BY <1>2, <1>3, LetterStands
<1>5. {"drain.next", "drain.sent", "drain.back"} \subseteq DrainLabels
  BY DEF DrainLabels
<1>6. CASE Deliver(w)
  <2> DEFINE row == [mail[s] EXCEPT !.delivered = Min({2, mail[s].delivered + 1})]
  <2>1. pc[w] = "drain.send" /\ pc' = [pc EXCEPT ![w] = "drain.sent"] /\ mail' = [mail EXCEPT ![s] = row]
    BY <1>6 DEF Deliver, At, Goto
  <2>2. Min({2, mail[s].delivered + 1}) = IF 2 <= mail[s].delivered + 1 THEN 2 ELSE mail[s].delivered + 1
    BY <1>2, LeastOfTwo
  <2>3. Min({2, mail[s].delivered + 1}) = 1
    BY <1>3, <2>1, <2>2
  <2>4. /\ row \in MailRows /\ row.delivered > 0 /\ row.status = "PROCESSING"
        /\ row.attempts = mail[s].attempts
    BY <1>2, <1>3, <2>3 DEF MailRows
  <2> HIDE DEF row
  <2>5. RowAt(s, row)
    BY <1>2, <2>1, <2>4, RowWritten
  <2>6. /\ InHand' = InHand /\ Waiting' = Waiting
        /\ Reported' = Reported /\ HasLeft' = HasLeft \cup {s}
    BY <1>4, <2>4, <2>5, SetStays DEF RowAt
  <2>7. Tried' = Tried
    BY <1>4, <2>4, <2>5 DEF RowAt
  <2>8. Sends!Leave(s)
    BY <1>4, <2>1, <2>6, <2>7 DEF Sends!Leave
  <2>9. HandOK'
    BY <1>1, <1>5, <2>1, <2>4, HandKept
  <2> QED BY <1>2, <2>8, <2>9 DEF OutboxStep, Sends!Next
<1>7. CASE Bounce(w)
  <2>1. UNCHANGED mail /\ pc' = [pc EXCEPT ![w] = "drain.back"]
    BY <1>7 DEF Bounce, Goto, mailboxVars
  <2> PICK row \in MailRows : mail' = [mail EXCEPT ![s] = row]
    BY <1>2, <2>1
  <2>2. "drain.back" \in DrainLabels /\ "drain.back" # "drain.next"
    BY <1>5
  <2>3. HandOK'
    BY <1>1, <2>1, <2>2, HandKept
  <2> QED BY <2>1, <2>3, RowsStand DEF OutboxStep
<1>8. CASE MarkSent(w)
  <2> DEFINE row == [mail[s] EXCEPT !.status = "SENT"]
  <2>1. pc[w] = "drain.sent" /\ pc' = [pc EXCEPT ![w] = "drain.next"] /\ mail' = [mail EXCEPT ![s] = row]
    BY <1>8 DEF MarkSent, At, Goto
  <2>2. /\ row \in MailRows /\ row.delivered = mail[s].delivered /\ row.status = "SENT"
        /\ row.attempts = mail[s].attempts
    BY <1>2 DEF MailRows
  <2> HIDE DEF row
  <2>3. RowAt(s, row)
    BY <1>2, <2>1, <2>2, RowWritten
  <2>4. /\ InHand' = InHand \ {s} /\ Waiting' = Waiting
        /\ Reported' = Reported \cup {s} /\ HasLeft' = HasLeft
    BY <1>3, <1>4, <2>1, <2>2, <2>3, SetStays DEF RowAt
  <2>5. Tried' = Tried
    BY <1>4, <2>2, <2>3 DEF RowAt
  <2>6. Sends!Settle(s)
    BY <1>4, <2>1, <2>4, <2>5 DEF Sends!Settle
  <2>7. HandOK'
    BY <1>1, <1>5, <2>1, <2>2, HandKept
  <2> QED BY <1>2, <2>6, <2>7 DEF OutboxStep, Sends!Next
<1>9. CASE PutBack(w)
  <2> PICK n \in Nat : n = mail[s].attempts + 1
    BY <1>2
  <2> DEFINE row == [mail[s] EXCEPT !.status = "PENDING", !.attempts = n]
  <2>1. pc[w] = "drain.back" /\ pc' = [pc EXCEPT ![w] = "drain.next"] /\ mail' = [mail EXCEPT ![s] = row]
    BY <1>2, <1>9 DEF PutBack, At, Goto, MailRows
  <2>2. row \in MailRows
    BY <1>2 DEF MailRows
  <2>3. row.delivered = mail[s].delivered /\ row.status = "PENDING" /\ row.attempts = n
    BY <1>2 DEF MailRows
  <2> HIDE DEF row
  <2>4. RowAt(s, row)
    BY <1>2, <2>1, <2>2, RowWritten
  <2>5. /\ InHand' = InHand \ {s} /\ Waiting' = Waiting \cup {s}
        /\ Reported' = Reported /\ HasLeft' = HasLeft
    BY <1>3, <1>4, <2>1, <2>3, <2>4, SetStays DEF RowAt
  <2>6. Tried' = [Tried EXCEPT ![s] = Tried[s] + 1]
    BY <1>4, <2>3, <2>4 DEF RowAt
  <2>7. Sends!PutBack(s)
    BY <1>4, <2>1, <2>5, <2>6 DEF Sends!PutBack
  <2>8. HandOK'
    BY <1>1, <1>5, <2>1, <2>2, <2>3, HandKept
  <2> QED BY <1>2, <2>7, <2>8 DEF OutboxStep, Sends!Next
<1> QED BY <1>6, <1>7, <1>8, <1>9

\* No run is at an e-mail, so none is in hand.
LEMMA HandsEmpty ==
    ASSUME OutboxInv, Alone, part = "mail", \A x \in Workers : pc[x] \notin SendLabels,
           \A x \in Workers : pc'[x] \in DrainLabels =>
               \A s \in ctx'[x].batch : mail'[s].attempts < MailAttempts,
           InHand' \subseteq InHand
    PROVE  HandOK'
<1>1. InHand = {}
  BY DEF OutboxInv, HandOK
<1> QED BY <1>1 DEF HandOK

LEMMA MailImplements ==
    ASSUME OutboxInv, [OfficeNext]_officeVars, Alone, part = "mail"
    PROVE  OutboxStep /\ HandOK'
<1>1. DrainInv /\ TurnsInv /\ HandOK /\ mail \in [Subjects -> MailRows \cup {NULL}]
  BY DEF OutboxInv, MailInv, DrainInv, MailTyped
<1>2. DOMAIN pc = Workers /\ DOMAIN ctx = Workers
  BY <1>1 DEF TurnsInv
<1>3. CASE UNCHANGED <<mail, pc, ctx>>
  <2>1. HandOK'
    BY <1>1, <1>3 DEF HandOK, InHand, Queued
  <2> QED BY <1>3, <2>1, RowsStand DEF OutboxStep
<1>4. ASSUME NEW w \in Workers, NEW s \in Subjects, RequestEmail(w, s), Quiet
      PROVE  OutboxStep /\ HandOK'
  <2>1. UNCHANGED mail /\ \A x \in Workers : pc[x] = "idle" /\ pc'[x] \notin DrainLabels
    BY <1>2, <1>4 DEF RequestEmail, Begin, mailboxVars, Quiet, DrainLabels
  <2>2. InHand' = InHand
    BY <2>1 DEF InHand, Queued
  <2>3. HandOK'
    BY <2>1, <2>2, HandsEmpty DEF SendLabels, DrainLabels
  <2> QED BY <2>1, <2>3, RowsStand DEF OutboxStep
<1>5. ASSUME NEW w \in Workers, StartDrain(w), Quiet
      PROVE  OutboxStep /\ HandOK'
  <2> PICK batch \in SUBSET Pending :
          /\ pc' = [pc EXCEPT ![w] = "drain.next"] /\ ctx' = [ctx EXCEPT ![w] = [batch |-> batch]]
          /\ UNCHANGED mail
    BY <1>5 DEF StartDrain, Begin, mailboxVars, kSubset
  <2>1. \A x \in Workers : pc[x] = "idle" /\ (x # w => pc'[x] = "idle")
    BY <1>2, <1>5 DEF Quiet
  <2>2. ctx'[w].batch = batch /\ \A s \in batch : mail'[s].attempts < MailAttempts
    BY <1>2 DEF Pending
  <2>3. InHand' = InHand
    BY DEF InHand, Queued
  <2>4. HandOK'
    BY <2>1, <2>2, <2>3, HandsEmpty DEF SendLabels, DrainLabels
  <2> QED BY <2>4, RowsStand DEF OutboxStep
<1>6. ASSUME NEW w \in Workers, MailboxStep(w)
      PROVE  OutboxStep /\ HandOK'
  <2>1. ~NotifyCreate(w)
    BY <1>1 DEF NotifyCreate, At, DrainInv, MailTyped, StandAt, DrainLabels
  <2>2. CASE QueueEmail(w)
    <3> PICK s : s = ctx[w].subject
      OBVIOUS
    <3>1. /\ pc[w] = "notify.queue" /\ mail' = [mail EXCEPT ![s] = Fresh]
          /\ pc' = [pc EXCEPT ![w] = "idle"]
      BY <2>2 DEF QueueEmail, Return, At, Fresh
    <3>2. s \in Subjects /\ ~Queued(s)
      BY <1>1, <3>1 DEF DrainInv, QueueOK
    <3>3. \A x \in Workers : pc[x] \notin SendLabels /\ pc'[x] \notin DrainLabels
      BY <1>1, <1>2, <3>1 DEF TurnsInv, OneAtATime, Busy, SendLabels, DrainLabels
    <3>4. Fresh \in MailRows /\ Fresh.status # "PROCESSING"
      BY DEF Fresh, MailRows
    <3> HIDE DEF Fresh
    <3>5. RowAt(s, Fresh)
      BY <1>1, <3>1, <3>2, <3>4, RowWritten
    <3>6. InHand' \subseteq InHand
      BY <3>4, <3>5 DEF RowAt
    <3>7. HandOK'
      BY <3>3, <3>6, HandsEmpty
    <3> QED BY <1>1, <3>1, <3>2, <3>7, QueueImplements DEF OutboxStep
  <2>3. CASE DrainDone(w)
    <3>1. pc[w] = "drain.next" /\ pc' = [pc EXCEPT ![w] = "idle"] /\ UNCHANGED mail
      BY <2>3 DEF DrainDone, Return, At, mailboxVars
    <3>2. \A x \in Workers : pc[x] \notin SendLabels /\ pc'[x] \notin DrainLabels
      BY <1>1, <1>2, <3>1 DEF TurnsInv, OneAtATime, Busy, SendLabels, DrainLabels
    <3>3. InHand' = InHand
      BY <3>1 DEF InHand, Queued
    <3>4. HandOK'
      BY <3>2, <3>3, HandsEmpty
    <3> QED BY <3>1, <3>4, RowsStand DEF OutboxStep
  <2> QED BY <1>6, <2>1, <2>2, <2>3, TakeImplements, SendImplements DEF MailboxStep, OutboxStep
<1>7. \A w \in Workers : ~OfficeFails(w)
  BY DEF OfficeFails
<1> QED BY <1>3, <1>4, <1>5, <1>6, <1>7, MailMoves

\* The other services queue e-mails, and nobody takes one.
LEMMA OthersImplement ==
    ASSUME OutboxInv, [OfficeNext]_officeVars, part # "mail"
    PROVE  OutboxStep
<1>1. TurnsInv /\ QueueOnly /\ QueueOnly'
  BY MailKept, PartStays DEF OutboxInv, MailInv
<1>2. Fresh \in MailRows
  BY DEF Fresh, MailRows
<1>3. mail \in [Subjects -> {NULL, Fresh}] /\ mail \in [Subjects -> MailRows \cup {NULL}]
  BY <1>1, <1>2 DEF QueueOnly
<1>4. UNCHANGED mail \/ \E w \in Workers : mail' = [mail EXCEPT ![ctx[w].subject] = Fresh]
  <2>1. CASE part \notin {"contacts", "followup"}
    BY <2>1, OthersKeepMail
  <2>2. CASE part \in {"contacts", "followup"}
    <3>1. ASSUME NEW w \in Workers, LeadsStep(w)
          PROVE  UNCHANGED mail \/ mail' = [mail EXCEPT ![ctx[w].subject] = Fresh]
      BY <1>1, <2>2, <3>1
      DEF QueueOnly, LeadsStep, ContactRank, ContactCreate, ContactCount, LeadWrite, LeadLog,
          MailboxStep, NotifyCreate, QueueEmail, DrainNext, DrainDone, Deliver, Bounce, MarkSent,
          PutBack, At, DrainLabels, mailboxVars, Fresh
    <3>2. ASSUME NEW w \in Workers, OfficeFails(w)
          PROVE  UNCHANGED mail
      BY <3>2 DEF OfficeFails, MarkSentFails, mailboxVars
    <3>3. ASSUME NEW w \in Workers,
                 \/ RequestContact(w) \/ (\E s \in Sellers : SellerLeaves(s))
                 \/ (\E read \in SUBSET Subjects : MarkRead(read)) \/ FollowUp(w)
          PROVE  UNCHANGED mail
      BY <3>3 DEF RequestContact, SellerLeaves, MarkRead, FollowUp, RequestLeadStatus, mailboxVars
    <3> QED BY <2>2, <3>1, <3>2, <3>3, LeadsMove DEF mailboxVars
  <2> QED BY <2>1, <2>2
<1>5. CASE UNCHANGED mail
  BY <1>5, RowsStand DEF OutboxStep
<1>6. ASSUME NEW w \in Workers, mail' = [mail EXCEPT ![ctx[w].subject] = Fresh]
      PROVE  OutboxStep
  <2> PICK s : s = ctx[w].subject
    OBVIOUS
  <2>1. CASE s \in Subjects /\ ~Queued(s)
    BY <1>3, <1>6, <2>1, QueueImplements DEF OutboxStep
  <2>2. CASE ~(s \in Subjects /\ ~Queued(s))
    <3>1. UNCHANGED mail
      BY <1>3, <1>6, <2>2 DEF Queued
    <3> QED BY <3>1, RowsStand DEF OutboxStep
  <2> QED BY <2>1, <2>2
<1> QED BY <1>4, <1>5, <1>6

\* One run at a time, and without failures, every step of job and requests is a step of Outbox or
\* none at all: an e-mail leaves once, is SENT for good when it has left, and is not taken again
\* after MailAttempts tries (JobsService.processEmailQueue, jobs.service.ts:29-59).
THEOREM MailIsSentOnce == OfficeSpec => KeepsOutbox
<1>1. OfficeInit => OutboxInv /\ (Alone => Sends!Init)
  <2> SUFFICES ASSUME OfficeInit PROVE OutboxInv /\ Sends!Init
    OBVIOUS
  <2>1. MailInv
    BY MailStarts
  <2>2. mail = [s \in Subjects |-> NULL] /\ \A w \in Workers : pc[w] = "idle"
    BY DEF OfficeInit, LeadsInit, MailboxInit, HandlersInit
  <2>3. \A s \in Subjects : ~Queued(s)
    BY <2>2 DEF Queued
  <2>4. HasLeft = {} /\ Waiting = {} /\ InHand = {} /\ Reported = {} /\ Tried = [s \in Subjects |-> 0]
    BY <2>3 DEF HasLeft, Waiting, InHand, Reported, Tried
  <2>5. HandOK
    BY <2>2, <2>4 DEF HandOK, DrainLabels
  <2> QED BY <2>1, <2>4, <2>5 DEF OutboxInv, Sends!Init
<1>2. OutboxInv /\ [OfficeNext]_officeVars => OutboxInv' /\ (Alone => OutboxStep)
  <2> SUFFICES ASSUME OutboxInv, [OfficeNext]_officeVars
               PROVE  OutboxInv' /\ (Alone => OutboxStep)
    OBVIOUS
  <2>1. MailInv' /\ UNCHANGED <<part, schedule>>
    BY MailKept, PartStays DEF OutboxInv
  <2>2. CASE part = "mail"
    BY <2>1, <2>2, MailImplements DEF OutboxInv, Alone
  <2>3. CASE part # "mail"
    BY <2>1, <2>3, OthersImplement DEF OutboxInv
  <2> QED BY <2>2, <2>3
<1>3. OutboxInv /\ [OfficeNext]_officeVars =>
          [Alone => Sends!Next \/ UNCHANGED Sends!outboxVars]_officeVars
  BY <1>2 DEF OutboxStep
<1> QED BY <1>1, <1>2, <1>3, PTL DEF OfficeSpec, KeepsOutbox

-----------------------------------------------------------------------------
(* The leads                                                               *)

\* What a request has read so far of the sellers
RankRow(c) ==
    /\ c = [unread |-> c.unread, seller |-> c.seller, rank |-> c.rank]
    /\ c.unread \subseteq Sellers /\ c.seller \in Sellers \cup {NULL}

RanksRead == \A w \in Workers : pc[w] = "contact.rank" => RankRow(ctx[w])

ContactLabels == {"contact.rank", "contact.count", "notify.create", "notify.queue"}

Counting == {w \in Workers : pc[w] = "contact.count"}

\* A handler that goes on with a lead goes on with one that is there.
FollowsLead(w) ==
    /\ pc[w] \in ContactLabels \ {"contact.rank"} => ctx[w].subject \in Created
    /\ pc[w] \in {"notify.create", "notify.queue"} => lead[ctx[w].subject].seller # NULL
    /\ pc[w] = "notify.queue" => notice[ctx[w].subject] # NULL

ContactsInv ==
    /\ StandAt(ContactLabels) /\ RanksRead
    /\ DOMAIN lead = Subjects /\ DOMAIN notice = Subjects /\ DOMAIN mail = Subjects
    /\ IsFiniteSet(Created) /\ contacts \in Nat
    /\ \A w \in Workers : FollowsLead(w)
    /\ contacts + Cardinality(Counting) <= Cardinality(Created)
    /\ \A l \in Subjects : Queued(l) => notice[l] # NULL
    /\ \A l \in Subjects : notice[l] # NULL => lead[l] # NULL /\ lead[l].seller # NULL

Calls(history) == {i \in DOMAIN history : history[i] = "CONTACTED"}

\* first is the number of the first call of the history.
Dates(first, history) ==
    IF Calls(history) = {} THEN first = 0
    ELSE first \in Calls(history) /\ \A i \in Calls(history) : first <= i

Logging(w, l) == pc[w] = "lead.log" /\ ctx[w].lead = l

\* One request at a time: a change is dated as the history will show it.
ChangeOK(w) ==
    /\ pc[w] \in {"lead.write", "lead.log"} =>
           /\ ctx[w].lead \in Subjects /\ lead[ctx[w].lead] \in LeadRows
           /\ ctx[w].status \in LeadStatuses
    /\ pc[w] = "lead.write" =>
           (ctx[w].dates <=> ctx[w].status = "CONTACTED" /\ lead[ctx[w].lead].firstContact = 0)
    /\ pc[w] = "lead.log" =>
           Dates(lead[ctx[w].lead].firstContact,
                 Append(lead[ctx[w].lead].interactions, ctx[w].status))

FollowUpInv ==
    /\ StandAt(ContactLabels \cup {"lead.write", "lead.log"}) /\ RanksRead
    /\ lead \in [Subjects -> LeadRows \cup {NULL}]
    /\ \A w \in Workers : ChangeOK(w)
    /\ \A l \in Created : (\A w \in Workers : ~Logging(w, l)) =>
           Dates(lead[l].firstContact, lead[l].interactions)

\* Where nobody follows leads up, none has been contacted.
Untouched == \A l \in Created : lead[l].firstContact = 0 /\ lead[l].interactions = <<>>

LeadsInv ==
    /\ TurnsInv
    /\ part \notin {"contacts", "followup"} => Created = {}
    /\ part = "contacts" => ContactsInv /\ Untouched
    /\ part = "followup" /\ Alone => FollowUpInv


\* Who is about to count his lead, after w has gone on
LEMMA CountingMoves ==
    ASSUME StandAt(ContactLabels), NEW w \in Workers, NEW label, NEW locals, GoesOn(w, label, locals)
    PROVE  /\ Cardinality(Counting) \in Nat /\ Cardinality(Counting)' \in Nat
           /\ label = "contact.count" /\ pc[w] # "contact.count" =>
                  Cardinality(Counting)' = Cardinality(Counting) + 1
           /\ label # "contact.count" /\ pc[w] = "contact.count" =>
                  Cardinality(Counting)' = Cardinality(Counting) - 1
           /\ (label = "contact.count" <=> pc[w] = "contact.count") =>
                  Cardinality(Counting)' = Cardinality(Counting)
<1>1. Counting \subseteq Workers /\ IsFiniteSet(Workers)
  BY HandlersAssumption DEF Counting
<1>2. IsFiniteSet(Counting) /\ Cardinality(Counting) \in Nat
  BY <1>1, FS_Subset, FS_CardinalityType
<1>3. pc'[w] = label /\ \A x \in Workers \ {w} : pc'[x] = pc[x]
  BY DEF GoesOn, StandAt
<1>4. Counting' = IF label = "contact.count" THEN Counting \cup {w} ELSE Counting \ {w}
  BY <1>3 DEF Counting
<1>5. w \in Counting <=> pc[w] = "contact.count"
  BY DEF Counting
<1>6. CASE label = "contact.count"
  <2>1. CASE w \in Counting
    <3>1. Counting' = Counting
      BY <1>4, <1>6, <2>1
    <3> QED BY <1>2, <1>5, <1>6, <2>1, <3>1
  <2>2. CASE w \notin Counting
    BY <1>2, <1>4, <1>5, <1>6, <2>2, FS_AddElement
  <2> QED BY <2>1, <2>2
<1>7. CASE label # "contact.count"
  <2>1. CASE w \notin Counting
    <3>1. Counting' = Counting
      BY <1>4, <1>7, <2>1
    <3> QED BY <1>2, <1>5, <1>7, <2>1, <3>1
  <2>2. CASE w \in Counting
    <3>1. Cardinality(Counting \ {w}) = Cardinality(Counting) - 1
      BY <1>2, <2>2, FS_RemoveElement
    <3>2. Cardinality(Counting \ {w}) \in Nat
      BY <1>2, <2>2, FS_RemoveElement, FS_CardinalityType
    <3> QED BY <1>2, <1>4, <1>5, <1>7, <2>2, <3>1, <3>2
  <2> QED BY <2>1, <2>2
<1> QED BY <1>6, <1>7

\* A request that goes on leaves the others the leads they go on with.
LEMMA ContactMoves ==
    ASSUME ContactsInv, NEW w \in Workers, NEW label \in {"idle"} \cup ContactLabels, NEW locals,
           GoesOn(w, label, locals), label = "contact.rank" => RankRow(locals),
           DOMAIN lead' = Subjects, DOMAIN notice' = Subjects, DOMAIN mail' = Subjects,
           IsFiniteSet(Created'), contacts' \in Nat,
           \A l \in Created : lead'[l] = lead[l],
           \A l \in Subjects : notice[l] # NULL => notice'[l] # NULL,
           FollowsLead(w)',
           contacts' + Cardinality(Counting)' <= Cardinality(Created)',
           \A l \in Subjects : Queued(l)' => notice'[l] # NULL,
           \A l \in Subjects : notice'[l] # NULL => lead'[l] # NULL /\ lead'[l].seller # NULL
    PROVE  ContactsInv'
<1>1. \A x \in Workers \ {w} : pc'[x] = pc[x] /\ ctx'[x] = ctx[x]
  BY DEF GoesOn, ContactsInv, StandAt
<1>2. pc'[w] = label /\ ctx'[w] = locals
  BY DEF GoesOn, ContactsInv, StandAt
<1>3. StandAt(ContactLabels)'
  BY DEF GoesOn, ContactsInv, StandAt
<1>4. RanksRead'
  BY <1>1, <1>2 DEF ContactsInv, RanksRead
<1>5. Created \subseteq Created'
  BY DEF Created
<1>6. ASSUME NEW x \in Workers \ {w} PROVE FollowsLead(x)'
  <2>1. FollowsLead(x)
    BY DEF ContactsInv
  <2>2. pc[x] \in ContactLabels \ {"contact.rank"} =>
           /\ ctx[x].subject \in Created /\ ctx[x].subject \in Created'
           /\ lead'[ctx[x].subject] = lead[ctx[x].subject] /\ ctx[x].subject \in Subjects
    BY <1>5, <2>1 DEF FollowsLead, Created
  <2> QED BY <1>1, <2>1, <2>2 DEF FollowsLead, ContactLabels
<1> QED BY <1>3, <1>4, <1>6 DEF ContactsInv

LEMMA RankKept ==
    ASSUME RanksRead, NEW w \in Workers, ContactRank(w)
    PROVE  \E locals : /\ pc' = [pc EXCEPT ![w] = "contact.rank"]
                       /\ ctx' = [ctx EXCEPT ![w] = locals] /\ RankRow(locals)
<1> PICK s \in ctx[w].unread :
        \E first \in IF ctx[w].seller = NULL THEN {TRUE}
                     ELSE IF Rank(s) = ctx[w].rank THEN BOOLEAN ELSE {Rank(s) < ctx[w].rank} :
           GotoWith(w, "contact.rank",
              IF first THEN [unread |-> ctx[w].unread \ {s}, seller |-> s, rank |-> Rank(s)]
              ELSE [ctx[w] EXCEPT !.unread = @ \ {s}])
  BY DEF ContactRank
<1> PICK first :
        GotoWith(w, "contact.rank",
           IF first THEN [unread |-> ctx[w].unread \ {s}, seller |-> s, rank |-> Rank(s)]
           ELSE [ctx[w] EXCEPT !.unread = @ \ {s}])
  OBVIOUS
<1> PICK c : c = ctx[w]
  OBVIOUS
<1>1. RankRow(c) /\ s \in Sellers
  BY DEF RanksRead, RankRow, ContactRank, At
<1> PICK r : r = Rank(s)
  OBVIOUS
<1>2. RankRow([unread |-> c.unread \ {s}, seller |-> s, rank |-> r])
  BY <1>1 DEF RankRow
<1>3. RankRow([c EXCEPT !.unread = c.unread \ {s}])
  <2>1. c = [unread |-> c.unread, seller |-> c.seller, rank |-> c.rank]
    BY <1>1 DEF RankRow
  <2>2. [c EXCEPT !.unread = c.unread \ {s}] =
            [unread |-> c.unread \ {s}, seller |-> c.seller, rank |-> c.rank]
    BY <2>1
  <2>3. c.unread \subseteq Sellers /\ c.seller \in Sellers \cup {NULL}
    BY <1>1 DEF RankRow
  <2> QED BY <2>2, <2>3 DEF RankRow
<1> DEFINE locals == IF first THEN [unread |-> c.unread \ {s}, seller |-> s, rank |-> r]
                     ELSE [c EXCEPT !.unread = c.unread \ {s}]
<1>4. RankRow(locals)
  BY <1>2, <1>3
<1>5. pc' = [pc EXCEPT ![w] = "contact.rank"] /\ ctx' = [ctx EXCEPT ![w] = locals]
  BY DEF GotoWith
<1> QED BY <1>4, <1>5


\* A request that changes no row
LEMMA ContactIdles ==
    ASSUME ContactsInv, NEW w \in Workers, NEW label \in {"idle", "contact.rank"}, NEW locals,
           GoesOn(w, label, locals), label = "contact.rank" => RankRow(locals),
           UNCHANGED <<lead, contacts, mailboxVars>>
    PROVE  ContactsInv'
<1>1. StandAt(ContactLabels)
  BY DEF ContactsInv
<1>2. /\ Cardinality(Counting) \in Nat /\ Cardinality(Counting)' \in Nat
      /\ Cardinality(Counting)' <= Cardinality(Counting)
  <2>1. label # "contact.count"
    OBVIOUS
  <2>2. /\ Cardinality(Counting) \in Nat /\ Cardinality(Counting)' \in Nat
        /\ pc[w] = "contact.count" => Cardinality(Counting)' = Cardinality(Counting) - 1
        /\ pc[w] # "contact.count" => Cardinality(Counting)' = Cardinality(Counting)
    BY <1>1, <2>1, CountingMoves
  <2> QED BY <2>2
<1>3. Created' = Created /\ Cardinality(Created) \in Nat
  BY FS_CardinalityType DEF Created, ContactsInv
<1>4. contacts' + Cardinality(Counting)' <= Cardinality(Created)'
  BY <1>2, <1>3 DEF ContactsInv
<1>5. pc'[w] = label
  BY <1>1 DEF GoesOn, StandAt
<1>6. FollowsLead(w)'
  BY <1>5 DEF FollowsLead, ContactLabels
<1>7. \A l \in Subjects : Queued(l)' => notice'[l] # NULL
  BY DEF ContactsInv, Queued, mailboxVars
<1>8. label \in {"idle"} \cup ContactLabels
  BY DEF ContactLabels
<1>9. \A l \in Subjects : notice'[l] # NULL => lead'[l] # NULL /\ lead'[l].seller # NULL
  BY DEF ContactsInv, mailboxVars
<1>10. /\ DOMAIN lead' = Subjects /\ DOMAIN notice' = Subjects /\ DOMAIN mail' = Subjects
       /\ IsFiniteSet(Created') /\ contacts' \in Nat /\ UNCHANGED <<lead, notice>>
  BY <1>3 DEF ContactsInv, mailboxVars
<1> QED BY <1>4, <1>6, <1>7, <1>8, <1>9, <1>10, ContactMoves

LEMMA ContactCreateKept ==
    ASSUME ContactsInv, Untouched, NEW w \in Workers, ContactCreate(w)
    PROVE  ContactsInv' /\ Untouched'
<1> PICK l \in Subjects \ Created :
        /\ pc[w] = "contact.rank"
        /\ lead' = [lead EXCEPT ![l] =
              [seller |-> ctx[w].seller,
               status |-> IF ctx[w].seller = NULL THEN "NEW" ELSE "ASSIGNED",
               firstContact |-> 0, interactions |-> <<>>]]
        /\ pc' = [pc EXCEPT ![w] = "contact.count"] /\ ctx' = [ctx EXCEPT ![w] = [subject |-> l]]
        /\ UNCHANGED <<contacts, notice, mail>>
  BY DEF ContactCreate, At, GotoWith, mailboxVars
<1> DEFINE row == [seller |-> ctx[w].seller,
                   status |-> IF ctx[w].seller = NULL THEN "NEW" ELSE "ASSIGNED",
                   firstContact |-> 0, interactions |-> <<>>]
           locals == [subject |-> l]
<1>1. ctx[w].seller \in Sellers \cup {NULL}
  BY DEF ContactsInv, RanksRead, RankRow
<1>2. row \in LeadRows /\ row.firstContact = 0 /\ row.interactions = <<>>
  BY <1>1 DEF LeadRows, LeadStatuses
<1>3. row # NULL
  BY <1>2, LeadsNull
<1>4. lead' = [lead EXCEPT ![l] = row] /\ locals.subject = l
  OBVIOUS
<1>5. StandAt(ContactLabels) /\ GoesOn(w, "contact.count", locals)
  BY DEF ContactsInv, StandAt, GoesOn
<1> HIDE DEF row, locals
<1>6. lead'[l] = row /\ (\A k \in Subjects \ {l} : lead'[k] = lead[k]) /\ DOMAIN lead' = Subjects
  BY <1>4 DEF ContactsInv
<1>7. Created' = Created \cup {l} /\ l \notin Created /\ \A k \in Created : lead'[k] = lead[k]
  BY <1>3, <1>6 DEF Created
<1>8. IsFiniteSet(Created') /\ Cardinality(Created') = Cardinality(Created) + 1
      /\ Cardinality(Created) \in Nat
  BY <1>7, FS_AddElement, FS_CardinalityType DEF ContactsInv
<1>9. Cardinality(Counting)' = Cardinality(Counting) + 1 /\ Cardinality(Counting) \in Nat
  BY <1>5, CountingMoves
<1>10. contacts' + Cardinality(Counting)' <= Cardinality(Created)' /\ contacts' \in Nat
  BY <1>8, <1>9 DEF ContactsInv
<1>11. pc'[w] = "contact.count" /\ ctx'[w] = locals
  BY <1>5 DEF GoesOn, StandAt
<1>12. FollowsLead(w)'
  BY <1>4, <1>7, <1>11 DEF FollowsLead
<1>13. \A k \in Subjects : notice'[k] # NULL => lead'[k] # NULL /\ lead'[k].seller # NULL
  BY <1>7 DEF ContactsInv, Created
<1>14. \A k \in Subjects : Queued(k)' => notice'[k] # NULL
  BY DEF ContactsInv, Queued
<1>15. Untouched'
  BY <1>2, <1>6, <1>7 DEF Untouched
<1>16. DOMAIN notice' = Subjects /\ DOMAIN mail' = Subjects /\ "contact.count" \in ContactLabels
  BY DEF ContactsInv, ContactLabels
<1>17. ContactsInv'
  BY <1>5, <1>6, <1>7, <1>8, <1>10, <1>12, <1>13, <1>14, <1>16, ContactMoves
<1> QED BY <1>15, <1>17

LEMMA ContactCountKept ==
    ASSUME ContactsInv, NEW w \in Workers, ContactCount(w)
    PROVE  ContactsInv'
<1> PICK l : l = ctx[w].subject
  OBVIOUS
<1>1. /\ pc[w] = "contact.count" /\ contacts' = contacts + 1
      /\ UNCHANGED <<lead, notice, mail>>
  BY DEF ContactCount, At, mailboxVars
<1>2. StandAt(ContactLabels) /\ l \in Created
  BY <1>1 DEF ContactsInv, FollowsLead, ContactLabels
<1>3. PICK label, locals :
          /\ label \in {"idle", "notify.create"} /\ GoesOn(w, label, locals)
          /\ label = "notify.create" => locals = ctx[w] /\ lead[l].seller # NULL
  <2>1. CASE lead[l].seller = NULL
    <3>1. GoesOn(w, "idle", NULL)
      BY <1>2, <2>1 DEF ContactCount, Return, StandAt, GoesOn
    <3> QED BY <3>1
  <2>2. CASE lead[l].seller # NULL
    <3>1. GoesOn(w, "notify.create", ctx[w])
      BY <1>2, <2>2 DEF ContactCount, Goto, StandAt, GoesOn
    <3> QED BY <2>2, <3>1
  <2> QED BY <2>1, <2>2
<1>4. label \in {"idle"} \cup ContactLabels /\ label # "contact.count" /\ label # "contact.rank"
  BY <1>3 DEF ContactLabels
<1>5. Cardinality(Counting)' = Cardinality(Counting) - 1 /\ Cardinality(Counting) \in Nat
  BY <1>1, <1>2, <1>3, <1>4, CountingMoves
<1>6. Created' = Created /\ Cardinality(Created) \in Nat
  BY <1>1, FS_CardinalityType DEF Created, ContactsInv
<1>7. contacts' + Cardinality(Counting)' <= Cardinality(Created)' /\ contacts' \in Nat
  BY <1>1, <1>5, <1>6 DEF ContactsInv
<1>8. pc'[w] = label /\ ctx'[w] = locals
  BY <1>2, <1>3 DEF GoesOn, StandAt
<1>9. FollowsLead(w)'
  BY <1>1, <1>2, <1>3, <1>6, <1>8 DEF FollowsLead, ContactLabels
<1>10. \A k \in Subjects : Queued(k)' => notice'[k] # NULL
  BY <1>1 DEF ContactsInv, Queued
<1>11. /\ DOMAIN lead' = Subjects /\ DOMAIN notice' = Subjects /\ DOMAIN mail' = Subjects
       /\ IsFiniteSet(Created')
       /\ \A k \in Subjects : notice'[k] # NULL => lead'[k] # NULL /\ lead'[k].seller # NULL
  BY <1>1, <1>6 DEF ContactsInv
<1> QED BY <1>1, <1>3, <1>4, <1>7, <1>9, <1>10, <1>11, ContactMoves

LEMMA NotifyCreateKept ==
    ASSUME ContactsInv, NEW w \in Workers, NotifyCreate(w), UNCHANGED leadVars
    PROVE  ContactsInv'
<1> PICK l : l = ctx[w].subject
  OBVIOUS
<1>1. /\ pc[w] = "notify.create" /\ notice' = [notice EXCEPT ![l] = "UNREAD"]
      /\ UNCHANGED <<lead, contacts, mail>>
  BY DEF NotifyCreate, At, leadVars
<1>2. StandAt(ContactLabels) /\ l \in Created /\ lead[l].seller # NULL
  BY <1>1 DEF ContactsInv, FollowsLead, ContactLabels
<1>3. GoesOn(w, "notify.queue", ctx[w])
  BY <1>2 DEF NotifyCreate, Goto, StandAt, GoesOn
<1>4. "notify.queue" \in ContactLabels /\ "notify.queue" # "contact.rank" /\ "UNREAD" # NULL
  BY MailboxNull DEF ContactLabels
<1>5. Cardinality(Counting)' = Cardinality(Counting)
  BY <1>1, <1>2, <1>3, CountingMoves
<1>6. Created' = Created
  BY <1>1 DEF Created
<1>7. contacts' + Cardinality(Counting)' <= Cardinality(Created)' /\ contacts' \in Nat
  BY <1>1, <1>5, <1>6 DEF ContactsInv
<1>8. pc'[w] = "notify.queue" /\ ctx'[w] = ctx[w]
  BY <1>2, <1>3 DEF GoesOn, StandAt
<1>9. /\ l \in Subjects /\ DOMAIN notice' = Subjects /\ notice'[l] = "UNREAD"
      /\ \A k \in Subjects \ {l} : notice'[k] = notice[k]
  BY <1>1, <1>2 DEF ContactsInv, Created
<1>10. FollowsLead(w)'
  BY <1>1, <1>2, <1>4, <1>6, <1>8, <1>9 DEF FollowsLead
<1>11. \A k \in Subjects : Queued(k)' => notice'[k] # NULL
  BY <1>1, <1>4, <1>9 DEF ContactsInv, Queued
<1>12. \A k \in Subjects : notice'[k] # NULL => lead'[k] # NULL /\ lead'[k].seller # NULL
  BY <1>1, <1>2, <1>9 DEF ContactsInv, Created
<1>13. DOMAIN lead' = Subjects /\ DOMAIN mail' = Subjects /\ IsFiniteSet(Created')
  BY <1>1, <1>6 DEF ContactsInv
<1>14. \A k \in Subjects : notice[k] # NULL => notice'[k] # NULL
  BY <1>4, <1>9
<1> QED BY <1>1, <1>3, <1>4, <1>7, <1>9, <1>10, <1>11, <1>12, <1>13, <1>14, ContactMoves

LEMMA QueueNoticeKept ==
    ASSUME ContactsInv, NEW w \in Workers, QueueEmail(w), UNCHANGED leadVars
    PROVE  ContactsInv'
<1> PICK l : l = ctx[w].subject
  OBVIOUS
<1>1. /\ pc[w] = "notify.queue" /\ mail' = [mail EXCEPT ![l] = Fresh]
      /\ UNCHANGED <<lead, contacts, notice>>
  BY DEF QueueEmail, At, leadVars, Fresh
<1> HIDE DEF Fresh
<1>2. StandAt(ContactLabels) /\ l \in Subjects /\ notice[l] # NULL
  BY <1>1 DEF ContactsInv, FollowsLead, ContactLabels, Created
<1>3. GoesOn(w, "idle", NULL)
  BY <1>2 DEF QueueEmail, Return, StandAt, GoesOn
<1>4. Cardinality(Counting)' = Cardinality(Counting)
  BY <1>1, <1>2, <1>3, CountingMoves
<1>5. Created' = Created
  BY <1>1 DEF Created
<1>6. contacts' + Cardinality(Counting)' <= Cardinality(Created)' /\ contacts' \in Nat
  BY <1>1, <1>4, <1>5 DEF ContactsInv
<1>7. pc'[w] = "idle"
  BY <1>2, <1>3 DEF GoesOn, StandAt
<1>8. FollowsLead(w)'
  BY <1>7 DEF FollowsLead, ContactLabels
<1>9. DOMAIN mail' = Subjects /\ \A k \in Subjects \ {l} : mail'[k] = mail[k]
  BY <1>1, <1>2 DEF ContactsInv
<1>10. \A k \in Subjects : Queued(k)' => notice'[k] # NULL
  BY <1>1, <1>2, <1>9 DEF ContactsInv, Queued
<1>11. /\ DOMAIN lead' = Subjects /\ DOMAIN notice' = Subjects /\ IsFiniteSet(Created')
       /\ \A k \in Subjects : notice'[k] # NULL => lead'[k] # NULL /\ lead'[k].seller # NULL
  BY <1>1, <1>5 DEF ContactsInv
<1> QED BY <1>1, <1>3, <1>6, <1>8, <1>9, <1>10, <1>11, ContactMoves


LEMMA ContactsKept ==
    ASSUME ContactsInv, Untouched, [OfficeNext]_officeVars, part = "contacts"
    PROVE  ContactsInv' /\ Untouched'
<1> USE DEF ContactLabels
<1>1. StandAt(ContactLabels)
  BY DEF ContactsInv
<1>2. ASSUME UNCHANGED lead PROVE Untouched'
  BY <1>2 DEF Untouched, Created
<1>3. ASSUME UNCHANGED <<leadVars, mailboxVars, pc, ctx>> PROVE ContactsInv'
  BY <1>3 DEF leadVars, mailboxVars, ContactsInv, StandAt, RanksRead, FollowsLead, Counting,
     Created, Queued
<1>4. ASSUME NEW w \in Workers, RequestContact(w)
      PROVE  ContactsInv' /\ Untouched'
  <2> DEFINE locals == [unread |-> {s \in Sellers : seller[s]}, seller |-> NULL, rank |-> 0]
  <2>1. RankRow(locals)
    BY DEF RankRow
  <2>2. GoesOn(w, "contact.rank", locals) /\ UNCHANGED <<lead, contacts, mailboxVars>>
    BY <1>1, <1>4 DEF RequestContact, Begin, StandAt, GoesOn, leadVars
  <2> HIDE DEF locals
  <2> QED BY <1>2, <2>1, <2>2, ContactIdles
<1>5. ASSUME NEW s \in Sellers, SellerLeaves(s)
      PROVE  ContactsInv' /\ Untouched'
  BY <1>2, <1>5 DEF SellerLeaves, handlerVars, leadVars, mailboxVars, ContactsInv, StandAt,
     RanksRead, FollowsLead, Counting, Created, Queued
<1>6. ASSUME NEW w \in Workers, LeadsStep(w)
      PROVE  ContactsInv' /\ Untouched'
  <2>1. CASE ContactRank(w)
    <3>1. PICK locals : GoesOn(w, "contact.rank", locals) /\ RankRow(locals)
      BY <1>1, <2>1, RankKept DEF ContactsInv, StandAt, GoesOn
    <3>2. UNCHANGED <<lead, contacts, mailboxVars>>
      BY <2>1 DEF ContactRank, leadVars
    <3> QED BY <1>2, <3>1, <3>2, ContactIdles
  <2>2. CASE ContactCreate(w)
    BY <2>2, ContactCreateKept
  <2>3. CASE ContactCount(w)
    BY <1>2, <2>3, ContactCountKept DEF ContactCount
  <2>4. CASE MailboxStep(w) /\ UNCHANGED leadVars
    <3>1. NotifyCreate(w) \/ QueueEmail(w)
      BY <1>1, <2>4 DEF MailboxStep, DrainNext, DrainDone, Deliver, Bounce, MarkSent, PutBack, At,
         StandAt
    <3>2. UNCHANGED lead
      BY <2>4 DEF leadVars
    <3> QED BY <1>2, <2>4, <3>1, <3>2, NotifyCreateKept, QueueNoticeKept
  <2>5. ~LeadWrite(w) /\ ~LeadLog(w)
    BY <1>1 DEF LeadWrite, LeadLog, At, StandAt
  <2> QED BY <1>6, <2>1, <2>2, <2>3, <2>4, <2>5 DEF LeadsStep
<1>7. ASSUME NEW w \in Workers, OfficeFails(w)
      PROVE  ContactsInv' /\ Untouched'
  <2>1. ~MarkSentFails(w)
    BY <1>1 DEF MarkSentFails, At, StandAt
  <2>2. GoesOn(w, "idle", NULL) /\ UNCHANGED <<lead, contacts, mailboxVars>>
    BY <1>1, <1>7, <2>1 DEF OfficeFails, Die, StandAt, GoesOn, leadVars
  <2> QED BY <1>2, <2>2, ContactIdles
<1>8. CASE UNCHANGED <<leadVars, mailboxVars, pc, ctx>>
  BY <1>2, <1>3, <1>8 DEF leadVars
<1> QED BY <1>4, <1>5, <1>6, <1>7, <1>8, LeadsMove

\* The first call is dated once, by the change that is it.
LEMMA FirstDated ==
    ASSUME NEW history \in Seq(LeadStatuses), NEW first \in Nat, Dates(first, history),
           NEW status \in LeadStatuses
    PROVE  Dates(IF status = "CONTACTED" /\ first = 0 THEN Len(history) + 1 ELSE first,
                 Append(history, status))
<1> DEFINE h == Append(history, status)
           n == Len(history) + 1
<1>1. /\ h \in Seq(LeadStatuses) /\ n \in Nat \ {0} /\ DOMAIN h = DOMAIN history \cup {n}
      /\ h[n] = status /\ \A i \in DOMAIN history : h[i] = history[i] /\ i \in Nat \ {0} /\ i < n
  OBVIOUS
<1> HIDE DEF h, n
<1>2. Calls(h) = IF status = "CONTACTED" THEN Calls(history) \cup {n} ELSE Calls(history)
  BY <1>1 DEF Calls
<1>3. \A i \in Calls(history) : i \in Nat \ {0} /\ i < n
  BY <1>1 DEF Calls
<1>4. first = 0 <=> Calls(history) = {}
  BY <1>3 DEF Dates
<1>5. Dates(IF status = "CONTACTED" /\ first = 0 THEN n ELSE first, h)
  <2>1. CASE status # "CONTACTED"
    BY <1>2, <2>1 DEF Dates
  <2>2. CASE status = "CONTACTED" /\ first = 0
    BY <1>1, <1>2, <1>4, <2>2 DEF Dates
  <2>3. CASE status = "CONTACTED" /\ first # 0
    <3>1. first \in Calls(history) /\ \A i \in Calls(history) : first <= i
      BY <1>4, <2>3 DEF Dates
    <3>2. first <= n
      BY <1>1, <1>3, <3>1
    <3> QED BY <1>2, <2>3, <3>1, <3>2 DEF Dates
  <2> QED BY <2>1, <2>2, <2>3
<1> QED BY <1>5 DEF h, n

LEMMA DatesFirst ==
    ASSUME NEW first, NEW history \in Seq(LeadStatuses), Dates(first, history)
    PROVE  first = IF Calls(history) = {} THEN 0 ELSE Min(Calls(history))
<1>1. CASE Calls(history) = {}
  BY <1>1 DEF Dates
<1>2. CASE Calls(history) # {}
  <2>1. first \in Calls(history) /\ \A i \in Calls(history) : first <= i
    BY <1>2 DEF Dates
  <2>2. Calls(history) \subseteq Nat
    BY DEF Calls
  <2>3. \A m \in Calls(history) : (\A i \in Calls(history) : m <= i) => m = first
    BY <2>1, <2>2
  <2> QED BY <1>2, <2>1, <2>3 DEF Min
<1> QED BY <1>1, <1>2


FollowLabels == ContactLabels \cup {"lead.write", "lead.log"}

LEMMA FollowMoves ==
    ASSUME FollowUpInv, NEW w \in Workers, \A x \in Workers \ {w} : pc[x] = "idle",
           NEW label \in {"idle"} \cup FollowLabels, NEW locals, GoesOn(w, label, locals),
           label = "contact.rank" => RankRow(locals),
           lead' \in [Subjects -> LeadRows \cup {NULL}], ChangeOK(w)',
           \A l \in Created' : ~Logging(w, l)' =>
               Dates(lead'[l].firstContact, lead'[l].interactions)
    PROVE  FollowUpInv'
<1>1. \A x \in Workers \ {w} : pc'[x] = "idle" /\ ctx'[x] = ctx[x]
  BY DEF FollowUpInv, StandAt, GoesOn
<1>2. pc'[w] = label /\ ctx'[w] = locals
  BY DEF FollowUpInv, StandAt, GoesOn
<1>3. StandAt(FollowLabels)'
  BY DEF FollowUpInv, StandAt, GoesOn, FollowLabels
<1>4. RanksRead'
  BY <1>1, <1>2 DEF RanksRead
<1>5. \A x \in Workers : ChangeOK(x)'
  BY <1>1 DEF ChangeOK
<1> QED BY <1>3, <1>4, <1>5 DEF FollowUpInv, FollowLabels

\* A step that leaves the leads as they are and does not log
LEMMA FollowIdles ==
    ASSUME FollowUpInv, NEW w \in Workers, \A x \in Workers \ {w} : pc[x] = "idle",
           pc[w] # "lead.log", NEW label \in {"idle"} \cup ContactLabels, NEW locals,
           GoesOn(w, label, locals), label = "contact.rank" => RankRow(locals), UNCHANGED lead
    PROVE  FollowUpInv'
<1>1. pc'[w] = label /\ label \notin {"lead.write", "lead.log"}
  BY DEF FollowUpInv, StandAt, GoesOn, ContactLabels
<1>2. ChangeOK(w)'
  BY <1>1 DEF ChangeOK
<1>3. \A x \in Workers, l \in Created : ~Logging(x, l)
  BY DEF Logging
<1>4. \A l \in Created : Dates(lead[l].firstContact, lead[l].interactions)
  BY <1>3 DEF FollowUpInv
<1>5. \A l \in Created' : Dates(lead'[l].firstContact, lead'[l].interactions)
  BY <1>4 DEF Created
<1>6. lead' \in [Subjects -> LeadRows \cup {NULL}] /\ label \in {"idle"} \cup FollowLabels
  BY DEF FollowUpInv, FollowLabels
<1> QED BY <1>2, <1>5, <1>6, FollowMoves

LEMMA RequestStatusKept ==
    ASSUME FollowUpInv, NEW w \in Workers, NEW l \in Subjects, NEW status \in LeadStatuses,
           RequestLeadStatus(w, l, status), Quiet
    PROVE  FollowUpInv'
<1> DEFINE dates == status = "CONTACTED" /\ lead[l].firstContact = 0
           locals == [lead |-> l, status |-> status, dates |-> dates]
<1>1. /\ lead[l] # NULL /\ UNCHANGED lead /\ pc' = [pc EXCEPT ![w] = "lead.write"]
      /\ ctx' = [ctx EXCEPT ![w] = locals]
  BY DEF RequestLeadStatus, Begin, leadVars
<1>2. /\ locals.lead = l /\ locals.status = status
      /\ locals.dates <=> status = "CONTACTED" /\ lead[l].firstContact = 0
  OBVIOUS
<1> HIDE DEF locals
<1>3. lead[l] \in LeadRows
  BY <1>1 DEF FollowUpInv
<1>4. GoesOn(w, "lead.write", locals) /\ pc'[w] = "lead.write" /\ ctx'[w] = locals
  BY <1>1 DEF FollowUpInv, StandAt, GoesOn
<1>5. ChangeOK(w)'
  BY <1>1, <1>2, <1>3, <1>4 DEF ChangeOK
<1>6. \A x \in Workers, k \in Created : ~Logging(x, k)
  BY DEF Logging, Quiet
<1>7. \A k \in Created : Dates(lead[k].firstContact, lead[k].interactions)
  BY <1>6 DEF FollowUpInv
<1>8. \A k \in Created' : Dates(lead'[k].firstContact, lead'[k].interactions)
  BY <1>1, <1>7 DEF Created
<1>9. /\ lead' \in [Subjects -> LeadRows \cup {NULL}] /\ "lead.write" \in FollowLabels
      /\ \A x \in Workers : pc[x] = "idle"
  BY <1>1 DEF FollowUpInv, FollowLabels, Quiet
<1> QED BY <1>4, <1>5, <1>8, <1>9, FollowMoves

LEMMA FollowCreateKept ==
    ASSUME FollowUpInv, NEW w \in Workers, \A x \in Workers \ {w} : pc[x] = "idle",
           ContactCreate(w)
    PROVE  FollowUpInv'
<1> PICK l \in Subjects \ Created :
        /\ pc[w] = "contact.rank"
        /\ lead' = [lead EXCEPT ![l] =
              [seller |-> ctx[w].seller,
               status |-> IF ctx[w].seller = NULL THEN "NEW" ELSE "ASSIGNED",
               firstContact |-> 0, interactions |-> <<>>]]
        /\ pc' = [pc EXCEPT ![w] = "contact.count"] /\ ctx' = [ctx EXCEPT ![w] = [subject |-> l]]
  BY DEF ContactCreate, At, GotoWith
<1> DEFINE row == [seller |-> ctx[w].seller,
                   status |-> IF ctx[w].seller = NULL THEN "NEW" ELSE "ASSIGNED",
                   firstContact |-> 0, interactions |-> <<>>]
           locals == [subject |-> l]
<1>1. ctx[w].seller \in Sellers \cup {NULL}
  BY DEF FollowUpInv, RanksRead, RankRow
<1>2. row \in LeadRows /\ row.firstContact = 0 /\ row.interactions = <<>>
  BY <1>1 DEF LeadRows, LeadStatuses
<1>3. lead' = [lead EXCEPT ![l] = row]
  OBVIOUS
<1>4. GoesOn(w, "contact.count", locals) /\ pc'[w] = "contact.count"
  BY DEF FollowUpInv, StandAt, GoesOn
<1> HIDE DEF row, locals
<1>5. /\ lead' \in [Subjects -> LeadRows \cup {NULL}]
      /\ lead'[l] = row /\ \A k \in Subjects \ {l} : lead'[k] = lead[k]
  BY <1>2, <1>3 DEF FollowUpInv
<1>6. \A x \in Workers, k \in Created : ~Logging(x, k)
  BY DEF Logging
<1>7. \A k \in Created : Dates(lead[k].firstContact, lead[k].interactions)
  BY <1>6 DEF FollowUpInv
<1>8. Dates(row.firstContact, row.interactions)
  <2>1. Calls(<<>>) = {}
    BY DEF Calls
  <2> QED BY <1>2, <2>1 DEF Dates
<1>9. ASSUME NEW k \in Created' PROVE Dates(lead'[k].firstContact, lead'[k].interactions)
  BY <1>5, <1>7, <1>8 DEF Created
<1>10. ChangeOK(w)' /\ "contact.count" \in FollowLabels
  BY <1>4 DEF ChangeOK, FollowLabels, ContactLabels
<1> QED BY <1>4, <1>5, <1>9, <1>10, FollowMoves

LEMMA LeadWriteKept ==
    ASSUME FollowUpInv, NEW w \in Workers, \A x \in Workers \ {w} : pc[x] = "idle", LeadWrite(w)
    PROVE  FollowUpInv'
<1> PICK l : l = ctx[w].lead
  OBVIOUS
<1> PICK status : status = ctx[w].status
  OBVIOUS
<1> DEFINE first == IF status = "CONTACTED" /\ lead[l].firstContact = 0
                    THEN Len(lead[l].interactions) + 1 ELSE lead[l].firstContact
           row == [lead[l] EXCEPT !.status = status, !.firstContact = first]
<1>1. /\ pc[w] = "lead.write" /\ l \in Subjects /\ lead[l] \in LeadRows /\ status \in LeadStatuses
      /\ ctx[w].dates <=> status = "CONTACTED" /\ lead[l].firstContact = 0
  BY DEF FollowUpInv, ChangeOK, LeadWrite, At
<1>2. lead[l].firstContact \in Nat /\ lead[l].interactions \in Seq(LeadStatuses)
  BY <1>1 DEF LeadRows
<1>3. first \in Nat
  BY <1>2
<1>4. lead' = [lead EXCEPT ![l].status = status,
                  ![l].firstContact = IF ctx[w].dates THEN Len(lead[l].interactions) + 1 ELSE @]
  BY DEF LeadWrite
<1>5. IF ctx[w].dates THEN first = Len(lead[l].interactions) + 1 ELSE first = lead[l].firstContact
  BY <1>1
<1> HIDE DEF first
<1>6. /\ lead'[l] = row /\ \A k \in Subjects \ {l} : lead'[k] = lead[k]
      /\ DOMAIN lead' = Subjects
  BY <1>1, <1>4, <1>5 DEF FollowUpInv, LeadRows
<1>7. /\ row \in LeadRows /\ row.firstContact = first /\ row.interactions = lead[l].interactions
  BY <1>1, <1>3 DEF LeadRows
<1> HIDE DEF row
<1>8. lead' \in [Subjects -> LeadRows \cup {NULL}]
  BY <1>4, <1>6, <1>7 DEF FollowUpInv
<1>9. GoesOn(w, "lead.log", ctx[w]) /\ pc'[w] = "lead.log" /\ ctx'[w] = ctx[w]
  BY DEF LeadWrite, Goto, FollowUpInv, StandAt, GoesOn
<1>10. l \in Created /\ \A x \in Workers, k \in Created : ~Logging(x, k)
  BY <1>1, LeadsNull DEF Logging, Created
<1>11. \A k \in Created : Dates(lead[k].firstContact, lead[k].interactions)
  BY <1>10 DEF FollowUpInv
<1>12. Dates(first, Append(lead[l].interactions, status))
  <2>1. Dates(lead[l].firstContact, lead[l].interactions)
    BY <1>10, <1>11
  <2> QED BY <1>1, <1>2, <2>1, FirstDated DEF first
<1>13. ChangeOK(w)'
  BY <1>1, <1>6, <1>7, <1>9, <1>12 DEF ChangeOK
<1>14. ASSUME NEW k \in Created', ~Logging(w, k)'
       PROVE  Dates(lead'[k].firstContact, lead'[k].interactions)
  <2>1. k # l
    BY <1>9, <1>14 DEF Logging
  <2> QED BY <1>6, <1>11, <1>14, <2>1 DEF Created
<1>15. "lead.log" \in FollowLabels
  BY DEF FollowLabels
<1> QED BY <1>8, <1>9, <1>13, <1>14, <1>15, FollowMoves

LEMMA LeadLogKept ==
    ASSUME FollowUpInv, NEW w \in Workers, \A x \in Workers \ {w} : pc[x] = "idle", LeadLog(w)
    PROVE  FollowUpInv'
<1> PICK l : l = ctx[w].lead
  OBVIOUS
<1> PICK status : status = ctx[w].status
  OBVIOUS
<1> DEFINE history == Append(lead[l].interactions, status)
           row == [lead[l] EXCEPT !.interactions = history]
<1>1. /\ pc[w] = "lead.log" /\ l \in Subjects /\ lead[l] \in LeadRows /\ status \in LeadStatuses
      /\ Dates(lead[l].firstContact, history)
  BY DEF FollowUpInv, ChangeOK, LeadLog, At
<1>2. history \in Seq(LeadStatuses)
  BY <1>1 DEF LeadRows
<1>3. lead' = [lead EXCEPT ![l].interactions = history]
  BY DEF LeadLog
<1> HIDE DEF history
<1>4. /\ lead'[l] = row /\ \A k \in Subjects \ {l} : lead'[k] = lead[k]
      /\ DOMAIN lead' = Subjects
  BY <1>1, <1>3 DEF FollowUpInv
<1>5. row \in LeadRows /\ row.firstContact = lead[l].firstContact /\ row.interactions = history
  BY <1>1, <1>2 DEF LeadRows
<1> HIDE DEF row
<1>6. lead' \in [Subjects -> LeadRows \cup {NULL}]
  BY <1>3, <1>4, <1>5 DEF FollowUpInv
<1>7. GoesOn(w, "idle", NULL) /\ pc'[w] = "idle"
  BY DEF LeadLog, Return, FollowUpInv, StandAt, GoesOn
<1>8. \A x \in Workers, k \in Created \ {l} : ~Logging(x, k)
  BY DEF Logging
<1>9. \A k \in Created \ {l} : Dates(lead[k].firstContact, lead[k].interactions)
  BY <1>8 DEF FollowUpInv
<1>10. ASSUME NEW k \in Created' PROVE Dates(lead'[k].firstContact, lead'[k].interactions)
  <2>1. CASE k = l
    BY <1>1, <1>4, <1>5, <2>1
  <2>2. CASE k # l
    BY <1>4, <1>9, <2>2 DEF Created
  <2> QED BY <2>1, <2>2
<1>11. ChangeOK(w)'
  BY <1>7 DEF ChangeOK
<1> QED BY <1>6, <1>7, <1>10, <1>11, FollowMoves


LEMMA FollowsKept ==
    ASSUME TurnsInv, FollowUpInv, Alone, part = "followup", [OfficeNext]_officeVars
    PROVE  FollowUpInv'
<1> USE DEF ContactLabels
<1>1. StandAt(ContactLabels \cup {"lead.write", "lead.log"})
  BY DEF FollowUpInv
<1>2. ASSUME UNCHANGED <<lead, pc, ctx>> PROVE FollowUpInv'
  BY <1>2 DEF FollowUpInv, StandAt, RanksRead, ChangeOK, Logging, Created
<1>3. ASSUME NEW w \in Workers, RequestContact(w), Quiet
      PROVE  FollowUpInv'
  <2> DEFINE locals == [unread |-> {s \in Sellers : seller[s]}, seller |-> NULL, rank |-> 0]
  <2>1. RankRow(locals)
    BY DEF RankRow
  <2>2. GoesOn(w, "contact.rank", locals) /\ UNCHANGED lead
    BY <1>1, <1>3 DEF RequestContact, Begin, StandAt, GoesOn, leadVars
  <2> HIDE DEF locals
  <2>3. \A x \in Workers : pc[x] = "idle"
    BY <1>3 DEF Quiet
  <2> QED BY <2>1, <2>2, <2>3, FollowIdles
<1>4. ASSUME NEW w \in Workers, FollowUp(w), Quiet
      PROVE  FollowUpInv'
  BY <1>4, RequestStatusKept DEF FollowUp, LeadStatuses
<1>5. ASSUME NEW read \in SUBSET Subjects, MarkRead(read), UNCHANGED leadVars
      PROVE  FollowUpInv'
  BY <1>2, <1>5 DEF MarkRead, handlerVars, leadVars
<1>6. ASSUME NEW w \in Workers, LeadsStep(w)
      PROVE  FollowUpInv'
  <2>1. pc[w] # "idle"
    BY <1>6, LeadsTurn DEF TurnsInv, Busy
  <2>2. \A x \in Workers \ {w} : pc[x] = "idle"
    BY <2>1, OthersIdle
  <2>3. CASE ContactRank(w)
    <3>1. PICK locals : GoesOn(w, "contact.rank", locals) /\ RankRow(locals)
      BY <1>1, <2>3, RankKept DEF FollowUpInv, StandAt, GoesOn
    <3>2. UNCHANGED lead /\ pc[w] # "lead.log"
      BY <2>3 DEF ContactRank, leadVars, At
    <3> QED BY <2>2, <3>1, <3>2, FollowIdles
  <2>4. CASE ContactCount(w)
    <3>1. PICK label, locals : label \in {"idle", "notify.create"} /\ GoesOn(w, label, locals)
      BY <1>1, <2>4 DEF ContactCount, Return, Goto, StandAt, GoesOn
    <3>2. UNCHANGED lead /\ pc[w] # "lead.log"
      BY <2>4 DEF ContactCount, At
    <3> QED BY <2>2, <3>1, <3>2, FollowIdles
  <2>5. CASE MailboxStep(w) /\ UNCHANGED leadVars
    <3>1. NotifyCreate(w) \/ QueueEmail(w)
      BY <1>1, <2>5 DEF MailboxStep, DrainNext, DrainDone, Deliver, Bounce, MarkSent, PutBack, At,
         StandAt
    <3>2. UNCHANGED lead /\ pc[w] # "lead.log"
      BY <2>5, <3>1 DEF leadVars, NotifyCreate, QueueEmail, At
    <3>3. PICK label, locals : label \in {"idle", "notify.queue"} /\ GoesOn(w, label, locals)
      BY <1>1, <3>1 DEF NotifyCreate, QueueEmail, Return, Goto, StandAt, GoesOn
    <3> QED BY <2>2, <3>2, <3>3, FollowIdles
  <2> QED
    BY <1>6, <2>2, <2>3, <2>4, <2>5, FollowCreateKept, LeadWriteKept, LeadLogKept DEF LeadsStep
<1>7. ASSUME NEW w \in Workers PROVE ~OfficeFails(w)
  BY DEF OfficeFails
<1>8. CASE UNCHANGED <<leadVars, mailboxVars, pc, ctx>>
  BY <1>2, <1>8 DEF leadVars
<1> QED BY <1>3, <1>4, <1>5, <1>6, <1>7, <1>8, LeadsMove

LEMMA OthersKeepLeads ==
    ASSUME [OfficeNext]_officeVars, part \notin {"contacts", "followup"}
    PROVE  UNCHANGED lead
<1>1. ASSUME NEW w \in Workers, OfficeRequest(w) \/ OfficeStep(w) \/ OfficeFails(w)
      PROVE  UNCHANGED lead
  BY <1>1 DEF OfficeRequest, OfficeStep, OfficeFails, Only, leadVars
<1> QED
  BY <1>1 DEF OfficeNext, officeVars, leadsVars, leadVars, Only, DrainJob, ExpiryJob, DeletionJob

LEMMA LeadsKept == LeadsInv /\ [OfficeNext]_officeVars => LeadsInv'
<1> SUFFICES ASSUME LeadsInv, [OfficeNext]_officeVars PROVE LeadsInv'
  OBVIOUS
<1>1. TurnsInv' /\ UNCHANGED <<part, schedule>>
  BY TurnsStep, PartStays DEF LeadsInv
<1>2. CASE part \notin {"contacts", "followup"}
  BY <1>1, <1>2, OthersKeepLeads DEF LeadsInv, Created
<1>3. CASE part = "contacts"
  BY <1>1, <1>3, ContactsKept DEF LeadsInv
<1>4. CASE part = "followup"
  <2>1. Alone => FollowUpInv'
    BY <1>4, FollowsKept DEF LeadsInv
  <2> QED BY <1>1, <1>4, <2>1 DEF LeadsInv, Alone
<1> QED BY <1>2, <1>3, <1>4

LEMMA LeadsInvInit == OfficeInit => LeadsInv
<1> SUFFICES ASSUME OfficeInit PROVE LeadsInv
  OBVIOUS
<1>1. /\ lead = [l \in Subjects |-> NULL] /\ contacts = 0
      /\ mail = [s \in Subjects |-> NULL] /\ notice = [s \in Subjects |-> NULL]
  BY DEF OfficeInit, LeadsInit, MailboxInit
<1>2. /\ pc = [w \in Workers |-> "idle"] /\ DOMAIN ctx = Workers /\ TurnsInv
  BY DEF OfficeInit, HandlersInit, TurnsInv, OneAtATime, Busy
<1>3. Created = {} /\ Counting = {}
  BY <1>1, <1>2 DEF Created, Counting
<1>4. Untouched
  BY <1>3 DEF Untouched
<1>5. contacts + Cardinality(Counting) <= Cardinality(Created) /\ IsFiniteSet(Created)
  BY <1>1, <1>3, FS_EmptySet
<1>6. ContactsInv
  BY <1>1, <1>2, <1>5 DEF ContactsInv, StandAt, RanksRead, FollowsLead, ContactLabels, Queued
<1>7. FollowUpInv
  BY <1>1, <1>2, <1>3 DEF FollowUpInv, StandAt, RanksRead, ChangeOK
<1> QED BY <1>2, <1>3, <1>4, <1>6, <1>7 DEF LeadsInv

\* Nobody is notified of a lead that nobody has, or mailed without a notification, and the
\* counter of contacts never runs ahead of the leads, however requests overlap and wherever they
\* stop; one request at a time, firstContactAt is the date of the first change to CONTACTED in
\* the history (LeadsService.specialistContact and updateStatus, leads.service.ts:155, :232).
THEOREM LeadsStayFollowed == OfficeSpec => []LeadsAreFollowed
<1>1. LeadsInv => LeadsAreFollowed
  <2> SUFFICES ASSUME LeadsInv PROVE LeadsAreFollowed
    OBVIOUS
  <2>1. part = "contacts" => NoticesFollowLeads
    <3> SUFFICES ASSUME part = "contacts" PROVE NoticesFollowLeads
      OBVIOUS
    <3>1. ContactsInv
      BY DEF LeadsInv
    <3>2. Cardinality(Counting) \in Nat /\ Cardinality(Created) \in Nat
      <4>1. Counting \subseteq Workers /\ IsFiniteSet(Workers)
        BY HandlersAssumption DEF Counting
      <4> QED BY <3>1, <4>1, FS_Subset, FS_CardinalityType DEF ContactsInv
    <3>3. contacts <= Cardinality(Created)
      BY <3>1, <3>2 DEF ContactsInv
    <3> QED BY <3>1, <3>3 DEF ContactsInv, NoticesFollowLeads
  <2>2. ASSUME Alone, Quiet, NEW l \in Created
        PROVE  lead[l].firstContact =
                 IF Calls(lead[l].interactions) = {} THEN 0 ELSE Min(Calls(lead[l].interactions))
    <3>1. CASE part = "contacts"
      <4>1. lead[l].firstContact = 0 /\ lead[l].interactions = <<>>
        BY <3>1 DEF LeadsInv, Untouched
      <4>2. Calls(<<>>) = {}
        BY DEF Calls
      <4> QED BY <4>1, <4>2
    <3>2. CASE part = "followup"
      <4>1. FollowUpInv
        BY <2>2, <3>2 DEF LeadsInv
      <4>2. lead[l] \in LeadRows
        BY <4>1 DEF FollowUpInv, Created
      <4>3. Dates(lead[l].firstContact, lead[l].interactions)
        BY <2>2, <4>1 DEF FollowUpInv, Logging, Quiet
      <4>4. lead[l].interactions \in Seq(LeadStatuses)
        BY <4>2 DEF LeadRows
      <4> QED BY <4>3, <4>4, DatesFirst
    <3>3. CASE part \notin {"contacts", "followup"}
      BY <2>2, <3>3 DEF LeadsInv
    <3> QED BY <3>1, <3>2, <3>3
  <2>3. Alone => FirstContactIsFirst
    BY <2>2 DEF FirstContactIsFirst, Calls
  <2> QED BY <2>1, <2>3 DEF LeadsAreFollowed
<1> QED BY <1>1, LeadsInvInit, LeadsKept, PTL DEF OfficeSpec

-----------------------------------------------------------------------------
(* The leads are shared.                                                   *)
(*                                                                         *)
(* A request that has read the loads gives its lead to a seller who had    *)
(* the least of those it has looked at.  For every load m of anybody who   *)
(* is there, the requests about to give s a lead and what s has already    *)
(* are bounded by m and the number of handlers: a lead that is made moves  *)
(* one from the first to the second, and who begins has seen s with at     *)
(* most m.                                                                 *)

Load(s) == Cardinality(LeadsOf(s))

\* Requests that will give a lead to s, and have seen no more than m leads of his
Pend(s, m) ==
    {w \in Workers : pc[w] = "contact.rank" /\ ctx[w].seller = s /\ ctx[w].rank <= m}

\* No seller who is there and has been looked at ranks before the one chosen.
ChoiceOK(w) ==
    pc[w] = "contact.rank" =>
        /\ ctx[w].rank \in Nat
        /\ \A t \in Sellers : seller[t] /\ t \notin ctx[w].unread =>
               ctx[w].seller # NULL /\ ctx[w].rank <= Rank(t)

\* One request at a time, the seller chosen ranks as he did when he was looked at.
ChoiceIsFresh(w) ==
    pc[w] = "contact.rank" /\ ctx[w].seller # NULL => ctx[w].rank = Rank(ctx[w].seller)

HasLast(S) == S = {} \/ \E last \in S : \A l \in S : l <= last

LeadsInOrder ==
    /\ \A l \in Created, k \in Subjects : k < l => k \in Created
    /\ \A l \in Created : lead[l].status \in {"NEW", "ASSIGNED"}
    /\ \A s \in Sellers : HasLast(LeadsOf(s))

\* For any load m that a seller t may be asked to carry before s gets another lead: what s
\* has beyond m was given to him by requests that are not about to give him one again.
LoadsOK ==
    \A s, t \in Sellers : seller[t] =>
        \A m \in Nat : Load(t) <= m => Load(s) + Cardinality(Pend(s, m)) <= m + Cardinality(Workers)

SharedInv ==
    /\ DOMAIN seller = Sellers
    /\ LeadsInOrder
    /\ \A w \in Workers : ChoiceOK(w)
    /\ strategy = "least_busy" => LoadsOK
    /\ Alone =>
          /\ \A w \in Workers : ChoiceIsFresh(w)
          /\ strategy = "least_busy" =>
                \A s, t \in Sellers : seller[t] => Load(s) <= Load(t) + 1
          /\ SellersTakeTurns

Changing(w) == pc[w] \in {"lead.write", "lead.log"}

\* Where leads are followed up there is one, made while nobody else is at work.
OneLead ==
    /\ DOMAIN lead = Subjects
    /\ \A k, l \in Created : k = l
    /\ Created # {} => Workers # {}
    /\ \A w \in Workers :
          /\ pc[w] = "contact.rank" =>
                Created = {} /\ \A x \in Workers \ {w} : pc[x] = "idle"
          /\ Changing(w) => Created \subseteq {ctx[w].lead}
    /\ \A w, x \in Workers : Changing(w) /\ Changing(x) => ctx[w].lead = ctx[x].lead

ShareInv ==
    /\ LeadsInv
    /\ part = "contacts" => SharedInv
    /\ part = "followup" => OneLead


\* What pickSeller sorts by, without the choice of a greatest lead
RankOK(s) ==
    /\ Rank(s) \in Nat /\ Load(s) \in Nat
    /\ strategy = "least_busy" => Rank(s) = Load(s)
    /\ strategy # "least_busy" =>
           /\ LeadsOf(s) # {} => Rank(s) \in LeadsOf(s)
           /\ LeadsOf(s) = {} => Rank(s) = 0
           /\ \A l \in LeadsOf(s) : l <= Rank(s)

LEMMA RankIs == LeadsInOrder /\ IsFiniteSet(Created) => \A s \in Sellers : RankOK(s)
<1> SUFFICES ASSUME LeadsInOrder, IsFiniteSet(Created), NEW s \in Sellers PROVE RankOK(s)
  OBVIOUS
<1>1. LeadsOf(s) \subseteq Created /\ LeadsOf(s) \subseteq Nat \ {0}
  BY LeadsAssumption DEF LeadsOf, Created
<1>2. Load(s) \in Nat
  BY <1>1, FS_Subset, FS_CardinalityType DEF Load
<1>3. OpenLeads(s) = LeadsOf(s)
  BY <1>1 DEF LeadsInOrder, OpenLeads, OpenStatuses
<1>4. CASE strategy = "least_busy"
  BY <1>2, <1>3, <1>4 DEF RankOK, Rank, Load
<1>5. CASE strategy # "least_busy"
  <2>1. CASE LeadsOf(s) = {}
    BY <1>2, <1>5, <2>1 DEF RankOK, Rank
  <2>2. CASE LeadsOf(s) # {}
    <3>1. PICK last \in LeadsOf(s) : \A l \in LeadsOf(s) : last >= l
      BY <1>1, <2>2 DEF LeadsInOrder, HasLast
    <3>2. Max(LeadsOf(s)) \in LeadsOf(s) /\ \A l \in LeadsOf(s) : Max(LeadsOf(s)) >= l
      BY <3>1 DEF Max
    <3>3. Rank(s) = Max(LeadsOf(s))
      BY <1>5, <2>2 DEF Rank
    <3> QED BY <1>1, <1>2, <1>5, <2>2, <3>2, <3>3 DEF RankOK
  <2> QED BY <2>1, <2>2
<1> QED BY <1>4, <1>5

\* More leads do not bring a seller forward.
LEMMA RankGrows ==
    ASSUME LeadsInOrder, LeadsInOrder', IsFiniteSet(Created'), Created \subseteq Created',
           \A l \in Created : lead'[l] = lead[l], UNCHANGED strategy
    PROVE  \A s \in Sellers : /\ RankOK(s) /\ RankOK(s)' /\ LeadsOf(s) \subseteq LeadsOf(s)'
                              /\ Rank(s) <= Rank(s)' /\ Load(s) <= Load(s)'
<1>1. IsFiniteSet(Created)
  BY FS_Subset
<1>2. \A s \in Sellers : RankOK(s)
  BY <1>1, RankIs
<1>3. \A s \in Sellers : RankOK(s)'
  <2>1. (LeadsInOrder /\ IsFiniteSet(Created))' => (\A s \in Sellers : RankOK(s))'
    BY RankIs, PTL
  <2> QED BY <2>1
<1> SUFFICES ASSUME NEW s \in Sellers
             PROVE  /\ LeadsOf(s) \subseteq LeadsOf(s)'
                    /\ Rank(s) <= Rank(s)' /\ Load(s) <= Load(s)'
  BY <1>2, <1>3
<1>4. LeadsOf(s) \subseteq LeadsOf(s)'
  BY DEF LeadsOf
<1>5. IsFiniteSet(LeadsOf(s)')
  <2>1. LeadsOf(s)' \subseteq Created'
    BY DEF LeadsOf
  <2> QED BY <2>1, FS_Subset
<1>6. Load(s) <= Load(s)'
  BY <1>4, <1>5, FS_Subset DEF Load
<1>7. RankOK(s) /\ RankOK(s)'
  BY <1>2, <1>3
<1>8. CASE strategy = "least_busy"
  <2>1. Rank(s) = Load(s)
    BY <1>7, <1>8 DEF RankOK
  <2>2. Rank(s)' = Load(s)'
    BY <1>7, <1>8 DEF RankOK
  <2> QED BY <1>4, <1>6, <2>1, <2>2
<1>9. CASE strategy # "least_busy"
  <2>1. ASSUME LeadsOf(s) = {} PROVE Rank(s) <= Rank(s)'
    <3>1. Rank(s) = 0
      BY <1>7, <1>9, <2>1 DEF RankOK
    <3>2. Rank(s)' \in Nat
      BY <1>7 DEF RankOK
    <3> QED BY <3>1, <3>2
  <2>2. ASSUME LeadsOf(s) # {} PROVE Rank(s) <= Rank(s)'
    <3>1. Rank(s) \in LeadsOf(s)'
      BY <1>4, <1>7, <1>9, <2>2 DEF RankOK
    <3> QED BY <1>7, <1>9, <3>1 DEF RankOK
  <2>3. Rank(s) <= Rank(s)'
    BY <2>1, <2>2
  <2> QED BY <1>4, <1>6, <2>3
<1> QED BY <1>4, <1>6, <1>8, <1>9

\* No lead is made, and nobody chooses but by the ranks there are.
LEMMA ChoicesKept ==
    ASSUME SharedInv, IsFiniteSet(Created), UNCHANGED <<lead, strategy, schedule>>,
           DOMAIN seller' = Sellers, \A t \in Sellers : seller'[t] => seller[t],
           \A w \in Workers : ChoiceOK(w)' /\ (Alone => ChoiceIsFresh(w)'),
           \A w \in Workers : pc'[w] = "contact.rank" /\ ctx'[w].seller \in Sellers =>
               \/ pc[w] = "contact.rank" /\ ctx'[w].seller = ctx[w].seller
                                         /\ ctx'[w].rank = ctx[w].rank
               \/ ctx'[w].rank = Rank(ctx'[w].seller)
    PROVE  SharedInv'
<1>1. \A s \in Sellers : RankOK(s)
  BY RankIs DEF SharedInv
<1>2. Created' = Created /\ \A s \in Sellers : LeadsOf(s)' = LeadsOf(s)
  BY DEF Created, LeadsOf
<1>3. \A s \in Sellers : Load(s)' = Load(s)
  BY <1>2 DEF Load
<1>4. LeadsInOrder'
  BY <1>2 DEF SharedInv, LeadsInOrder
<1>5. strategy = "least_busy" => LoadsOK'
  <2> SUFFICES ASSUME strategy = "least_busy", NEW s \in Sellers, NEW t \in Sellers, seller'[t],
                      NEW m \in Nat, Load(t)' <= m
               PROVE  Load(s)' + Cardinality(Pend(s, m))' <= m + Cardinality(Workers)
    BY DEF LoadsOK
  <2>1. Load(s) + Cardinality(Pend(s, m)) <= m + Cardinality(Workers)
    BY <1>3 DEF SharedInv, LoadsOK
  <2>2. IsFiniteSet(Workers) /\ Pend(s, m) \subseteq Workers /\ Pend(s, m)' \subseteq Workers
    BY HandlersAssumption DEF Pend
  <2>3. /\ IsFiniteSet(Pend(s, m)) /\ Cardinality(Pend(s, m)) \in Nat
        /\ IsFiniteSet(Pend(s, m)') /\ Cardinality(Pend(s, m))' \in Nat
        /\ Cardinality(Pend(s, m))' <= Cardinality(Workers) /\ Cardinality(Workers) \in Nat
    BY <2>2, FS_Subset, FS_CardinalityType
  <2>4. Load(s) \in Nat /\ Rank(s) = Load(s) /\ Load(s)' = Load(s)
    BY <1>1, <1>3 DEF RankOK
  <2>5. CASE Load(s) <= m
    BY <2>3, <2>4, <2>5
  <2>6. CASE ~(Load(s) <= m)
    <3>1. Pend(s, m)' \subseteq Pend(s, m)
      BY <2>4, <2>6 DEF Pend
    <3>2. Cardinality(Pend(s, m))' <= Cardinality(Pend(s, m))
      BY <2>3, <3>1, FS_Subset
    <3> QED BY <2>1, <2>3, <2>4, <3>2
  <2> QED BY <2>5, <2>6
<1>6. Alone /\ strategy = "least_busy" =>
          \A s, t \in Sellers : seller'[t] => Load(s)' <= Load(t)' + 1
  BY <1>3 DEF SharedInv
<1>7. Alone => SellersTakeTurns'
  BY <1>2 DEF SharedInv, SellersTakeTurns
<1> QED BY <1>4, <1>5, <1>6, <1>7 DEF SharedInv, Alone


\* A request looks at the leads of one more seller.
LEMMA RankRead ==
    ASSUME RanksRead, NEW w \in Workers, ContactRank(w), ChoiceOK(w),
           \A s \in Sellers : Rank(s) \in Nat
    PROVE  \E locals :
              /\ pc' = [pc EXCEPT ![w] = "contact.rank"] /\ ctx' = [ctx EXCEPT ![w] = locals]
              /\ locals.rank \in Nat /\ locals.seller # NULL
              /\ \A t \in Sellers : seller[t] /\ t \notin locals.unread => locals.rank <= Rank(t)
              /\ \/ locals.seller = ctx[w].seller /\ locals.rank = ctx[w].rank
                 \/ locals.rank = Rank(locals.seller)
<1> PICK c : c = ctx[w]
  OBVIOUS
<1>1. PICK s \in c.unread :
        \E first \in IF c.seller = NULL THEN {TRUE}
                     ELSE IF Rank(s) = c.rank THEN BOOLEAN ELSE {Rank(s) < c.rank} :
           GotoWith(w, "contact.rank",
              IF first THEN [unread |-> c.unread \ {s}, seller |-> s, rank |-> Rank(s)]
              ELSE [c EXCEPT !.unread = @ \ {s}])
  BY DEF ContactRank
<1>2. /\ c = [unread |-> c.unread, seller |-> c.seller, rank |-> c.rank] /\ s \in Sellers
      /\ c.rank \in Nat
      /\ \A t \in Sellers : seller[t] /\ t \notin c.unread =>
             c.seller # NULL /\ c.rank <= Rank(t)
  BY DEF RanksRead, RankRow, ContactRank, At, ChoiceOK
<1> PICK r : r = Rank(s)
  OBVIOUS
<1>3. r \in Nat
  BY <1>2
<1>4. PICK first \in IF c.seller = NULL THEN {TRUE}
                     ELSE IF r = c.rank THEN BOOLEAN ELSE {r < c.rank} :
           GotoWith(w, "contact.rank",
              IF first THEN [unread |-> c.unread \ {s}, seller |-> s, rank |-> r]
              ELSE [c EXCEPT !.unread = c.unread \ {s}])
  BY <1>1
<1>5. c.seller # NULL /\ r # c.rank => first = (r < c.rank)
  BY <1>4, Zenon
<1>6. (c.seller = NULL => first = TRUE) /\ (c.seller # NULL /\ r = c.rank => first \in BOOLEAN)
  BY <1>4, Zenon
<1>7. first /\ c.seller # NULL => r = c.rank \/ r < c.rank
  BY <1>5, Zenon
<1>8. ~first => c.seller # NULL /\ (r = c.rank \/ ~(r < c.rank))
  BY <1>5, <1>6, Zenon
<1>9. first \in BOOLEAN
  <2>1. (r < c.rank) \in BOOLEAN
    OBVIOUS
  <2> QED BY <1>5, <1>6, <2>1, Zenon
<1>10. CASE first
  <2> DEFINE locals == [unread |-> c.unread \ {s}, seller |-> s, rank |-> r]
  <2>1. locals.unread = c.unread \ {s} /\ locals.seller = s /\ locals.rank = r
    OBVIOUS
  <2>2. pc' = [pc EXCEPT ![w] = "contact.rank"] /\ ctx' = [ctx EXCEPT ![w] = locals]
    BY <1>4, <1>10 DEF GotoWith
  <2> HIDE DEF locals
  <2>3. s # NULL
    BY <1>2, LeadsNull
  <2>4. c.seller # NULL => r <= c.rank
    BY <1>2, <1>3, <1>10, <1>7
  <2>5. ASSUME NEW t \in Sellers, seller[t], t \notin c.unread \ {s} PROVE r <= Rank(t)
    <3>1. CASE t = s
      BY <1>3, <3>1
    <3>2. CASE t # s
      <4>1. r <= c.rank /\ c.rank <= Rank(t) /\ Rank(t) \in Nat
        BY <1>2, <2>4, <2>5, <3>2
      <4> QED BY <1>2, <1>3, <4>1
    <3> QED BY <3>1, <3>2
  <2> QED BY <1>3, <2>1, <2>2, <2>3, <2>5
<1>11. CASE ~first
  <2> DEFINE locals == [c EXCEPT !.unread = c.unread \ {s}]
  <2>1. locals = [unread |-> c.unread \ {s}, seller |-> c.seller, rank |-> c.rank]
    BY <1>2
  <2>2. locals.unread = c.unread \ {s} /\ locals.seller = c.seller /\ locals.rank = c.rank
    BY <2>1
  <2>3. pc' = [pc EXCEPT ![w] = "contact.rank"] /\ ctx' = [ctx EXCEPT ![w] = locals]
    BY <1>4, <1>11 DEF GotoWith
  <2> HIDE DEF locals
  <2>4. c.seller # NULL /\ c.rank <= r
    BY <1>2, <1>3, <1>11, <1>8
  <2>5. ASSUME NEW t \in Sellers, seller[t], t \notin c.unread \ {s} PROVE c.rank <= Rank(t)
    BY <1>2, <2>4, <2>5
  <2> QED BY <1>2, <2>2, <2>3, <2>4, <2>5
<1> QED BY <1>10, <1>11, <1>9

LEMMA RankShared ==
    ASSUME ContactsInv, SharedInv, NEW w \in Workers, ContactRank(w), UNCHANGED schedule
    PROVE  SharedInv'
<1>1. \A s \in Sellers : Rank(s) \in Nat
  BY RankIs DEF RankOK, SharedInv, ContactsInv
<1>2. RanksRead /\ ChoiceOK(w) /\ DOMAIN pc = Workers /\ DOMAIN ctx = Workers /\ pc[w] = "contact.rank"
  BY DEF ContactsInv, SharedInv, StandAt, ContactRank, At
<1>3. PICK locals :
        /\ pc' = [pc EXCEPT ![w] = "contact.rank"] /\ ctx' = [ctx EXCEPT ![w] = locals]
        /\ locals.rank \in Nat /\ locals.seller # NULL
        /\ \A t \in Sellers : seller[t] /\ t \notin locals.unread => locals.rank <= Rank(t)
        /\ \/ locals.seller = ctx[w].seller /\ locals.rank = ctx[w].rank
           \/ locals.rank = Rank(locals.seller)
  BY <1>1, <1>2, RankRead
<1>4. /\ pc'[w] = "contact.rank" /\ ctx'[w] = locals
      /\ \A x \in Workers \ {w} : pc'[x] = pc[x] /\ ctx'[x] = ctx[x]
  BY <1>2, <1>3
<1>5. UNCHANGED <<strategy, seller, lead>>
  BY DEF ContactRank, leadVars
<1>6. \A s : Rank(s)' = Rank(s)
  BY <1>5 DEF Rank, LeadsOf, OpenLeads, Created
<1>7. ASSUME NEW x \in Workers
      PROVE  ChoiceOK(x)' /\ (Alone => ChoiceIsFresh(x)')
  <2>1. ChoiceOK(x) /\ (Alone => ChoiceIsFresh(x))
    BY DEF SharedInv
  <2>2. CASE x = w
    <3>1. ChoiceOK(w)'
      BY <1>3, <1>4, <1>5, <1>6 DEF ChoiceOK
    <3>2. Alone => ChoiceIsFresh(w)'
      BY <1>2, <1>3, <1>4, <1>6, <2>1, <2>2 DEF ChoiceIsFresh
    <3> QED BY <2>2, <3>1, <3>2
  <2>3. CASE x # w
    BY <1>4, <1>5, <1>6, <2>1, <2>3 DEF ChoiceOK, ChoiceIsFresh
  <2> QED BY <2>2, <2>3
<1>8. ASSUME NEW x \in Workers, pc'[x] = "contact.rank", ctx'[x].seller \in Sellers
      PROVE  \/ pc[x] = "contact.rank" /\ ctx'[x].seller = ctx[x].seller
                                       /\ ctx'[x].rank = ctx[x].rank
             \/ ctx'[x].rank = Rank(ctx'[x].seller)
  BY <1>2, <1>3, <1>4, <1>8
<1>9. IsFiniteSet(Created) /\ DOMAIN seller' = Sellers
  BY <1>5 DEF ContactsInv, SharedInv
<1> QED BY <1>5, <1>7, <1>8, <1>9, ChoicesKept

\* A request leaves the choice, or begins with no seller looked at.
LEMMA LeaveShared ==
    ASSUME ContactsInv, SharedInv, NEW w \in Workers, NEW label, NEW locals,
           GoesOn(w, label, locals), UNCHANGED <<lead, strategy, seller, schedule>>,
           label = "contact.rank" =>
              /\ locals.seller = NULL /\ locals.rank = 0
              /\ \A t \in Sellers : seller[t] => t \in locals.unread
    PROVE  SharedInv'
<1>1. /\ pc'[w] = label /\ ctx'[w] = locals
      /\ \A x \in Workers \ {w} : pc'[x] = pc[x] /\ ctx'[x] = ctx[x]
  BY DEF ContactsInv, StandAt, GoesOn
<1>2. \A s : Rank(s)' = Rank(s)
  BY DEF Rank, LeadsOf, OpenLeads, Created
<1>3. ASSUME NEW x \in Workers
      PROVE  ChoiceOK(x)' /\ (Alone => ChoiceIsFresh(x)')
  <2>1. ChoiceOK(x) /\ (Alone => ChoiceIsFresh(x))
    BY DEF SharedInv
  <2>2. CASE x = w
    BY <1>1, <1>2, <2>2 DEF ChoiceOK, ChoiceIsFresh
  <2>3. CASE x # w
    BY <1>1, <1>2, <2>1, <2>3 DEF ChoiceOK, ChoiceIsFresh
  <2> QED BY <2>2, <2>3
<1>4. ASSUME NEW x \in Workers, pc'[x] = "contact.rank", ctx'[x].seller \in Sellers
      PROVE  pc[x] = "contact.rank" /\ ctx'[x].seller = ctx[x].seller /\ ctx'[x].rank = ctx[x].rank
  BY <1>1, <1>4, LeadsNull
<1>5. IsFiniteSet(Created) /\ DOMAIN seller' = Sellers
  BY DEF ContactsInv, SharedInv
<1> QED BY <1>3, <1>4, <1>5, ChoicesKept

LEMMA SellerShared ==
    ASSUME ContactsInv, SharedInv, NEW s \in Sellers, SellerLeaves(s), UNCHANGED schedule
    PROVE  SharedInv'
<1>1. /\ UNCHANGED <<lead, strategy, pc, ctx>> /\ seller' = [seller EXCEPT ![s] = FALSE]
  BY DEF SellerLeaves, handlerVars
<1>2. DOMAIN seller' = Sellers /\ \A t \in Sellers : seller'[t] => seller[t]
  BY <1>1 DEF SharedInv
<1>3. \A t : Rank(t)' = Rank(t)
  BY <1>1 DEF Rank, LeadsOf, OpenLeads, Created
<1>4. \A x \in Workers : ChoiceOK(x)' /\ (Alone => ChoiceIsFresh(x)')
  BY <1>1, <1>2, <1>3 DEF SharedInv, ChoiceOK, ChoiceIsFresh
<1>5. IsFiniteSet(Created)
  BY DEF ContactsInv
<1> QED BY <1>1, <1>2, <1>4, <1>5, ChoicesKept


\* The lead goes to the seller chosen.
LEMMA CreateShared ==
    ASSUME ContactsInv, SharedInv, ContactsInv', NEW w \in Workers, ContactCreate(w),
           UNCHANGED schedule,
           Alone => \A x \in Workers \ {w} : pc'[x] # "contact.rank"
    PROVE  SharedInv'
<1> PICK l \in Subjects \ Created :
        /\ pc[w] = "contact.rank" /\ ctx[w].unread = {} /\ \A k \in Subjects \ Created : l <= k
        /\ lead' = [lead EXCEPT ![l] =
              [seller |-> ctx[w].seller,
               status |-> IF ctx[w].seller = NULL THEN "NEW" ELSE "ASSIGNED",
               firstContact |-> 0, interactions |-> <<>>]]
        /\ pc' = [pc EXCEPT ![w] = "contact.count"] /\ ctx' = [ctx EXCEPT ![w] = [subject |-> l]]
        /\ UNCHANGED <<strategy, seller>>
  BY DEF ContactCreate, At, GotoWith
<1> DEFINE row == [seller |-> ctx[w].seller,
                   status |-> IF ctx[w].seller = NULL THEN "NEW" ELSE "ASSIGNED",
                   firstContact |-> 0, interactions |-> <<>>]
<1> PICK c : c = ctx[w].seller
  OBVIOUS
<1> PICK r : r = ctx[w].rank
  OBVIOUS
<1>1. row.seller = c /\ row.status \in {"NEW", "ASSIGNED"} /\ c \in Sellers \cup {NULL}
  BY DEF ContactsInv, RanksRead, RankRow
<1>2. row # NULL
  <2>1. row \in LeadRows
    BY <1>1 DEF LeadRows, LeadStatuses
  <2> QED BY <2>1, LeadsNull
<1>3. lead' = [lead EXCEPT ![l] = row]
  OBVIOUS
<1>4. /\ pc'[w] = "contact.count"
      /\ \A x \in Workers \ {w} : pc'[x] = pc[x] /\ ctx'[x] = ctx[x]
  BY DEF ContactsInv, StandAt
<1> HIDE DEF row
<1>5. lead'[l] = row /\ (\A k \in Subjects \ {l} : lead'[k] = lead[k]) /\ DOMAIN lead' = Subjects
  BY <1>3 DEF ContactsInv
<1>6. Created' = Created \cup {l} /\ l \notin Created /\ \A k \in Created : lead'[k] = lead[k]
  BY <1>2, <1>5 DEF Created
<1>7. Created \subseteq Nat /\ l \in Nat
  BY LeadsAssumption DEF Created
<1>8. \A k \in Created : k < l
  <2> TAKE k \in Created
  <2>1. ~(l < k)
    BY <1>6 DEF SharedInv, LeadsInOrder
  <2> QED BY <1>6, <1>7, <2>1
<1>9. \A s \in Sellers : LeadsOf(s)' = IF s = c THEN LeadsOf(s) \cup {l} ELSE LeadsOf(s)
  BY <1>1, <1>5, <1>6 DEF LeadsOf
<1>10. LeadsInOrder'
  <2>1. \A j \in Created', k \in Subjects : k < j => k \in Created'
    <3> SUFFICES ASSUME NEW j \in Created', NEW k \in Subjects, k < j PROVE k \in Created'
      OBVIOUS
    <3>1. CASE j = l
      <4>1. k \in Nat
        BY LeadsAssumption
      <4>2. ~(l <= k)
        BY <1>7, <3>1, <4>1
      <4> QED BY <1>6, <4>2
    <3>2. CASE j \in Created
      BY <1>6, <3>2 DEF SharedInv, LeadsInOrder
    <3> QED BY <1>6, <3>1, <3>2
  <2>2. \A j \in Created' : lead'[j].status \in {"NEW", "ASSIGNED"}
    BY <1>1, <1>5, <1>6 DEF SharedInv, LeadsInOrder
  <2>3. ASSUME NEW s \in Sellers PROVE HasLast(LeadsOf(s)')
    <3>1. HasLast(LeadsOf(s))
      BY DEF SharedInv, LeadsInOrder
    <3>2. CASE s = c
      <4>1. ASSUME NEW k \in LeadsOf(s)' PROVE k <= l
        <5>1. k = l \/ k \in Created
          BY <1>9, <3>2 DEF LeadsOf
        <5>2. CASE k = l
          BY <1>7, <5>2
        <5>3. CASE k \in Created
          <6>1. k < l /\ k \in Nat
            BY <1>7, <1>8, <5>3
          <6> QED BY <1>7, <6>1
        <5> QED BY <5>1, <5>2, <5>3
      <4>2. l \in LeadsOf(s)'
        BY <1>9, <3>2
      <4> QED BY <4>1, <4>2 DEF HasLast
    <3>3. CASE s # c
      BY <1>9, <3>1, <3>3
    <3> QED BY <3>2, <3>3
  <2>4. LeadsInOrder' <=> /\ \A j \in Created', k \in Subjects : k < j => k \in Created'
                          /\ \A j \in Created' : lead'[j].status \in {"NEW", "ASSIGNED"}
                          /\ \A s \in Sellers : HasLast(LeadsOf(s)')
    BY DEF LeadsInOrder, HasLast
  <2> QED BY <2>1, <2>2, <2>3, <2>4
<1>11. \A s \in Sellers : /\ RankOK(s) /\ RankOK(s)' /\ LeadsOf(s) \subseteq LeadsOf(s)'
                          /\ Rank(s) <= Rank(s)' /\ Load(s) <= Load(s)'
  BY <1>6, <1>10, RankGrows DEF SharedInv, ContactsInv
<1>12. /\ r \in Nat
       /\ \A t \in Sellers : seller[t] => c # NULL /\ r <= Rank(t)
       /\ Alone /\ c # NULL => r = Rank(c)
  BY DEF SharedInv, ChoiceOK, ChoiceIsFresh
<1>13. ASSUME NEW x \in Workers PROVE ChoiceOK(x)'
  <2> SUFFICES ASSUME pc'[x] = "contact.rank" PROVE ChoiceOK(x)'
    BY DEF ChoiceOK
  <2>1. x # w /\ pc[x] = "contact.rank" /\ ctx'[x] = ctx[x] /\ ChoiceOK(x)
    BY <1>4 DEF SharedInv
  <2> PICK rank : rank = ctx[x].rank
    OBVIOUS
  <2>2. rank \in Nat
    BY <2>1 DEF ChoiceOK
  <2>3. ASSUME NEW t \in Sellers, seller[t], t \notin ctx[x].unread
        PROVE  ctx[x].seller # NULL /\ rank <= Rank(t)'
    <3>1. ctx[x].seller # NULL /\ rank <= Rank(t)
      BY <2>1, <2>3 DEF ChoiceOK
    <3>2. Rank(t) \in Nat /\ Rank(t)' \in Nat /\ Rank(t) <= Rank(t)'
      BY <1>11 DEF RankOK
    <3> QED BY <2>2, <3>1, <3>2
  <2> QED BY <2>1, <2>2, <2>3 DEF ChoiceOK
<1>14. Alone => \A x \in Workers : ChoiceIsFresh(x)'
  BY <1>4 DEF ChoiceIsFresh
<1>15. \A s \in Sellers : /\ Load(s) \in Nat /\ Load(s)' \in Nat
                          /\ Load(s)' = IF s = c THEN Load(s) + 1 ELSE Load(s)
  <2> TAKE s \in Sellers
  <2>1. Load(s) \in Nat /\ Load(s)' \in Nat
    BY <1>11 DEF RankOK
  <2>2. CASE s = c
    <3>1. IsFiniteSet(LeadsOf(s)) /\ l \notin LeadsOf(s)
      BY <1>6, FS_Subset DEF LeadsOf, ContactsInv
    <3>2. Cardinality(LeadsOf(s) \cup {l}) = Cardinality(LeadsOf(s)) + 1
      BY <3>1, FS_AddElement
    <3> QED BY <1>9, <2>1, <2>2, <3>2 DEF Load
  <2>3. CASE s # c
    BY <1>9, <2>1, <2>3 DEF Load
  <2> QED BY <2>1, <2>2, <2>3
<1>16. strategy = "least_busy" => \A s \in Sellers : Rank(s) = Load(s)
  BY <1>11 DEF RankOK
<1>17. strategy = "least_busy" => LoadsOK'
  <2> SUFFICES ASSUME strategy = "least_busy", NEW s \in Sellers, NEW t \in Sellers, seller[t],
                      NEW m \in Nat, Load(t)' <= m
               PROVE  Load(s)' + Cardinality(Pend(s, m))' <= m + Cardinality(Workers)
    BY DEF LoadsOK
  <2>1. Load(t) <= m
    BY <1>15
  <2>2. Load(s) + Cardinality(Pend(s, m)) <= m + Cardinality(Workers)
    BY <2>1 DEF SharedInv, LoadsOK
  <2>3. IsFiniteSet(Workers) /\ Pend(s, m) \subseteq Workers
    BY HandlersAssumption DEF Pend
  <2>4. IsFiniteSet(Pend(s, m)) /\ Cardinality(Pend(s, m)) \in Nat /\ Cardinality(Workers) \in Nat
    BY <2>3, FS_Subset, FS_CardinalityType
  <2>5. Pend(s, m)' = Pend(s, m) \ {w}
    BY <1>4 DEF Pend
  <2>6. CASE s = c
    <3>1. r <= m
      BY <1>12, <1>15, <1>16, <2>1
    <3>2. w \in Pend(s, m)
      BY <2>6, <3>1 DEF Pend
    <3>3. Cardinality(Pend(s, m))' = Cardinality(Pend(s, m)) - 1
      <4>1. Cardinality(Pend(s, m) \ {w}) = Cardinality(Pend(s, m)) - 1
        BY <2>4, <3>2, FS_RemoveElement
      <4> QED BY <2>5, <4>1
    <3> QED BY <1>15, <2>2, <2>4, <2>6, <3>3
  <2>7. CASE s # c
    <3>1. w \notin Pend(s, m)
      BY <2>7 DEF Pend
    <3>2. Pend(s, m)' = Pend(s, m)
      BY <2>5, <3>1
    <3> QED BY <1>15, <2>2, <2>7, <3>2
  <2> QED BY <2>6, <2>7
<1>18. ASSUME Alone, strategy = "least_busy", NEW s \in Sellers, NEW t \in Sellers, seller[t]
       PROVE  Load(s)' <= Load(t)' + 1
  <2>1. Load(s) <= Load(t) + 1
    BY <1>18 DEF SharedInv
  <2>2. CASE s = c
    <3>1. Load(s) <= Load(t)
      BY <1>12, <1>16, <1>18, <2>2
    <3> QED BY <1>15, <2>2, <3>1
  <2>3. CASE s # c
    BY <1>15, <2>1, <2>3
  <2> QED BY <2>2, <2>3
<1>19. Alone => SellersTakeTurns'
  <2> SUFFICES ASSUME Alone, strategy = "round_robin", NEW i \in Created', NEW j \in Created',
                      i < j, lead'[i].seller = lead'[j].seller, lead'[i].seller # NULL,
                      NEW t \in Sellers, seller[t]
               PROVE  \E k \in LeadsOf(t)' : i <= k /\ k <= j
    BY DEF SellersTakeTurns
  <2>1. i \in Nat /\ j \in Nat
    BY <1>6, <1>7
  <2>2. i # l
    BY <1>6, <1>7, <1>8, <2>1
  <2>3. i \in Created /\ lead'[i] = lead[i]
    BY <1>6, <2>2
  <2>4. CASE j \in Created
    <3>1. lead'[j] = lead[j]
      BY <1>6, <2>4
    <3>2. \E k \in LeadsOf(t) : i <= k /\ k <= j
      BY <2>3, <2>4, <3>1 DEF SharedInv, SellersTakeTurns
    <3> QED BY <1>11, <3>2
  <2>5. CASE j = l
    <3>1. c \in Sellers /\ lead[i].seller = c
      BY <1>1, <1>5, <2>3, <2>5
    <3>2. i \in LeadsOf(c)
      BY <2>3, <3>1 DEF LeadsOf
    <3>3. i <= Rank(c) /\ Rank(c) \in Nat
      BY <1>11, <3>1, <3>2 DEF RankOK
    <3>4. r = Rank(c) /\ r <= Rank(t)
      BY <1>1, <1>12, <3>1, LeadsNull
    <3>5. Rank(t) \in Nat /\ i <= Rank(t)
      <4>1. Rank(t) \in Nat
        BY <1>11 DEF RankOK
      <4> QED BY <2>1, <3>3, <3>4, <4>1
    <3>6. Rank(t) # 0
      <4>1. i \in Nat \ {0}
        BY <2>3, LeadsAssumption DEF Created
      <4> QED BY <3>5, <4>1
    <3>7. Rank(t) \in LeadsOf(t)
      BY <1>11, <3>6 DEF RankOK
    <3>8. Rank(t) < l
      BY <1>8, <3>7 DEF LeadsOf
    <3> QED BY <1>7, <1>11, <2>5, <3>5, <3>7, <3>8
  <2> QED BY <1>6, <2>4, <2>5
<1>20. DOMAIN seller' = Sellers
  BY DEF SharedInv
<1> QED BY <1>10, <1>13, <1>14, <1>17, <1>18, <1>19, <1>20 DEF SharedInv, Alone


LEMMA SharedKept ==
    ASSUME TurnsInv, ContactsInv, Untouched, SharedInv, [OfficeNext]_officeVars, part = "contacts"
    PROVE  SharedInv'
<1>1. UNCHANGED schedule /\ ContactsInv' /\ TurnsInv' /\ StandAt(ContactLabels)
  BY PartStays, ContactsKept, TurnsStep DEF ContactsInv
<1>2. ASSUME NEW w \in Workers, NEW label, NEW locals, GoesOn(w, label, locals),
             label # "contact.rank", UNCHANGED leadVars
      PROVE  SharedInv'
  <2>1. UNCHANGED <<lead, strategy, seller>>
    BY <1>2 DEF leadVars
  <2> QED BY <1>1, <1>2, <2>1, LeaveShared
<1>3. ASSUME NEW w \in Workers, RequestContact(w) PROVE SharedInv'
  <2> DEFINE locals == [unread |-> {s \in Sellers : seller[s]}, seller |-> NULL, rank |-> 0]
  <2>1. locals.seller = NULL /\ locals.rank = 0 /\ \A t \in Sellers : seller[t] => t \in locals.unread
    OBVIOUS
  <2>2. GoesOn(w, "contact.rank", locals) /\ UNCHANGED <<lead, strategy, seller>>
    BY <1>1, <1>3 DEF RequestContact, Begin, StandAt, GoesOn, leadVars
  <2> HIDE DEF locals
  <2> QED BY <1>1, <2>1, <2>2, LeaveShared
<1>4. ASSUME NEW w \in Workers, LeadsStep(w) PROVE SharedInv'
  <2>1. CASE ContactRank(w)
    BY <1>1, <2>1, RankShared
  <2>2. CASE ContactCreate(w)
    <3>1. Busy(w) /\ \A x \in Workers \ {w} : pc'[x] = pc[x]
      BY <1>4, LeadsTurn DEF TurnsInv
    <3>2. Alone => \A x \in Workers \ {w} : pc'[x] # "contact.rank"
      BY <3>1, OthersIdle DEF Busy
    <3> QED BY <1>1, <2>2, <3>2, CreateShared
  <2>3. CASE ContactCount(w)
    <3>1. PICK label, locals : label \in {"idle", "notify.create"} /\ GoesOn(w, label, locals)
      BY <1>1, <2>3 DEF ContactCount, Return, Goto, StandAt, GoesOn
    <3>2. UNCHANGED <<lead, strategy, seller>>
      BY <2>3 DEF ContactCount
    <3> QED BY <1>1, <3>1, <3>2, LeaveShared
  <2>4. CASE MailboxStep(w) /\ UNCHANGED leadVars
    <3>1. NotifyCreate(w) \/ QueueEmail(w)
      BY <1>1, <2>4 DEF MailboxStep, DrainNext, DrainDone, Deliver, Bounce, MarkSent, PutBack, At,
         StandAt, ContactLabels
    <3>2. PICK label, locals : label \in {"idle", "notify.queue"} /\ GoesOn(w, label, locals)
      BY <1>1, <3>1 DEF NotifyCreate, QueueEmail, Return, Goto, StandAt, GoesOn
    <3> QED BY <1>2, <2>4, <3>2
  <2>5. ~LeadWrite(w) /\ ~LeadLog(w)
    BY <1>1 DEF LeadWrite, LeadLog, At, StandAt, ContactLabels
  <2> QED BY <1>4, <2>1, <2>2, <2>3, <2>4, <2>5 DEF LeadsStep
<1>5. ASSUME NEW w \in Workers, OfficeFails(w) PROVE SharedInv'
  <2>1. ~MarkSentFails(w)
    BY <1>1 DEF MarkSentFails, At, StandAt, ContactLabels
  <2>2. GoesOn(w, "idle", NULL) /\ UNCHANGED leadVars
    BY <1>1, <1>5, <2>1 DEF OfficeFails, Die, StandAt, GoesOn
  <2> QED BY <1>2, <2>2
<1>6. CASE UNCHANGED <<leadVars, mailboxVars, pc, ctx>>
  <2>1. /\ UNCHANGED <<lead, strategy, seller, pc, ctx>>
        /\ DOMAIN seller' = Sellers /\ IsFiniteSet(Created)
    BY <1>6 DEF leadVars, SharedInv, ContactsInv
  <2>2. \A t : Rank(t)' = Rank(t)
    BY <2>1 DEF Rank, LeadsOf, OpenLeads, Created
  <2>3. \A x \in Workers : ChoiceOK(x)' /\ (Alone => ChoiceIsFresh(x)')
    BY <2>1, <2>2 DEF SharedInv, ChoiceOK, ChoiceIsFresh
  <2> QED BY <1>1, <2>1, <2>3, ChoicesKept
<1> QED BY <1>1, <1>3, <1>4, <1>5, <1>6, LeadsMove, SellerShared

\* Where leads are followed up: one handler goes on, the lead stays or is made.
LEMMA OneMoves ==
    ASSUME TurnsInv, OneLead, NEW w \in Workers,
           \A x \in Workers \ {w} : pc'[x] = pc[x] /\ ctx'[x] = ctx[x],
           DOMAIN lead' = Subjects, Created' \subseteq Created,
           pc'[w] = "contact.rank" =>
               Created = {} /\ \A x \in Workers \ {w} : pc[x] = "idle",
           Changing(w)' =>
               /\ Created \subseteq {ctx'[w].lead}
               /\ \A x \in Workers \ {w} : Changing(x) => ctx[x].lead = ctx'[w].lead,
           pc'[w] # "idle" /\ pc[w] = "idle" => \A x \in Workers : pc[x] # "contact.rank"
    PROVE  OneLead'
<1>1. ASSUME NEW x \in Workers
      PROVE  /\ pc'[x] = "contact.rank" =>
                   Created' = {} /\ \A y \in Workers \ {x} : pc'[y] = "idle"
             /\ Changing(x)' => Created' \subseteq {ctx'[x].lead}
  BY DEF OneLead, Changing
<1>2. \A x, y \in Workers : Changing(x)' /\ Changing(y)' => ctx'[x].lead = ctx'[y].lead
  BY DEF OneLead, Changing
<1> QED BY <1>1, <1>2 DEF OneLead

LEMMA OneCreated ==
    ASSUME TurnsInv, OneLead, NEW w \in Workers, ContactCreate(w)
    PROVE  OneLead'
<1>1. /\ pc[w] = "contact.rank" /\ Created = {} /\ \A x \in Workers \ {w} : pc[x] = "idle"
      /\ pc' = [pc EXCEPT ![w] = "contact.count"]
  BY DEF ContactCreate, At, OneLead, GotoWith
<1>2. pc'[w] = "contact.count" /\ \A x \in Workers \ {w} : pc'[x] = "idle"
  BY <1>1 DEF TurnsInv
<1>3. PICK l \in Subjects : \E row : lead' = [lead EXCEPT ![l] = row]
  BY DEF ContactCreate
<1>4. DOMAIN lead' = Subjects /\ Created' \subseteq {l}
  BY <1>1, <1>3 DEF OneLead, Created
<1>5. \A j, k \in Created' : j = k
  BY <1>4
<1>6. \A x \in Workers : pc'[x] # "contact.rank" /\ ~Changing(x)'
  BY <1>2 DEF Changing
<1> QED BY <1>4, <1>5, <1>6 DEF OneLead

LEMMA OneKept ==
    ASSUME TurnsInv, OneLead, [OfficeNext]_officeVars, part = "followup"
    PROVE  OneLead'
<1>1. ASSUME UNCHANGED lead PROVE DOMAIN lead' = Subjects /\ Created' = Created
  BY <1>1 DEF OneLead, Created
<1>2. ASSUME UNCHANGED <<leadVars, pc, ctx>> PROVE OneLead'
  BY <1>2 DEF OneLead, Created, leadVars, Changing
<1>3. ASSUME NEW w \in Workers, RequestContact(w), Created = {}, Quiet PROVE OneLead'
  <2>1. /\ \A x \in Workers \ {w} : pc'[x] = pc[x] /\ ctx'[x] = ctx[x]
        /\ pc'[w] = "contact.rank" /\ UNCHANGED lead
    BY <1>3 DEF RequestContact, Begin, TurnsInv, leadVars
  <2>2. \A x \in Workers : pc[x] = "idle"
    BY <1>3 DEF Quiet
  <2> QED BY <1>1, <1>3, <2>1, <2>2, OneMoves DEF Changing
<1>4. ASSUME NEW w \in Workers, FollowUp(w) PROVE OneLead'
  <2> PICK l \in Subjects, status \in {"CONTACTED", "CONVERTED"} : RequestLeadStatus(w, l, status)
    BY <1>4 DEF FollowUp
  <2> DEFINE locals == [lead |-> l, status |-> status,
                        dates |-> status = "CONTACTED" /\ lead[l].firstContact = 0]
  <2>1. /\ \A x \in Workers \ {w} : pc'[x] = pc[x] /\ ctx'[x] = ctx[x]
        /\ pc'[w] = "lead.write" /\ ctx'[w] = locals /\ UNCHANGED lead
    BY DEF RequestLeadStatus, Begin, TurnsInv, leadVars
  <2>2. ctx'[w].lead = l
    BY <2>1
  <2>3. l \in Created
    BY DEF RequestLeadStatus, Created
  <2>4. /\ Created \subseteq {l} /\ \A x \in Workers : pc[x] # "contact.rank"
        /\ \A x \in Workers : Changing(x) => ctx[x].lead = l
    BY <2>3 DEF OneLead
  <2> HIDE DEF locals
  <2> QED BY <1>1, <2>1, <2>2, <2>4, OneMoves DEF Changing
<1>5. ASSUME NEW w \in Workers, LeadsStep(w) PROVE OneLead'
  <2>1. /\ pc[w] # "idle" /\ \A x \in Workers \ {w} : pc'[x] = pc[x] /\ ctx'[x] = ctx[x]
        /\ DOMAIN pc = Workers /\ DOMAIN ctx = Workers
    BY <1>5, LeadsTurn DEF TurnsInv, Busy
  <2>2. CASE ContactRank(w)
    <3>1. pc[w] = "contact.rank" /\ pc'[w] = "contact.rank" /\ UNCHANGED lead
      BY <2>1, <2>2 DEF ContactRank, At, GotoWith, leadVars
    <3>2. Created = {} /\ \A x \in Workers \ {w} : pc[x] = "idle"
      BY <3>1 DEF OneLead
    <3> QED BY <1>1, <2>1, <3>1, <3>2, OneMoves DEF Changing
  <2>3. CASE ContactCount(w)
    <3>1. pc'[w] \in {"idle", "notify.create"} /\ UNCHANGED lead
      BY <2>1, <2>3 DEF ContactCount, Return, Goto
    <3> QED BY <1>1, <2>1, <3>1, OneMoves DEF Changing
  <2>4. CASE LeadWrite(w)
    <3>1. /\ pc[w] = "lead.write" /\ pc'[w] = "lead.log" /\ ctx'[w] = ctx[w]
          /\ DOMAIN lead' = DOMAIN lead /\ \A k \in DOMAIN lead \ {ctx[w].lead} : lead'[k] = lead[k]
      BY <2>1, <2>4 DEF LeadWrite, At, Goto
    <3>2. /\ Created \subseteq {ctx[w].lead} /\ \A x \in Workers : pc[x] # "contact.rank"
          /\ \A x \in Workers : Changing(x) => ctx[x].lead = ctx[w].lead
      BY <3>1 DEF OneLead, Changing
    <3>3. DOMAIN lead' = Subjects /\ Created' \subseteq {ctx[w].lead}
      BY <3>1, <3>2 DEF OneLead, Created
    <3>4. /\ \A x \in Workers : Changing(x)' => ctx'[x].lead = ctx[w].lead
          /\ \A x \in Workers : pc'[x] # "contact.rank"
      BY <2>1, <3>1, <3>2 DEF Changing
    <3> QED BY <3>3, <3>4 DEF OneLead
  <2>5. CASE LeadLog(w)
    <3>1. /\ pc[w] = "lead.log" /\ pc'[w] = "idle"
          /\ DOMAIN lead' = DOMAIN lead /\ \A k \in DOMAIN lead \ {ctx[w].lead} : lead'[k] = lead[k]
      BY <2>1, <2>5 DEF LeadLog, At, Return
    <3>2. Created \subseteq {ctx[w].lead} /\ \A x \in Workers : pc[x] # "contact.rank"
      BY <3>1 DEF OneLead, Changing
    <3>3. /\ DOMAIN lead' = Subjects /\ Created' \subseteq {ctx[w].lead}
          /\ \A x \in Workers : Changing(x) => ctx[x].lead = ctx[w].lead
      BY <3>1, <3>2 DEF OneLead, Created, Changing
    <3>4. /\ \A x \in Workers : Changing(x)' => Changing(x) /\ ctx'[x].lead = ctx[w].lead
          /\ \A x \in Workers : pc'[x] # "contact.rank"
      BY <2>1, <3>1, <3>2, <3>3 DEF Changing
    <3> QED BY <3>3, <3>4 DEF OneLead
  <2>6. CASE MailboxStep(w) /\ UNCHANGED leadVars
    <3>1. pc'[w] \notin {"contact.rank", "lead.write", "lead.log"} /\ UNCHANGED lead
      BY <2>1, <2>6 DEF MailboxStep, NotifyCreate, QueueEmail, DrainNext, DrainDone, Deliver, Bounce,
         MarkSent, PutBack, At, Goto, GotoWith, Return, leadVars
    <3> QED BY <1>1, <2>1, <3>1, OneMoves DEF Changing
  <2> QED BY <1>5, <2>2, <2>3, <2>4, <2>5, <2>6, OneCreated DEF LeadsStep
<1>6. ASSUME NEW w \in Workers, OfficeFails(w) PROVE OneLead'
  <2>1. /\ \A x \in Workers \ {w} : pc'[x] = pc[x] /\ ctx'[x] = ctx[x]
        /\ pc[w] # "idle" /\ pc'[w] \notin {"contact.rank", "lead.write", "lead.log"}
    BY <1>6 DEF OfficeFails, MarkSentFails, Die, At, Goto, Return, TurnsInv
  <2>2. UNCHANGED lead
    BY <1>6 DEF OfficeFails, leadVars
  <2> QED BY <1>1, <2>1, <2>2, OneMoves DEF Changing
<1>7. ASSUME NEW read, MarkRead(read), UNCHANGED leadVars PROVE OneLead'
  BY <1>2, <1>7 DEF MarkRead, handlerVars
<1>8. CASE UNCHANGED <<leadVars, mailboxVars, pc, ctx>>
  BY <1>2, <1>8
<1> QED BY <1>3, <1>4, <1>5, <1>6, <1>7, <1>8, LeadsMove

LEMMA ShareKept == ShareInv /\ [OfficeNext]_officeVars => ShareInv'
<1> SUFFICES ASSUME ShareInv, [OfficeNext]_officeVars PROVE ShareInv'
  OBVIOUS
<1>1. LeadsInv' /\ UNCHANGED part /\ TurnsInv
  BY LeadsKept, PartStays DEF ShareInv, LeadsInv
<1>2. part = "contacts" => SharedInv'
  BY <1>1, SharedKept DEF ShareInv, LeadsInv
<1>3. part = "followup" => OneLead'
  BY <1>1, OneKept DEF ShareInv
<1> QED BY <1>1, <1>2, <1>3 DEF ShareInv


\* One request at a time, round robin gives every seller who is there a lead between two leads
\* of another one; the open leads of two sellers who are there differ by one, or, when requests
\* overlap, by no more than the requests that may have counted the same leads
\* (LeadsService.pickSeller, leads.service.ts:45-75).
THEOREM LeadsStayShared == OfficeSpec => []LeadsAreShared
<1>1. OfficeInit => ShareInv
  <2> SUFFICES ASSUME OfficeInit PROVE ShareInv
    OBVIOUS
  <2>1. /\ lead = [l \in Subjects |-> NULL] /\ DOMAIN seller = Sellers
        /\ \A w \in Workers : pc[w] = "idle"
    BY DEF OfficeInit, LeadsInit, HandlersInit
  <2>2. Created = {} /\ \A s : LeadsOf(s) = {} /\ Load(s) = 0
    BY <2>1, FS_EmptySet DEF Created, LeadsOf, Load
  <2>3. \A s, m : Cardinality(Pend(s, m)) = 0
    <3>1. \A s, m : Pend(s, m) = {}
      BY <2>1 DEF Pend
    <3> QED BY <3>1, FS_EmptySet
  <2>4. LoadsOK
    <3>1. Cardinality(Workers) \in Nat
      BY HandlersAssumption, FS_CardinalityType
    <3> QED BY <2>2, <2>3, <3>1 DEF LoadsOK
  <2>5. LeadsInOrder /\ SellersTakeTurns
    BY <2>2 DEF LeadsInOrder, HasLast, SellersTakeTurns
  <2>6. SharedInv
    BY <2>1, <2>2, <2>4, <2>5 DEF SharedInv, ChoiceOK, ChoiceIsFresh
  <2>7. OneLead
    BY <2>1, <2>2 DEF OneLead, Changing
  <2> QED BY <2>6, <2>7, LeadsInvInit DEF ShareInv
<1>2. ShareInv => LeadsAreShared
  <2> SUFFICES ASSUME ShareInv PROVE LeadsAreShared
    OBVIOUS
  <2> DEFINE n == IF Alone THEN 1 ELSE Cardinality(Workers)
  <2>1. n \in Nat /\ Cardinality(Workers) \in Nat
    BY HandlersAssumption, FS_CardinalityType
  <2>2. CASE part = "contacts"
    <3>1. SharedInv /\ ContactsInv
      BY <2>2 DEF ShareInv, LeadsInv
    <3>2. Alone => SellersTakeTurns
      BY <3>1 DEF SharedInv
    <3>3. ASSUME strategy = "least_busy", NEW s \in Sellers, NEW t \in Sellers, seller[t]
          PROVE  Cardinality(OpenLeads(s)) <= Cardinality(OpenLeads(t)) + n
      <4>1. \A x \in Sellers : RankOK(x)
        BY <3>1, RankIs DEF SharedInv, ContactsInv
      <4>2. \A x \in Sellers : Cardinality(OpenLeads(x)) = Load(x) /\ Load(x) \in Nat
        BY <3>3, <4>1 DEF RankOK, Rank
      <4>3. CASE Alone
        BY <3>1, <3>3, <4>2, <4>3 DEF SharedInv
      <4>4. CASE ~Alone
        <5>1. Load(s) + Cardinality(Pend(s, Load(t))) <= Load(t) + Cardinality(Workers)
          BY <3>1, <3>3, <4>2 DEF SharedInv, LoadsOK
        <5>2. Cardinality(Pend(s, Load(t))) \in Nat
          <6>1. IsFiniteSet(Workers) /\ Pend(s, Load(t)) \subseteq Workers
            BY HandlersAssumption DEF Pend
          <6> QED BY <6>1, FS_Subset, FS_CardinalityType
        <5>3. Load(s) <= Load(t) + Cardinality(Workers)
          BY <2>1, <4>2, <5>1, <5>2
        <5> QED BY <4>2, <4>4, <5>3
      <4> QED BY <4>3, <4>4
    <3> QED BY <3>2, <3>3 DEF LeadsAreShared, LoadIsSpread
  <2>3. CASE part # "contacts"
    <3>1. \A i, j \in Created : i = j
      BY <2>3 DEF ShareInv, LeadsInv, OneLead
    <3>2. Created \subseteq Nat
      BY LeadsAssumption DEF Created
    <3>3. SellersTakeTurns
      BY <3>1, <3>2 DEF SellersTakeTurns
    <3>4. \A s : Cardinality(OpenLeads(s)) \in Nat /\ Cardinality(OpenLeads(s)) <= 1
      <4> TAKE s
      <4>1. CASE OpenLeads(s) = {}
        BY <4>1, FS_EmptySet
      <4>2. CASE OpenLeads(s) # {}
        <5>1. PICK l : OpenLeads(s) = {l}
          BY <3>1, <4>2 DEF OpenLeads, LeadsOf
        <5> QED BY <5>1, FS_Singleton
      <4> QED BY <4>1, <4>2
    <3>5. Created # {} => n >= 1
      <4> SUFFICES ASSUME Created # {} PROVE n >= 1
        OBVIOUS
      <4>1. Workers # {}
        BY <2>3 DEF ShareInv, LeadsInv, OneLead
      <4>2. Cardinality(Workers) # 0
        BY <4>1, HandlersAssumption, FS_EmptySet
      <4> QED BY <2>1, <4>2
    <3>6. Created = {} => \A s : Cardinality(OpenLeads(s)) = 0
      BY FS_EmptySet DEF OpenLeads, LeadsOf
    <3>7. \A s, t : Cardinality(OpenLeads(s)) <= Cardinality(OpenLeads(t)) + n
      <4> TAKE s, t
      <4>1. CASE Created = {}
        BY <2>1, <3>6, <4>1
      <4>2. CASE Created # {}
        BY <2>1, <3>4, <3>5, <4>2
      <4> QED BY <4>1, <4>2
    <3> QED BY <3>3, <3>7 DEF LeadsAreShared, LoadIsSpread
  <2> QED BY <2>2, <2>3
<1> QED BY <1>1, <1>2, ShareKept, PTL DEF OfficeSpec
=============================================================================
