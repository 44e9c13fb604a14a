---------------------------- MODULE Office_proofs ----------------------------
(***************************************************************************)
(* Two services of the office for any instance, any number of overlapping  *)
(* requests and any number of them that die: the counter of favorites, and *)
(* the versions of documents.                                              *)
(*                                                                         *)
(* Neither property is inductive, because both rest on what a request has  *)
(* read before it waits: the pair it looked for, the file it has stored,   *)
(* the rows it has counted.  The strengthenings say what of that is still  *)
(* true when the request goes on.                                          *)
(***************************************************************************)
EXTENDS Office, FiniteSetTheorems, TLAPS

\* Requests of one service, wherever they stand
StandAt(labels) ==
    /\ pc \in [Workers -> {"idle"} \cup labels]
    /\ DOMAIN ctx = Workers

-----------------------------------------------------------------------------
(* What a step of the office may change                                    *)

LEMMA PartStays ==
    ASSUME [OfficeNext]_officeVars
    PROVE  UNCHANGED <<part, schedule>>
  <1>1. ASSUME NEW w \in Workers, OfficeRequest(w) \/ OfficeStep(w) \/ OfficeFails(w)
        PROVE  UNCHANGED <<part, schedule>>
    BY <1>1 DEF OfficeRequest, OfficeStep, OfficeFails, Only
  <1> QED
    BY <1>1 DEF OfficeNext, officeVars, Only, DrainJob, ExpiryJob, DeletionJob

LEMMA OthersKeepVisitors ==
    ASSUME [OfficeNext]_officeVars, part # "visitors"
    PROVE  UNCHANGED visitorVars
  <1>1. ASSUME NEW w \in Workers, OfficeRequest(w) \/ OfficeStep(w) \/ OfficeFails(w)
        PROVE  UNCHANGED visitorVars
    BY <1>1 DEF OfficeRequest, OfficeStep, OfficeFails, Only
  <1> QED
    BY <1>1 DEF OfficeNext, officeVars, Only, DrainJob, ExpiryJob, DeletionJob

LEMMA OthersKeepDocuments ==
    ASSUME [OfficeNext]_officeVars, part # "documents"
    PROVE  UNCHANGED documentVars
  <1>1. ASSUME NEW w \in Workers, OfficeRequest(w) \/ OfficeStep(w) \/ OfficeFails(w)
        PROVE  UNCHANGED documentVars
    BY <1>1 DEF OfficeRequest, OfficeStep, OfficeFails, Only
  <1> QED
    BY <1>1 DEF OfficeNext, officeVars, Only, DrainJob, ExpiryJob, DeletionJob

LEMMA VisitorsMove ==
    ASSUME [OfficeNext]_officeVars, part = "visitors"
    PROVE  \/ UNCHANGED <<favorite, favoriteCount, pc, ctx>>
           \/ \E w \in Workers :
                 \/ VisitorsRequest(w) \/ VisitorsStep(w)
                 \/ OfficeFails(w)
  <1>1. ASSUME NEW w \in Workers, OfficeRequest(w)
        PROVE  VisitorsRequest(w)
    BY <1>1 DEF OfficeRequest, Only
  <1>2. ASSUME NEW w \in Workers, OfficeStep(w)
        PROVE  VisitorsStep(w)
    BY <1>2 DEF OfficeStep, Only
  <1>3. CASE UNCHANGED officeVars
    BY <1>3 DEF officeVars, visitorVars, leadsVars, handlerVars
  <1> QED
    BY <1>1, <1>2, <1>3 DEF OfficeNext, Only, DrainJob, ExpiryJob, DeletionJob

LEMMA DocumentsMove ==
    ASSUME [OfficeNext]_officeVars, part = "documents"
    PROVE  \/ UNCHANGED <<documentVars, pc, ctx>>
           \/ \E w \in Workers :
                 \/ DocumentsRequest(w) /\ (Alone => Quiet)
                 \/ \E d \in Docs : ExpiryPasses(d)
                 \/ DocumentsStep(w)
                 \/ OfficeFails(w)
           \/ ExpireDocuments
  <1>1. ASSUME NEW w \in Workers, OfficeRequest(w)
        PROVE  (DocumentsRequest(w) /\ (Alone => Quiet)) \/ \E d \in Docs : ExpiryPasses(d)
    BY <1>1 DEF OfficeRequest, Only
  <1>2. ASSUME NEW w \in Workers, OfficeStep(w)
        PROVE  DocumentsStep(w)
    BY <1>2 DEF OfficeStep, Only
  <1>3. CASE UNCHANGED officeVars
    BY <1>3 DEF officeVars, documentVars, leadsVars, handlerVars
  <1> QED
    BY <1>1, <1>2, <1>3 DEF OfficeNext, Only, DrainJob, ExpiryJob, DeletionJob

-----------------------------------------------------------------------------
(* The counter of favorites                                                *)

FavoriteLabels == {"favorite.create", "favorite.delete"}

FavoritesTyped ==
    /\ favorite \subseteq Customers \X Vehicles /\ IsFiniteSet(favorite)
    /\ favoriteCount \in [Vehicles -> Int]

\* The pair a request goes on with is one of customer and vehicle.
PairRead(w) == pc[w] \in FavoriteLabels => ctx[w].pair \in Customers \X Vehicles

FavoritesInv ==
    /\ FavoritesTyped
    /\ FavoritesAreCounted
    /\ part = "visitors" => StandAt(FavoriteLabels) /\ \A w \in Workers : PairRead(w)

LEMMA FavoriteAdded ==
    ASSUME FavoritesTyped, FavoritesAreCounted, NEW c \in Customers, NEW v \in Vehicles,
           <<c, v>> \notin favorite, favorite' = favorite \cup {<<c, v>>},
           favoriteCount' = [favoriteCount EXCEPT ![v] = @ + 1]
    PROVE  FavoritesTyped' /\ FavoritesAreCounted'
  <1>1. FavoritesTyped'
    BY FS_AddElement DEF FavoritesTyped
  <1>2. ASSUME NEW u \in Vehicles PROVE favoriteCount'[u] = Cardinality(FavoritesOf(u)')
    <2>1. IsFiniteSet(FavoritesOf(u)) /\ favoriteCount[u] = Cardinality(FavoritesOf(u))
      BY FS_Subset DEF FavoritesTyped, FavoritesAreCounted, FavoritesOf
    <2>2. CASE u = v
      <3>1. FavoritesOf(u)' = FavoritesOf(u) \cup {<<c, v>>} /\ <<c, v>> \notin FavoritesOf(u)
        BY <2>2 DEF FavoritesOf
      <3>2. Cardinality(FavoritesOf(u) \cup {<<c, v>>}) = Cardinality(FavoritesOf(u)) + 1
        BY <2>1, <3>1, FS_AddElement
      <3> QED
        BY <2>1, <2>2, <3>1, <3>2 DEF FavoritesTyped
    <2>3. CASE u # v
      <3>1. FavoritesOf(u)' = FavoritesOf(u)
        BY <2>3 DEF FavoritesOf
      <3> QED
        BY <2>1, <2>3, <3>1 DEF FavoritesTyped
    <2> QED
      BY <2>2, <2>3
  <1> QED
    BY <1>1, <1>2 DEF FavoritesAreCounted

LEMMA FavoriteRemoved ==
    ASSUME FavoritesTyped, FavoritesAreCounted, NEW c \in Customers, NEW v \in Vehicles,
           <<c, v>> \in favorite, favorite' = favorite \ {<<c, v>>},
           favoriteCount' = [favoriteCount EXCEPT ![v] = @ - 1]
    PROVE  FavoritesTyped' /\ FavoritesAreCounted'
  <1>1. FavoritesTyped'
    BY FS_RemoveElement DEF FavoritesTyped
  <1>2. ASSUME NEW u \in Vehicles PROVE favoriteCount'[u] = Cardinality(FavoritesOf(u)')
    <2>1. IsFiniteSet(FavoritesOf(u)) /\ favoriteCount[u] = Cardinality(FavoritesOf(u))
      BY FS_Subset DEF FavoritesTyped, FavoritesAreCounted, FavoritesOf
    <2>2. CASE u = v
      <3>1. FavoritesOf(u)' = FavoritesOf(u) \ {<<c, v>>} /\ <<c, v>> \in FavoritesOf(u)
        BY <2>2 DEF FavoritesOf
      <3>2. Cardinality(FavoritesOf(u) \ {<<c, v>>}) = Cardinality(FavoritesOf(u)) - 1
        BY <2>1, <3>1, FS_RemoveElement
      <3> QED
        BY <2>1, <2>2, <3>1, <3>2 DEF FavoritesTyped
    <2>3. CASE u # v
      <3>1. FavoritesOf(u)' = FavoritesOf(u)
        BY <2>3 DEF FavoritesOf
      <3> QED
        BY <2>1, <2>3, <3>1 DEF FavoritesTyped
    <2> QED
      BY <2>2, <2>3
  <1> QED
    BY <1>1, <1>2 DEF FavoritesAreCounted

\* A request that waits, or ends, leaves the others where they stand.
LEMMA RequestsKept ==
    ASSUME FavoritesInv, part = "visitors", [OfficeNext]_officeVars
    PROVE  StandAt(FavoriteLabels)' /\ \A w \in Workers : PairRead(w)'
  <1>1. StandAt(FavoriteLabels) /\ \A w \in Workers : PairRead(w)
    BY DEF FavoritesInv
  <1>2. CASE UNCHANGED <<pc, ctx>>
    BY <1>1, <1>2 DEF StandAt, PairRead
  <1>3. ASSUME NEW w \in Workers, VisitorsRequest(w)
        PROVE  StandAt(FavoriteLabels)' /\ \A x \in Workers : PairRead(x)'
    <2>1. ASSUME NEW c \in Customers, NEW v \in Vehicles,
                 RequestFavorite(w, c, v) \/ RequestUnfavorite(w, c, v)
          PROVE  StandAt(FavoriteLabels)' /\ \A x \in Workers : PairRead(x)'
      BY <1>1, <2>1 DEF RequestFavorite, RequestUnfavorite, Begin, StandAt, PairRead, FavoriteLabels
    <2>2. ASSUME NEW v \in Vehicles, NEW c \in Customers \cup {NULL}, TrackVehicleView(v, c)
          PROVE  StandAt(FavoriteLabels)' /\ \A x \in Workers : PairRead(x)'
      BY <1>1, <2>2 DEF TrackVehicleView, handlerVars, StandAt, PairRead
    <2> QED
      BY <1>3, <2>1, <2>2 DEF VisitorsRequest
  <1>4. ASSUME NEW w \in Workers, VisitorsStep(w)
        PROVE  StandAt(FavoriteLabels)' /\ \A x \in Workers : PairRead(x)'
    BY <1>1, <1>4 DEF VisitorsStep, CreateFavorite, DeleteFavorite, FavoriteFails, Return,
       StandAt, PairRead, FavoriteLabels
  <1>5. ASSUME NEW w \in Workers, OfficeFails(w)
        PROVE  StandAt(FavoriteLabels)' /\ \A x \in Workers : PairRead(x)'
    <2>1. ~MarkSentFails(w)
      BY <1>1 DEF MarkSentFails, At, StandAt, FavoriteLabels
    <2> QED
      BY <1>1, <1>5, <2>1 DEF OfficeFails, Die, StandAt, PairRead, FavoriteLabels
  <1> QED
    BY <1>2, <1>3, <1>4, <1>5, VisitorsMove

LEMMA FavoritesStep == FavoritesInv /\ [OfficeNext]_officeVars => FavoritesInv'
  <1> SUFFICES ASSUME FavoritesInv, [OfficeNext]_officeVars PROVE FavoritesInv'
    OBVIOUS
  <1>1. FavoritesTyped /\ FavoritesAreCounted
    BY DEF FavoritesInv
  <1>2. CASE UNCHANGED <<favorite, favoriteCount>>
    <2>1. FavoritesTyped' /\ FavoritesAreCounted'
      BY <1>1, <1>2 DEF FavoritesTyped, FavoritesAreCounted, FavoritesOf
    <2> QED
      BY <2>1, PartStays, RequestsKept DEF FavoritesInv
  <1>3. CASE part = "visitors" /\ \E w \in Workers : CreateFavorite(w) \/ DeleteFavorite(w)
    <2>1. PICK w \in Workers : CreateFavorite(w) \/ DeleteFavorite(w)
      BY <1>3
    <2>2. PICK c \in Customers, v \in Vehicles : ctx[w].pair = <<c, v>>
      BY <1>3, <2>1 DEF FavoritesInv, PairRead, FavoriteLabels, CreateFavorite, DeleteFavorite, At
    <2>3. ctx[w].pair[2] = v
      BY <2>2
    <2>4. CASE CreateFavorite(w)
      <3>1. /\ <<c, v>> \notin favorite /\ favorite' = favorite \cup {<<c, v>>}
            /\ favoriteCount' = [favoriteCount EXCEPT ![v] = @ + 1]
        BY <2>2, <2>3, <2>4 DEF CreateFavorite
      <3>2. FavoritesTyped' /\ FavoritesAreCounted'
        BY <1>1, <3>1, FavoriteAdded
      <3> QED
        BY <1>3, <3>2, PartStays, RequestsKept DEF FavoritesInv
    <2>5. CASE DeleteFavorite(w)
      <3>1. /\ <<c, v>> \in favorite /\ favorite' = favorite \ {<<c, v>>}
            /\ favoriteCount' = [favoriteCount EXCEPT ![v] = @ - 1]
        BY <2>2, <2>3, <2>5 DEF DeleteFavorite
      <3>2. FavoritesTyped' /\ FavoritesAreCounted'
        BY <1>1, <3>1, FavoriteRemoved
      <3> QED
        BY <1>3, <3>2, PartStays, RequestsKept DEF FavoritesInv
    <2> QED
      BY <2>1, <2>4, <2>5
  <1>4. CASE part = "visitors" /\ \A w \in Workers : ~CreateFavorite(w) /\ ~DeleteFavorite(w)
    <2>1. UNCHANGED <<favorite, favoriteCount>>
      BY <1>4, VisitorsMove DEF VisitorsRequest, VisitorsStep, RequestFavorite, RequestUnfavorite,
         TrackVehicleView, FavoriteFails, OfficeFails, visitorVars
    <2> QED
      BY <1>2, <2>1
  <1>5. CASE part # "visitors"
    BY <1>2, <1>5, OthersKeepVisitors DEF visitorVars
  <1> QED
    BY <1>3, <1>4, <1>5

\* However requests to mark and unmark overlap, and wherever they stop, the
\* counter of a vehicle is the number of customers who have marked it.
THEOREM CounterMatchesFavorites == OfficeSpec => []FavoritesAreCounted
  <1>1. OfficeInit => FavoritesInv
    <2> SUFFICES ASSUME OfficeInit PROVE FavoritesInv
      OBVIOUS
    <2>1. favorite = {} /\ favoriteCount = [v \in Vehicles |-> 0]
      BY DEF OfficeInit, VisitorsInit
    <2>2. \A v \in Vehicles : FavoritesOf(v) = {}
      BY <2>1 DEF FavoritesOf
    <2>3. IsFiniteSet({}) /\ Cardinality({}) = 0
      BY FS_EmptySet
    <2>4. StandAt(FavoriteLabels) /\ \A w \in Workers : PairRead(w)
      BY DEF OfficeInit, HandlersInit, StandAt, PairRead, FavoriteLabels
    <2> QED
      BY <2>1, <2>2, <2>3, <2>4 DEF FavoritesInv, FavoritesTyped, FavoritesAreCounted
  <1>2. FavoritesInv => FavoritesAreCounted
    BY DEF FavoritesInv
  <1> QED
    BY <1>1, <1>2, FavoritesStep, PTL DEF OfficeSpec

-----------------------------------------------------------------------------
(* The versions of documents                                               *)

DocumentLabels == {"upload.create", "upload.count", "upload.write"}

VersionRows == [version : Nat \ {0}, file : Nat]

RowsTyped ==
    /\ doc \in [Docs -> DocumentRows \cup {NULL}]
    /\ versions \in [Docs -> Seq(VersionRows)]
    /\ files \in 0 .. MaxFiles
    /\ \A d \in Docs : \A i \in DOMAIN versions[d] : versions[d][i].file <= files

\* A version belongs to a document that exists.
OnlyFiled == \A d \in Docs : doc[d] = NULL => versions[d] = <<>>

VersionsOK ==
    /\ RowsTyped
    /\ OnlyFiled
    /\ CurrentFileIsLatest
    /\ VersionsAreCounted
    /\ Alone => VersionsAreNumbered

UploadRows == [doc : Docs \cup {NULL}, file : Nat, expiry : {"kept", "future"}]
CountedRows ==
    [doc : Docs \cup {NULL}, file : Nat, expiry : {"kept", "future"}, version : Nat \ {0}]

\* What an upload goes on with: the file it has stored, a document that exists,
\* and a number that has not run ahead of the versions since.
UploadOK(w) ==
    /\ pc[w] \in {"upload.create", "upload.count"} => ctx[w] \in UploadRows
    /\ pc[w] = "upload.write" =>
          /\ ctx[w] \in CountedRows
          /\ ctx[w].version <= Len(versions[ctx[w].doc]) + 1
    /\ pc[w] \in {"upload.count", "upload.write"} => ctx[w].doc \in Filed
    /\ pc[w] \in DocumentLabels => ctx[w].file <= files

\* Nobody else has that file, neither a version nor an upload.
OwnsFile(w) ==
    pc[w] \in DocumentLabels =>
        /\ \A d \in Docs : \A i \in DOMAIN versions[d] : versions[d][i].file # ctx[w].file
        /\ \A x \in Workers \ {w} : pc[x] \in DocumentLabels => ctx[x].file # ctx[w].file

\* Alone, nothing has come between the count and the insert.
InTurn(w) ==
    Alone =>
        /\ pc[w] # "idle" => \A x \in Workers \ {w} : pc[x] = "idle"
        /\ pc[w] = "upload.write" => ctx[w].version = Len(versions[ctx[w].doc]) + 1

UploadsOK ==
    /\ StandAt(DocumentLabels)
    /\ \A w \in Workers : UploadOK(w) /\ OwnsFile(w) /\ InTurn(w)

VersionsInv == VersionsOK /\ (part = "documents" => UploadsOK)

LEMMA RowOfVersion ==
    ASSUME RowsTyped, NEW d \in Docs, NEW i \in DOMAIN versions[d]
    PROVE  versions[d][i] \in VersionRows
  BY DEF RowsTyped

\* A step that leaves versions and files alone and gives no document another
\* file keeps what is said of them.
FilesKept ==
    /\ UNCHANGED <<versions, files>>
    /\ doc' \in [Docs -> DocumentRows \cup {NULL}]
    /\ \A d \in Docs :
          IF doc[d] = NULL THEN doc'[d] # NULL => doc'[d].file = 0
          ELSE doc'[d] # NULL /\ doc'[d].file = doc[d].file

LEMMA VersionsKept ==
    ASSUME VersionsOK, FilesKept, UNCHANGED schedule
    PROVE  VersionsOK'
  <1>1. RowsTyped' /\ OnlyFiled' /\ VersionsAreCounted' /\ (Alone => VersionsAreNumbered)'
    BY DEF VersionsOK, RowsTyped, OnlyFiled, FilesKept, VersionsAreCounted, VersionsAreNumbered,
       Alone
  <1>2. CurrentFileIsLatest'
    <2>1. ASSUME NEW d \in Docs, doc'[d] # NULL
          PROVE  doc'[d].file = IF versions[d] = <<>> THEN 0 ELSE versions[d][Len(versions[d])].file
      BY <2>1 DEF VersionsOK, OnlyFiled, FilesKept, CurrentFileIsLatest, Filed
    <2> QED
      BY <2>1 DEF VersionsOK, FilesKept, CurrentFileIsLatest, Filed
  <1> QED
    BY <1>1, <1>2 DEF VersionsOK

\* The handlers do not notice such a step.
LEMMA UploadsUntouched ==
    ASSUME UploadsOK, FilesKept, UNCHANGED <<pc, ctx, schedule>>
    PROVE  UploadsOK'
  <1>1. \A w \in Workers : ctx[w].doc \in Filed => ctx[w].doc \in Filed'
    BY DEF FilesKept, Filed
  <1>2. StandAt(DocumentLabels)'
    BY DEF UploadsOK, StandAt
  <1>3. ASSUME NEW w \in Workers PROVE UploadOK(w)' /\ OwnsFile(w)' /\ InTurn(w)'
    BY <1>1 DEF UploadsOK, FilesKept, UploadOK, OwnsFile, InTurn, Alone
  <1> QED
    BY <1>2, <1>3 DEF UploadsOK

LEMMA CreateKept ==
    ASSUME VersionsOK, NEW d \in Docs, NEW expiry \in {"kept", "future"}, CreateDocument(d, expiry)
    PROVE  FilesKept
  BY DocumentsAssumption
  DEF VersionsOK, RowsTyped, CreateDocument, FilesKept, DocumentRows, DocumentStatuses, Redated

LEMMA ValidateKept ==
    ASSUME VersionsOK, NEW d \in Docs, NEW status \in {"APPROVED", "REJECTED"}, Validate(d, status)
    PROVE  FilesKept
  BY NoRowAssumption
  DEF VersionsOK, RowsTyped, Validate, FilesKept, Filed, DocumentRows, DocumentStatuses

LEMMA ElapseKept ==
    ASSUME VersionsOK, NEW d \in Docs, ExpiryPasses(d)
    PROVE  FilesKept
  BY NoRowAssumption DEF VersionsOK, RowsTyped, ExpiryPasses, FilesKept, Filed, DocumentRows

LEMMA ExpireKept ==
    ASSUME VersionsOK, ExpireDocuments
    PROVE  FilesKept
  BY NoRowAssumption
  DEF VersionsOK, RowsTyped, ExpireDocuments, FilesKept, Filed, Overdue, DocumentRows,
      DocumentStatuses

LEMMA StartUploadKept ==
    ASSUME VersionsOK, UploadsOK, NEW w \in Workers, NEW d \in Docs \cup {NULL},
           NEW expiry \in {"kept", "future"}, d # NULL => d \in Filed,
           StartUpload(w, d, expiry), Alone => Quiet, UNCHANGED schedule
    PROVE  VersionsOK' /\ UploadsOK'
  <1>1. /\ files \in Nat /\ files' = files + 1 /\ files' <= MaxFiles /\ UNCHANGED <<doc, versions>>
        /\ pc[w] = "idle"
        /\ pc' = [pc EXCEPT ![w] = IF d = NULL THEN "upload.create" ELSE "upload.count"]
        /\ ctx' = [ctx EXCEPT ![w] = [doc |-> d, file |-> files + 1, expiry |-> expiry]]
    BY DocumentsAssumption DEF StartUpload, Begin, VersionsOK, RowsTyped
  <1>2. VersionsOK'
    <2>1. ASSUME NEW e \in Docs, NEW i \in DOMAIN versions[e]
          PROVE  versions[e][i].file <= files + 1
      <3>1. versions[e][i].file \in Nat /\ versions[e][i].file <= files
        BY RowOfVersion DEF VersionsOK, RowsTyped, VersionRows
      <3> QED
        BY <1>1, <3>1
    <2> QED
      BY <1>1, <2>1, DocumentsAssumption
      DEF VersionsOK, RowsTyped, OnlyFiled, CurrentFileIsLatest, VersionsAreCounted,
          VersionsAreNumbered, Filed, Alone
  <1>3. StandAt(DocumentLabels)'
    BY <1>1 DEF UploadsOK, StandAt, DocumentLabels
  <1>4. ASSUME NEW x \in Workers PROVE UploadOK(x)'
    BY <1>1 DEF UploadsOK, StandAt, UploadOK, DocumentLabels, UploadRows, CountedRows, Filed
  <1>5. ASSUME NEW x \in Workers PROVE OwnsFile(x)'
    <2>1. \A e \in Docs : \A i \in DOMAIN versions[e] : versions[e][i].file # files + 1
      BY <1>1 DEF VersionsOK, RowsTyped, VersionRows
    <2>2. \A y \in Workers : pc[y] \in DocumentLabels => ctx[y].file # files + 1
      BY <1>1 DEF UploadsOK, UploadOK, UploadRows, CountedRows, DocumentLabels
    <2> QED
      BY <1>1, <2>1, <2>2 DEF UploadsOK, StandAt, OwnsFile, DocumentLabels
  <1>6. ASSUME NEW x \in Workers PROVE InTurn(x)'
    BY <1>1 DEF UploadsOK, StandAt, InTurn, Quiet, Alone
  <1> QED
    BY <1>2, <1>3, <1>4, <1>5, <1>6 DEF UploadsOK

LEMMA UploadCreateKept ==
    ASSUME VersionsOK, UploadsOK, NEW w \in Workers, UploadCreate(w), UNCHANGED schedule
    PROVE  VersionsOK' /\ UploadsOK'
  <1>1. PICK d \in Docs \ Filed :
          /\ pc[w] = "upload.create"
          /\ doc' = [doc EXCEPT ![d] = [status |-> "RECEIVED", file |-> 0, expiry |-> "none"]]
          /\ pc' = [pc EXCEPT ![w] = "upload.count"]
          /\ ctx' = [ctx EXCEPT ![w] = [ctx[w] EXCEPT !.doc = d]]
          /\ UNCHANGED <<versions, files>>
    BY DEF UploadCreate, At, GotoWith
  <1>2. FilesKept
    BY <1>1, DocumentsAssumption
    DEF VersionsOK, RowsTyped, FilesKept, Filed, DocumentRows, DocumentStatuses
  <1>3. doc'[d] # NULL /\ ctx[w] \in UploadRows
    BY <1>1, NoRowAssumption, DocumentsAssumption
    DEF VersionsOK, RowsTyped, UploadsOK, UploadOK, DocumentRows, DocumentStatuses
  <1>4. ctx'[w] \in UploadRows /\ ctx'[w].doc = d /\ ctx'[w].file = ctx[w].file
    BY <1>1, <1>3 DEF UploadRows, UploadsOK, StandAt
  <1>5. \A x \in Workers : ctx[x].doc \in Filed => ctx[x].doc \in Filed'
    BY <1>2 DEF FilesKept, Filed
  <1>6. StandAt(DocumentLabels)'
    BY <1>1 DEF UploadsOK, StandAt, DocumentLabels
  <1>7. ASSUME NEW x \in Workers PROVE UploadOK(x)'
    <2>1. CASE x = w
      BY <1>1, <1>3, <1>4, <2>1 DEF UploadsOK, StandAt, UploadOK, DocumentLabels, Filed
    <2>2. CASE x # w
      BY <1>1, <1>5, <2>2 DEF UploadsOK, StandAt, UploadOK
    <2> QED
      BY <2>1, <2>2
  <1>8. ASSUME NEW x \in Workers PROVE OwnsFile(x)'
    <2>1. \A y \in Workers : ctx'[y].file = ctx[y].file /\
             (pc'[y] \in DocumentLabels => pc[y] \in DocumentLabels)
      BY <1>1, <1>4 DEF UploadsOK, StandAt, DocumentLabels
    <2> QED
      BY <1>1, <2>1 DEF UploadsOK, OwnsFile
  <1>9. ASSUME NEW x \in Workers PROVE InTurn(x)'
    BY <1>1 DEF UploadsOK, StandAt, InTurn, Alone
  <1> QED
    BY <1>2, <1>6, <1>7, <1>8, <1>9, VersionsKept DEF UploadsOK

LEMMA UploadCountKept ==
    ASSUME VersionsOK, UploadsOK, NEW w \in Workers, UploadCount(w), UNCHANGED schedule
    PROVE  VersionsOK' /\ UploadsOK'
  <1>1. /\ pc[w] = "upload.count" /\ UNCHANGED <<doc, versions, files>>
        /\ pc' = [pc EXCEPT ![w] = "upload.write"]
        /\ ctx' = [ctx EXCEPT ![w] =
              [doc |-> ctx[w].doc, file |-> ctx[w].file, expiry |-> ctx[w].expiry,
               version |-> Len(versions[ctx[w].doc]) + 1]]
    BY DEF UploadCount, At, GotoWith, documentVars
  <1>2. ctx[w] \in UploadRows /\ ctx[w].doc \in Docs /\ ctx[w].file <= files
    BY <1>1 DEF UploadsOK, UploadOK, Filed, DocumentLabels
  <1>3. Len(versions[ctx[w].doc]) \in Nat
    BY <1>2 DEF VersionsOK, RowsTyped
  <1>4. /\ ctx'[w] \in CountedRows /\ ctx'[w].file = ctx[w].file /\ ctx'[w].doc = ctx[w].doc
        /\ ctx'[w].version = Len(versions[ctx[w].doc]) + 1
    BY <1>1, <1>2, <1>3 DEF UploadRows, CountedRows, UploadsOK, StandAt
  <1>5. VersionsOK'
    BY <1>1 DEF VersionsOK, RowsTyped, OnlyFiled, CurrentFileIsLatest, VersionsAreCounted,
       VersionsAreNumbered, Filed, Alone
  <1>6. StandAt(DocumentLabels)'
    BY <1>1 DEF UploadsOK, StandAt, DocumentLabels
  <1>7. ASSUME NEW x \in Workers PROVE UploadOK(x)'
    <2>1. CASE x = w
      BY <1>1, <1>2, <1>3, <1>4, <2>1 DEF UploadsOK, StandAt, UploadOK, DocumentLabels, Filed
    <2>2. CASE x # w
      BY <1>1, <2>2 DEF UploadsOK, StandAt, UploadOK, Filed
    <2> QED
      BY <2>1, <2>2
  <1>8. ASSUME NEW x \in Workers PROVE OwnsFile(x)'
    <2>1. \A y \in Workers : ctx'[y].file = ctx[y].file /\
             (pc'[y] \in DocumentLabels => pc[y] \in DocumentLabels)
      BY <1>1, <1>4 DEF UploadsOK, StandAt, DocumentLabels
    <2> QED
      BY <1>1, <2>1 DEF UploadsOK, OwnsFile
  <1>9. ASSUME NEW x \in Workers PROVE InTurn(x)'
    BY <1>1, <1>4 DEF UploadsOK, StandAt, InTurn, Alone
  <1> QED
    BY <1>5, <1>6, <1>7, <1>8, <1>9 DEF UploadsOK

\* What the transaction of an upload writes
LEMMA Written ==
    ASSUME VersionsOK, UploadsOK, NEW w \in Workers, UploadWrite(w)
    PROVE  LET d   == ctx[w].doc
               row == [version |-> ctx[w].version, file |-> ctx[w].file]
           IN  /\ d \in Docs /\ doc[d] # NULL /\ row \in VersionRows
               /\ row.file <= files /\ row.version <= Len(versions[d]) + 1
               /\ versions[d] \in Seq(VersionRows)
               /\ versions' = [versions EXCEPT ![d] = Append(versions[d], row)]
               /\ doc' \in [Docs -> DocumentRows \cup {NULL}]
               /\ doc'[d] # NULL /\ doc'[d].file = row.file
               /\ \A e \in Docs \ {d} : doc'[e] = doc[e]
               /\ UNCHANGED files
  <1>1. /\ pc[w] = "upload.write"
        /\ doc' = [doc EXCEPT ![ctx[w].doc].status = "UNDER_REVIEW",
                              ![ctx[w].doc].expiry = Redated(@, ctx[w].expiry),
                              ![ctx[w].doc].file = ctx[w].file]
        /\ versions' = [versions EXCEPT ![ctx[w].doc] =
              Append(@, [version |-> ctx[w].version, file |-> ctx[w].file])]
        /\ UNCHANGED files
    BY DEF UploadWrite, At
  <1>2. /\ ctx[w].doc \in Docs /\ doc[ctx[w].doc] \in DocumentRows
        /\ ctx[w] \in CountedRows /\ ctx[w].version <= Len(versions[ctx[w].doc]) + 1
        /\ ctx[w].file <= files
    BY <1>1 DEF UploadsOK, UploadOK, Filed, DocumentLabels, VersionsOK, RowsTyped
  <1>3. /\ ctx[w].file \in 0 .. MaxFiles /\ ctx[w].expiry \in {"kept", "future"}
        /\ ctx[w].version \in Nat \ {0}
    BY <1>2, DocumentsAssumption DEF CountedRows, VersionsOK, RowsTyped
  <1>4. /\ doc'[ctx[w].doc] = [status |-> "UNDER_REVIEW", file |-> ctx[w].file,
                               expiry |-> Redated(doc[ctx[w].doc].expiry, ctx[w].expiry)]
        /\ \A e \in Docs \ {ctx[w].doc} : doc'[e] = doc[e]
        /\ DOMAIN doc' = Docs
    BY <1>1, <1>2 DEF VersionsOK, RowsTyped, DocumentRows
  <1>5. doc'[ctx[w].doc] \in DocumentRows
    BY <1>2, <1>3, <1>4 DEF DocumentRows, DocumentStatuses, Redated
  <1>6. doc' \in [Docs -> DocumentRows \cup {NULL}]
    BY <1>1, <1>4, <1>5 DEF VersionsOK, RowsTyped
  <1>7. versions[ctx[w].doc] \in Seq(VersionRows)
    BY <1>2 DEF VersionsOK, RowsTyped
  <1>8. versions' = [versions EXCEPT ![ctx[w].doc] =
              Append(versions[ctx[w].doc], [version |-> ctx[w].version, file |-> ctx[w].file])]
    BY <1>1
  <1>9. [version |-> ctx[w].version, file |-> ctx[w].file] \in VersionRows
    BY <1>2, <1>3 DEF CountedRows, VersionRows
  <1>10. doc[ctx[w].doc] # NULL /\ doc'[ctx[w].doc] # NULL
    BY <1>2, <1>5, NoRowAssumption
  <1>11. doc'[ctx[w].doc].file = ctx[w].file
    BY <1>4
  <1> QED
    BY <1>1, <1>2, <1>4, <1>6, <1>7, <1>8, <1>9, <1>10, <1>11

LEMMA UploadWriteKept ==
    ASSUME VersionsOK, UploadsOK, NEW w \in Workers, UploadWrite(w), UNCHANGED schedule
    PROVE  VersionsOK' /\ UploadsOK'
  <1> DEFINE d   == ctx[w].doc
             row == [version |-> ctx[w].version, file |-> ctx[w].file]
             n   == Len(versions[d]) + 1
  <1>1. /\ d \in Docs /\ doc[d] # NULL /\ row \in VersionRows
        /\ row.file <= files /\ row.version <= n
        /\ versions[d] \in Seq(VersionRows)
        /\ versions' = [versions EXCEPT ![d] = Append(versions[d], row)]
        /\ doc' \in [Docs -> DocumentRows \cup {NULL}]
        /\ doc'[d] # NULL /\ doc'[d].file = row.file
        /\ \A e \in Docs \ {d} : doc'[e] = doc[e]
        /\ UNCHANGED files
    BY Written
  <1>2. /\ pc[w] = "upload.write"
        /\ pc' = [pc EXCEPT ![w] = "idle"] /\ ctx' = [ctx EXCEPT ![w] = NULL]
    BY DEF UploadWrite, At, Return
  <1> DEFINE rows == Append(versions[d], row)
  <1>3. /\ rows \in Seq(VersionRows) /\ Len(rows) = n /\ n \in Nat
        /\ DOMAIN rows = DOMAIN versions[d] \cup {n} /\ n \notin DOMAIN versions[d]
        /\ rows[n] = row /\ \A i \in DOMAIN versions[d] : rows[i] = versions[d][i]
    BY <1>1
  <1>4. versions'[d] = rows /\ \A e \in Docs \ {d} : versions'[e] = versions[e]
    BY <1>1 DEF VersionsOK, RowsTyped
  <1> HIDE DEF rows, row, n
  <1>5. RowsTyped'
    <2>1. versions' \in [Docs -> Seq(VersionRows)]
      BY <1>1, <1>3, <1>4 DEF VersionsOK, RowsTyped, rows
    <2>2. ASSUME NEW e \in Docs, NEW i \in DOMAIN versions'[e]
          PROVE  versions'[e][i].file <= files
      BY <1>1, <1>3, <1>4, <2>2 DEF VersionsOK, RowsTyped
    <2> QED
      BY <1>1, <2>1, <2>2 DEF VersionsOK, RowsTyped
  <1>6. OnlyFiled'
    BY <1>1, <1>4 DEF VersionsOK, OnlyFiled
  <1>7. VersionsAreCounted'
    BY <1>1, <1>3, <1>4 DEF VersionsOK, VersionsAreCounted
  <1>8. Alone' => VersionsAreNumbered'
    <2>1. Alone => row.version = n
      BY <1>2 DEF UploadsOK, InTurn, row, n
    <2> QED
      BY <1>1, <1>3, <1>4, <2>1 DEF VersionsOK, VersionsAreNumbered, Alone
  <1>9. CurrentFileIsLatest'
    <2>1. ASSUME NEW e \in Docs, doc'[e] # NULL
          PROVE  doc'[e].file =
                   IF versions'[e] = <<>> THEN 0 ELSE versions'[e][Len(versions'[e])].file
      <3>1. CASE e = d
        <4>1. versions'[e] = rows /\ rows # <<>> /\ rows[Len(rows)] = row
          BY <1>3, <1>4, <3>1
        <4> QED
          BY <1>1, <3>1, <4>1
      <3>2. CASE e # d
        BY <1>1, <1>4, <2>1, <3>2 DEF VersionsOK, CurrentFileIsLatest, Filed
      <3> QED
        BY <3>1, <3>2
    <2>2. \A e \in Docs : \A i \in DOMAIN versions[e] : versions[e][i].file # row.file
      BY <1>2 DEF UploadsOK, OwnsFile, DocumentLabels, row
    <2>3. ASSUME NEW e \in Docs, NEW f \in Docs,
                 NEW i \in DOMAIN versions'[e], NEW j \in DOMAIN versions'[f],
                 versions'[e][i].file = versions'[f][j].file
          PROVE  e = f /\ i = j
      <3>1. CASE e = d /\ i = n /\ ~(f = d /\ j = n)
        BY <1>3, <1>4, <2>2, <2>3, <3>1
      <3>2. CASE f = d /\ j = n /\ ~(e = d /\ i = n)
        BY <1>3, <1>4, <2>2, <2>3, <3>2
      <3>3. CASE ~(e = d /\ i = n) /\ ~(f = d /\ j = n)
        BY <1>3, <1>4, <2>3, <3>3 DEF VersionsOK, CurrentFileIsLatest
      <3> QED
        BY <3>1, <3>2, <3>3
    <2> QED
      BY <2>1, <2>3 DEF CurrentFileIsLatest, Filed
  <1>10. StandAt(DocumentLabels)'
    BY <1>2 DEF UploadsOK, StandAt
  <1>11. ASSUME NEW x \in Workers PROVE UploadOK(x)' /\ OwnsFile(x)' /\ InTurn(x)'
    <2>1. CASE x = w
      BY <1>2, <2>1 DEF UploadsOK, StandAt, UploadOK, OwnsFile, InTurn, DocumentLabels
    <2>2. CASE x # w
      <3>1. pc'[x] = pc[x] /\ ctx'[x] = ctx[x]
        BY <1>2, <2>2 DEF UploadsOK, StandAt
      <3>2. pc[x] \in DocumentLabels => ctx[x].file # row.file
        BY <1>2, <2>2 DEF UploadsOK, OwnsFile, DocumentLabels, row
      <3>3. OwnsFile(x)'
        <4>1. ASSUME pc[x] \in DocumentLabels, NEW e \in Docs, NEW i \in DOMAIN versions'[e]
              PROVE  versions'[e][i].file # ctx[x].file
          BY <1>3, <1>4, <3>2, <4>1 DEF UploadsOK, OwnsFile
        <4>2. ASSUME pc[x] \in DocumentLabels, NEW y \in Workers \ {x}, pc'[y] \in DocumentLabels
              PROVE  ctx'[y].file # ctx[x].file
          BY <1>2, <4>2 DEF UploadsOK, StandAt, OwnsFile, DocumentLabels
        <4> QED
          BY <3>1, <4>1, <4>2 DEF OwnsFile
      <3>4. UploadOK(x)'
        <4>1. \A e \in Docs : Len(versions[e]) \in Nat /\ Len(versions'[e]) \in Nat
                              /\ Len(versions[e]) <= Len(versions'[e])
          <5>1. ASSUME NEW e \in Docs, e # d
                PROVE  Len(versions[e]) \in Nat /\ versions'[e] = versions[e]
            BY <1>4, <5>1 DEF VersionsOK, RowsTyped
          <5>2. Len(versions[d]) \in Nat /\ Len(versions'[d]) = Len(versions[d]) + 1
            BY <1>1, <1>3, <1>4 DEF n
          <5> QED
            BY <5>1, <5>2
        <4>2. ctx[x].doc \in Filed => ctx[x].doc \in Docs /\ ctx[x].doc \in Filed'
          BY <1>1 DEF Filed
        <4>3. pc[x] = "upload.write" => ctx[x].version <= Len(versions'[ctx[x].doc]) + 1
          BY <4>1, <4>2 DEF UploadsOK, UploadOK, CountedRows
        <4> QED
          BY <1>1, <3>1, <4>2, <4>3 DEF UploadsOK, UploadOK
      <3>5. InTurn(x)'
        BY <1>2, <2>2, <3>1 DEF UploadsOK, StandAt, InTurn, Alone
      <3> QED
        BY <3>3, <3>4, <3>5
    <2> QED
      BY <2>1, <2>2
  <1> QED
    BY <1>5, <1>6, <1>7, <1>8, <1>9, <1>10, <1>11 DEF VersionsOK, UploadsOK

LEMMA DeathKept ==
    ASSUME VersionsOK, UploadsOK, NEW w \in Workers, OfficeFails(w), part = "documents"
    PROVE  VersionsOK' /\ UploadsOK'
  <1>1. ~MarkSentFails(w)
    BY DEF MarkSentFails, At, UploadsOK, StandAt, DocumentLabels
  <1>2. /\ pc' = [pc EXCEPT ![w] = "idle"] /\ ctx' = [ctx EXCEPT ![w] = NULL]
        /\ UNCHANGED <<doc, versions, files, schedule>>
    BY <1>1 DEF OfficeFails, Die, documentVars
  <1>3. VersionsOK'
    BY <1>2 DEF VersionsOK, RowsTyped, OnlyFiled, CurrentFileIsLatest, VersionsAreCounted,
       VersionsAreNumbered, Filed, Alone
  <1>4. StandAt(DocumentLabels)'
    BY <1>2 DEF UploadsOK, StandAt
  <1>5. ASSUME NEW x \in Workers PROVE UploadOK(x)' /\ OwnsFile(x)' /\ InTurn(x)'
    BY <1>2 DEF UploadsOK, StandAt, UploadOK, OwnsFile, InTurn, DocumentLabels, Filed, Alone
  <1> QED
    BY <1>3, <1>4, <1>5 DEF UploadsOK

LEMMA RewriteKept ==
    ASSUME VersionsOK, UploadsOK, FilesKept, UNCHANGED handlerVars, UNCHANGED schedule
    PROVE  VersionsOK' /\ UploadsOK'
  BY VersionsKept, UploadsUntouched DEF handlerVars

LEMMA DocumentsStepKept ==
    ASSUME VersionsOK, UploadsOK, part = "documents", [OfficeNext]_officeVars
    PROVE  VersionsOK' /\ UploadsOK'
  <1>1. UNCHANGED schedule
    BY PartStays
  <1>2. ASSUME NEW w \in Workers, DocumentsRequest(w), Alone => Quiet
        PROVE  VersionsOK' /\ UploadsOK'
    <2>1. ASSUME NEW d \in Docs, NEW expiry \in {"kept", "future"}, CreateDocument(d, expiry)
          PROVE  VersionsOK' /\ UploadsOK'
      BY <1>1, <2>1, CreateKept, RewriteKept DEF CreateDocument
    <2>2. ASSUME NEW d \in Docs, NEW status \in {"APPROVED", "REJECTED"}, Validate(d, status)
          PROVE  VersionsOK' /\ UploadsOK'
      BY <1>1, <2>2, ValidateKept, RewriteKept DEF Validate
    <2>3. ASSUME NEW d \in Docs \cup {NULL}, NEW expiry \in {"kept", "future"},
                 d # NULL => d \in Filed, StartUpload(w, d, expiry)
          PROVE  VersionsOK' /\ UploadsOK'
      BY <1>1, <1>2, <2>3, StartUploadKept
    <2> QED
      BY <1>2, <2>1, <2>2, <2>3 DEF DocumentsRequest
  <1>3. ASSUME NEW d \in Docs, ExpiryPasses(d)
        PROVE  VersionsOK' /\ UploadsOK'
    BY <1>1, <1>3, ElapseKept, RewriteKept DEF ExpiryPasses
  <1>4. ASSUME NEW w \in Workers, DocumentsStep(w)
        PROVE  VersionsOK' /\ UploadsOK'
    BY <1>1, <1>4, UploadCreateKept, UploadCountKept, UploadWriteKept DEF DocumentsStep
  <1>5. CASE ExpireDocuments
    BY <1>1, <1>5, ExpireKept, RewriteKept DEF ExpireDocuments
  <1>6. CASE UNCHANGED <<documentVars, pc, ctx>>
    <2>1. VersionsOK'
      BY <1>1, <1>6 DEF documentVars, VersionsOK, RowsTyped, OnlyFiled, CurrentFileIsLatest,
         VersionsAreCounted, VersionsAreNumbered, Filed, Alone
    <2>2. UploadsOK'
      BY <1>1, <1>6 DEF documentVars, UploadsOK, StandAt, UploadOK, OwnsFile, InTurn, Filed, Alone
    <2> QED
      BY <2>1, <2>2
  <1> QED
    BY <1>2, <1>3, <1>4, <1>5, <1>6, DocumentsMove, DeathKept

LEMMA VersionsStep == VersionsInv /\ [OfficeNext]_officeVars => VersionsInv'
  <1> SUFFICES ASSUME VersionsInv, [OfficeNext]_officeVars PROVE VersionsInv'
    OBVIOUS
  <1>1. CASE part = "documents"
    BY <1>1, DocumentsStepKept DEF VersionsInv
  <1>2. CASE part # "documents"
    <2>1. UNCHANGED <<doc, versions, files, part, schedule>>
      BY <1>2, OthersKeepDocuments, PartStays DEF documentVars
    <2> QED
      BY <1>2, <2>1 DEF VersionsInv, VersionsOK, RowsTyped, OnlyFiled, CurrentFileIsLatest,
         VersionsAreCounted, VersionsAreNumbered, Filed, Alone
  <1> QED
    BY <1>1, <1>2

\* However uploads overlap, and wherever they stop, a document serves the file of
\* the version inserted last, no two versions share a file, and no number runs
\* ahead of the versions there are; one upload at a time leaves no gap.
THEOREM DocumentsServeLatest == OfficeSpec => []FilesFollowVersions
  <1>1. OfficeInit => VersionsInv
    <2> SUFFICES ASSUME OfficeInit PROVE VersionsInv
      OBVIOUS
    <2>1. doc = [d \in Docs |-> NULL] /\ versions = [d \in Docs |-> <<>>] /\ files = 0
      BY DEF OfficeInit, DocumentsInit
    <2>2. VersionsOK
      BY <2>1, DocumentsAssumption DEF VersionsOK, RowsTyped, OnlyFiled, CurrentFileIsLatest,
         VersionsAreCounted, VersionsAreNumbered, Filed
    <2>3. UploadsOK
      BY DEF OfficeInit, HandlersInit, UploadsOK, StandAt, UploadOK, OwnsFile, InTurn,
         DocumentLabels
    <2> QED
      BY <2>2, <2>3 DEF VersionsInv
  <1>2. VersionsInv => FilesFollowVersions
    BY DEF VersionsInv, VersionsOK, FilesFollowVersions
  <1> QED
    BY <1>1, <1>2, VersionsStep, PTL DEF OfficeSpec
=============================================================================
