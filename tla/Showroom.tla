------------------------------ MODULE Showroom ------------------------------
(***************************************************************************)
(* What VehiclesService keeps to show a vehicle: its slug, its media and   *)
(* its technical sheet.  The sheet is filled from a provider, with fields  *)
(* the user overrides, and tells for each field where it comes from.       *)
(***************************************************************************)
EXTENDS Handlers, FiniteSetsExt

CONSTANTS
    Cars,      \* vehicles of the same brand, model and year; bound: their number
    Media,     \* ids for VehicleMedia rows of one vehicle; bound: their number
    Fields,    \* fields of the technical sheet
    MaxEdits   \* bound: edits of the technical sheet

ASSUME ShowroomAssumption == MaxEdits \in Nat

VARIABLES
    slug,    \* slug[c]: the number at the end of the slug (0: none), NULL before the row
    media,   \* media[m]: the row, NULL before it is added and after it is removed
    sheet,   \* the VehicleSpec row: the author of each field, and what fieldSources says
    edits    \* edits of the sheet so far

showroomVars == <<slug, media, sheet, edits>>

Authors == {"provider", "user"}

\* The absence of an author is not an author.
ASSUME AuthorsAssumption == NULL \notin Authors

MediaRows == [isMain : BOOLEAN, position : 0 .. 1]

\* source is that of the row; before there is a row no field has an author.
Sheets ==
    [author : [Fields -> Authors \cup {NULL}], label : [Fields -> Authors \cup {NULL}],
     source : Authors \cup {NULL}]

ShowroomTypeOK ==
    /\ slug \in [Cars -> 0 .. Cardinality(Cars) \cup {NULL}]
    /\ \A m \in Media : media[m] # NULL => media[m] \in MediaRows
    /\ sheet \in Sheets
    /\ edits \in 0 .. MaxEdits

ShowroomInit ==
    /\ slug = [c \in Cars |-> NULL]
    /\ media = [m \in Media |-> NULL]
    /\ sheet = [author |-> [f \in Fields |-> NULL], label |-> [f \in Fields |-> NULL],
                source |-> NULL]
    /\ edits = 0

-----------------------------------------------------------------------------
(* create: uniqueSlug looks for a slug nobody has, one number after another *)

RequestVehicle(w, c) ==
    /\ slug[c] = NULL
    /\ Begin(w, "slug.probe", [car |-> c, n |-> 0])
    /\ UNCHANGED showroomVars

Taken(n) == \E c \in Cars : slug[c] # NULL /\ slug[c] = n

ProbeSlug(w) ==
    /\ At(w, "slug.probe")
    /\ IF Taken(ctx[w].n) THEN GotoWith(w, "slug.probe", [ctx[w] EXCEPT !.n = @ + 1])
       ELSE Goto(w, "slug.insert")
    /\ UNCHANGED showroomVars

\* The key of the table is unique: the later of two creations with the same slug fails.
InsertVehicle(w) ==
    /\ At(w, "slug.insert")
    /\ slug[ctx[w].car] = NULL
    /\ ~Taken(ctx[w].n)
    /\ slug' = [slug EXCEPT ![ctx[w].car] = ctx[w].n]
    /\ Return(w)
    /\ UNCHANGED <<media, sheet, edits>>

InsertFails(w) ==
    /\ At(w, "slug.insert")
    /\ slug[ctx[w].car] # NULL \/ Taken(ctx[w].n)
    /\ Return(w)
    /\ UNCHANGED showroomVars

-----------------------------------------------------------------------------
(* Media                                                                   *)

Shown == {m \in Media : media[m] # NULL}

\* addMedia: a new main medium first takes the place of the old one.
RequestMedia(w, isMain) ==
    /\ Shown # Media
    /\ Begin(w, IF isMain THEN "media.demote" ELSE "media.create", [isMain |-> isMain])
    /\ UNCHANGED showroomVars

DemoteMedia(w) ==
    /\ At(w, "media.demote")
    /\ media' = [m \in Media |-> IF m \in Shown THEN [media[m] EXCEPT !.isMain = FALSE]
                                 ELSE media[m]]
    /\ Goto(w, "media.create")
    /\ UNCHANGED <<slug, sheet, edits>>

CreateMedia(w) ==
    \E m \in Media \ Shown :
       /\ At(w, "media.create")
       /\ media' = [media EXCEPT ![m] = [isMain |-> ctx[w].isMain, position |-> 0]]
       /\ Return(w)
       /\ UNCHANGED <<slug, sheet, edits>>

RemoveMedia(m) ==
    /\ m \in Shown
    /\ media' = [media EXCEPT ![m] = NULL]
    /\ UNCHANGED <<slug, sheet, edits, handlerVars>>

\* One transaction; who is main does not change with the order.
ReorderMedia(order) ==
    /\ media' = [m \in Media |-> IF m \in DOMAIN order
                    THEN [media[m] EXCEPT !.position = order[m]] ELSE media[m]]
    /\ UNCHANGED <<slug, sheet, edits, handlerVars>>

-----------------------------------------------------------------------------
(* The technical sheet                                                     *)

\* Mutant: what the provider knows wins over what the user has typed.
ApplySpecsOver(known, overrides) ==
    LET of(f) == IF f \in known THEN "provider" ELSE IF f \in overrides THEN "user" ELSE NULL
    IN
    /\ edits < MaxEdits
    /\ edits' = edits + 1
    /\ sheet' = [author |-> [f \in Fields |-> IF of(f) = NULL THEN sheet.author[f] ELSE of(f)],
                 label |-> [f \in Fields |-> IF f \in overrides THEN "user" ELSE of(f)],
                 source |-> IF known = {} THEN "user" ELSE "provider"]
    /\ UNCHANGED <<slug, media, handlerVars>>

\* applySpecs: the fields the provider knows (none, when it fails or does not find the model),
\* and over them those of manualOverrides; the labels are written anew, a field that neither
\* names keeps its value.
ApplySpecs(known, overrides) ==
    LET of(f) == IF f \in overrides THEN "user" ELSE IF f \in known THEN "provider" ELSE NULL
    IN
    /\ edits < MaxEdits
    /\ edits' = edits + 1
    /\ sheet' = [author |-> [f \in Fields |-> IF of(f) = NULL THEN sheet.author[f] ELSE of(f)],
                 label |-> [f \in Fields |-> of(f)],
                 source |-> IF known = {} THEN "user" ELSE "provider"]
    /\ UNCHANGED <<slug, media, handlerVars>>

\* upsertSpec labels the fields of a row it creates, and not those of a row there is.
UpsertSpec(typed) ==
    /\ edits < MaxEdits
    /\ edits' = edits + 1
    /\ sheet' = [author |-> [f \in Fields |-> IF f \in typed THEN "user" ELSE sheet.author[f]],
                 label |-> IF sheet.source # NULL THEN sheet.label
                           ELSE [f \in Fields |-> IF f \in typed THEN "user" ELSE NULL],
                 source |-> "user"]
    /\ UNCHANGED <<slug, media, handlerVars>>

CreationStep(w) == ProbeSlug(w) \/ InsertVehicle(w) \/ InsertFails(w)

MediaStep(w) == DemoteMedia(w) \/ CreateMedia(w)

CreationRequest(w) == \E c \in Cars : RequestVehicle(w, c)

MediaRequest(w) ==
    \/ \E isMain \in BOOLEAN : RequestMedia(w, isMain)
    \/ \E m \in Media : RemoveMedia(m)
    \/ \E some \in SUBSET Shown \ {{}} : \E order \in [some -> 0 .. 1] : ReorderMedia(order)

SheetRequest ==
    \/ \E known, given \in SUBSET Fields : ApplySpecs(known, given)
    \/ \E typed \in SUBSET Fields \ {{}} : UpsertSpec(typed)

-----------------------------------------------------------------------------
\* However creations overlap, a slug leads to one vehicle (vehicles.service.ts:33).
SlugsDiffer == \A c, d \in Cars : slug[c] # NULL /\ slug[c] = slug[d] => c = d

\* One request at a time, a vehicle has at most one main medium (vehicles.service.ts:335):
\* overlapping additions demote first and insert later, and leave two.
OneMainMedium == Cardinality({m \in Shown : media[m].isMain}) <= 1

\* A field that fieldSources gives to the user was typed by the user, through however many
\* fillings and edits (vehicles.service.ts:232-236).  The converse does not hold: an edit of a
\* sheet that exists leaves its labels as they are.
LabelsAreHonest ==
    \A f \in Fields : sheet.label[f] = "user" => sheet.author[f] = "user"
=============================================================================
