------------------------------ MODULE Erasure -------------------------------
(***************************************************************************)
(* The personal data of a customer and the daily job that erases them on   *)
(* demand.  The customer's own requests are admitted on the account as it  *)
(* is when they arrive, the staff chooses from a list without anonymized   *)
(* customers; both write later, whatever the row is by then.               *)
(***************************************************************************)
EXTENDS Handlers

CONSTANTS
    Clients,   \* ids for Customer rows
    Requests   \* ids for PrivacyRequest rows of type DELETE; bound: their number

VARIABLES
    customer,   \* customer[c]: the row, with its addresses and its user account
    deletion    \* deletion[r]: the PrivacyRequest row, NULL before it is created

erasureVars == <<customer, deletion>>

\* personal: name, document, e-mail, phones and birth date are somebody's.
CustomerRows ==
    [personal : BOOLEAN, addresses : BOOLEAN, anonymized : BOOLEAN,
     account : {"ACTIVE", "INACTIVE"}]

DeletionRows == [customer : Clients, status : {"PENDING", "COMPLETED"}]

ErasureTypeOK ==
    /\ customer \in [Clients -> CustomerRows]
    /\ \A r \in Requests : deletion[r] # NULL => deletion[r] \in DeletionRows

ErasureInit ==
    /\ customer = [c \in Clients |->
          [personal |-> TRUE, addresses |-> FALSE, anonymized |-> FALSE, account |-> "ACTIVE"]]
    /\ deletion = [r \in Requests |-> NULL]

Admits(c) == customer[c].account = "ACTIVE"

\* Mutant: the list shows everybody.
ListedAlways(c) == TRUE

Listed(c) == ~customer[c].anonymized

PendingDeletions ==
    {r \in Requests : deletion[r] # NULL /\ deletion[r].status = "PENDING"}

\* updateMe by the customer, update by the staff: both write the row.
RequestEdit(w, c) ==
    /\ Admits(c) \/ Listed(c)
    /\ Begin(w, "customer.write", [customer |-> c])
    /\ UNCHANGED erasureVars

WriteCustomer(w) ==
    /\ At(w, "customer.write")
    /\ customer' = [customer EXCEPT ![ctx[w].customer].personal = TRUE]
    /\ Return(w)
    /\ UNCHANGED deletion

\* addAddress
RequestAddress(w, c) ==
    /\ Admits(c) \/ Listed(c)
    /\ Begin(w, "address.create", [customer |-> c])
    /\ UNCHANGED erasureVars

CreateAddress(w) ==
    /\ At(w, "address.create")
    /\ customer' = [customer EXCEPT ![ctx[w].customer].addresses = TRUE]
    /\ Return(w)
    /\ UNCHANGED deletion

\* requestDeletion does not look for a request that is pending.
RequestDeletion(r, c) ==
    /\ Admits(c)
    /\ deletion[r] = NULL
    /\ deletion' = [deletion EXCEPT ![r] = [customer |-> c, status |-> "PENDING"]]
    /\ UNCHANGED <<customer, handlerVars>>

\* The administration may give the account back.
Reactivate(c) ==
    /\ customer[c].account = "INACTIVE"
    /\ customer' = [customer EXCEPT ![c].account = "ACTIVE"]
    /\ UNCHANGED <<deletion, handlerVars>>

-----------------------------------------------------------------------------
(* processPrivacyDeletions                                                 *)

StartDeletions(w) ==
    /\ PendingDeletions # {}
    /\ Begin(w, "deletions.next", [todo |-> PendingDeletions])
    /\ UNCHANGED erasureVars

\* Mutant: a customer who is anonymized already is skipped.
AnonymizeOnce(w) ==
    /\ At(w, "deletions.next")
    /\ \E r \in ctx[w].todo :
       LET c == deletion[r].customer IN
       /\ IF customer[c].anonymized THEN UNCHANGED erasureVars
          ELSE /\ customer' = [customer EXCEPT ![c] =
                    [personal |-> FALSE, addresses |-> FALSE, anonymized |-> TRUE,
                     account |-> "INACTIVE"]]
               /\ deletion' = [deletion EXCEPT ![r].status = "COMPLETED"]
       /\ GotoWith(w, "deletions.next", [todo |-> ctx[w].todo \ {r}])

\* One transaction for each request, whatever has become of it since it was read.
Anonymize(w) ==
    /\ At(w, "deletions.next")
    /\ \E r \in ctx[w].todo :
       /\ customer' = [customer EXCEPT ![deletion[r].customer] =
             [personal |-> FALSE, addresses |-> FALSE, anonymized |-> TRUE,
              account |-> "INACTIVE"]]
       /\ deletion' = [deletion EXCEPT ![r].status = "COMPLETED"]
       /\ GotoWith(w, "deletions.next", [todo |-> ctx[w].todo \ {r}])

DeletionsDone(w) ==
    /\ At(w, "deletions.next")
    /\ ctx[w].todo = {}
    /\ Return(w)
    /\ UNCHANGED erasureVars

ErasureStep(w) ==
    WriteCustomer(w) \/ CreateAddress(w) \/ Anonymize(w) \/ DeletionsDone(w)

ErasureRequest(w) ==
    \E c \in Clients :
       \/ RequestEdit(w, c) \/ RequestAddress(w, c) \/ Reactivate(c)
       \/ \E r \in Requests : RequestDeletion(r, c)

-----------------------------------------------------------------------------
\* Whatever a customer has asked to be deleted is anonymized in the end: a run of the job that
\* dies half-way, a second request or a reactivated account leave none behind
\* (jobs.service.ts:219).
DeletionsComplete ==
    \A r \in Requests :
       r \in PendingDeletions ~> deletion[r] # NULL /\ deletion[r].status = "COMPLETED"

\* One request at a time: data that are erased come back only by the hand of somebody with an
\* account that was given back (jobs.service.ts:226, customers.service.ts:66).  Requests that
\* were admitted before the job ran and write after it do not keep this.
ErasedStaysErased ==
    \A c \in Clients :
       /\ customer[c].anonymized
       /\ customer'[c].personal \/ customer'[c].addresses
       => customer[c].personal \/ customer[c].addresses \/ customer[c].account = "ACTIVE"
=============================================================================
