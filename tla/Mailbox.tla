------------------------------ MODULE Mailbox -------------------------------
(***************************************************************************)
(* NotificationsService and the e-mail queue.  A notification is inserted, *)
(* then its e-mail is queued; a job that runs every minute takes what is   *)
(* pending and sends it.  The runs of the job may overlap, and a crash     *)
(* leaves the e-mail it was at in PROCESSING, where no later run looks.    *)
(*                                                                         *)
(* An e-mail and its notification are known by what they are about.        *)
(***************************************************************************)
EXTENDS Handlers, FiniteSetsExt

CONSTANTS
    Subjects,      \* what notifications are about
    MailAttempts,  \* an e-mail is given up after these attempts (5 in the code)
    Batch          \* e-mails a run takes (20 in the code)

ASSUME MailboxAssumption == MailAttempts \in Nat \ {0} /\ Batch \in Nat \ {0}

VARIABLES
    notice,  \* notice[s]: the state of the notification, NULL before it is inserted
    mail     \* mail[s]: the EmailQueue row, NULL before it is queued

mailboxVars == <<notice, mail>>

\* delivered counts the times the transport has taken the e-mail: not at all, once, or more.
MailRows == [status : {"PENDING", "PROCESSING", "SENT"}, attempts : Nat, delivered : 0 .. 2]

\* No row is the value that stands for the absence of one.
ASSUME MailboxNull == NULL \notin MailRows \cup {"UNREAD", "READ"}

MailboxTypeOK ==
    /\ notice \in [Subjects -> {NULL, "UNREAD", "READ"}]
    /\ \A s \in Subjects : mail[s] # NULL => mail[s] \in MailRows

MailboxInit ==
    /\ notice = [s \in Subjects |-> NULL]
    /\ mail = [s \in Subjects |-> NULL]

Queued(s) == mail[s] # NULL

\* NotificationsService.create: other handlers go on to it with a subject, to be notified of
\* and mailed.
NotifyCreate(w) ==
    /\ At(w, "notify.create")
    /\ notice' = [notice EXCEPT ![ctx[w].subject] = "UNREAD"]
    /\ Goto(w, "notify.queue")
    /\ UNCHANGED mail

QueueEmail(w) ==
    /\ At(w, "notify.queue")
    /\ mail' = [mail EXCEPT ![ctx[w].subject] =
                  [status |-> "PENDING", attempts |-> 0, delivered |-> 0]]
    /\ Return(w)
    /\ UNCHANGED notice

\* A welcome or a password to reset is mailed without a notification.
RequestEmail(w, s) ==
    /\ ~Queued(s)
    /\ \A u \in Workers : At(u, "notify.queue") => ctx[u].subject # s
    /\ Begin(w, "notify.queue", [subject |-> s])
    /\ UNCHANGED mailboxVars

\* markRead and markAllRead write one statement each.
MarkRead(subjects) ==
    /\ \E s \in subjects : notice[s] = "UNREAD"
    /\ notice' = [s \in Subjects |->
                    IF s \in subjects /\ notice[s] # NULL THEN "READ" ELSE notice[s]]
    /\ UNCHANGED <<mail, handlerVars>>

-----------------------------------------------------------------------------
(* processEmailQueue                                                       *)

Pending == {s \in Subjects : Queued(s) /\ mail[s].status = "PENDING"
                                       /\ mail[s].attempts < MailAttempts}

StartDrain(w) ==
    /\ Pending # {}
    /\ \E batch \in kSubset(IF Cardinality(Pending) < Batch
                            THEN Cardinality(Pending) ELSE Batch, Pending) :
          Begin(w, "drain.next", [batch |-> batch])
    /\ UNCHANGED mailboxVars

\* The status the row has by now is not looked at.
DrainNext(w) ==
    /\ At(w, "drain.next")
    /\ \E s \in ctx[w].batch :
          /\ mail' = [mail EXCEPT ![s].status = "PROCESSING"]
          /\ GotoWith(w, "drain.send", [batch |-> ctx[w].batch \ {s}, subject |-> s])
    /\ UNCHANGED notice

DrainDone(w) ==
    /\ At(w, "drain.next")
    /\ ctx[w].batch = {}
    /\ Return(w)
    /\ UNCHANGED mailboxVars

\* MailService.send: the transport takes the e-mail, or throws.
Deliver(w) ==
    /\ At(w, "drain.send")
    /\ mail' = [mail EXCEPT ![ctx[w].subject].delivered = Min({2, @ + 1})]
    /\ Goto(w, "drain.sent")
    /\ UNCHANGED notice

Bounce(w) ==
    /\ At(w, "drain.send")
    /\ Goto(w, "drain.back")
    /\ UNCHANGED mailboxVars

\* Mutant: an e-mail that was sent stays pending.
MarkSentLate(w) ==
    /\ At(w, "drain.sent")
    /\ mail' = [mail EXCEPT ![ctx[w].subject].status =
                  IF mail[ctx[w].subject].delivered > 1 THEN "SENT" ELSE "PENDING"]
    /\ Goto(w, "drain.next")
    /\ UNCHANGED notice

MarkSent(w) ==
    /\ At(w, "drain.sent")
    /\ mail' = [mail EXCEPT ![ctx[w].subject].status = "SENT"]
    /\ Goto(w, "drain.next")
    /\ UNCHANGED notice

\* The update that marks the row SENT is inside the try: when it fails, the e-mail goes back.
MarkSentFails(w) ==
    /\ At(w, "drain.sent")
    /\ failures < MaxFailures
    /\ failures' = failures + 1
    /\ pc' = [pc EXCEPT ![w] = "drain.back"]
    /\ UNCHANGED <<ctx, mailboxVars>>

\* Mutant: the attempt is not counted.
PutBackUncounted(w) ==
    /\ At(w, "drain.back")
    /\ mail' = [mail EXCEPT ![ctx[w].subject].status = "PENDING"]
    /\ Goto(w, "drain.next")
    /\ UNCHANGED notice

PutBack(w) ==
    /\ At(w, "drain.back")
    /\ mail' = [mail EXCEPT ![ctx[w].subject].status = "PENDING",
                            ![ctx[w].subject].attempts = @ + 1]
    /\ Goto(w, "drain.next")
    /\ UNCHANGED notice

MailboxStep(w) ==
    \/ NotifyCreate(w) \/ QueueEmail(w)
    \/ DrainNext(w) \/ DrainDone(w) \/ Deliver(w) \/ Bounce(w) \/ MarkSent(w) \/ PutBack(w)

-----------------------------------------------------------------------------
\* No e-mail is tried for ever: overlapping runs of the job look at the attempts before
\* they send (jobs.service.ts:31), so each may add one attempt to the last.
RetriesAreBounded ==
    \A s \in Subjects : Queued(s) => mail[s].attempts < MailAttempts + Cardinality(Workers)

\* An e-mail marked SENT has left, and one that has left is either marked, tried again or in
\* the hands of a run (jobs.service.ts:41-58): no interleaving of two runs loses an e-mail
\* that is reported as sent.
SentHasLeft ==
    \A s \in Subjects : Queued(s) /\ mail[s].status = "SENT" => mail[s].delivered > 0

\* One run at a time, and without failures, nobody receives an e-mail twice.
DeliversOnce == \A s \in Subjects : Queued(s) => mail[s].delivered <= 1

-----------------------------------------------------------------------------
(* The queue as Outbox knows it                                            *)

Waiting == {s \in Subjects : Queued(s) /\ mail[s].status = "PENDING"}
InHand  == {s \in Subjects : Queued(s) /\ mail[s].status = "PROCESSING"}
Reported == {s \in Subjects : Queued(s) /\ mail[s].status = "SENT"}

HasLeft == {s \in Subjects : Queued(s) /\ mail[s].delivered > 0}

Tried == [s \in Subjects |-> IF Queued(s) THEN mail[s].attempts ELSE 0]

Sends ==
    INSTANCE Outbox WITH
        Letters <- Subjects, MaxTries <- MailAttempts,
        waiting <- Waiting, held <- InHand, settled <- Reported,
        left <- HasLeft, tries <- Tried
=============================================================================
