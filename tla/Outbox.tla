------------------------------- MODULE Outbox -------------------------------
(***************************************************************************)
(* What the shop may rely on about its e-mails: a letter is taken from the *)
(* queue by itself, leaves the shop once, and is settled when it has left; *)
(* what could not leave waits again, and is not tried for ever.  The       *)
(* abstract specification of the e-mail queue and its job; a run that ends *)
(* early or meets another one is not in here.                              *)
(***************************************************************************)
EXTENDS Naturals

CONSTANTS Letters, MaxTries

VARIABLES
    waiting, held, settled,  \* the letters that are queued, by what becomes of them
    left,                    \* the letters that have left
    tries                    \* tries[l]: how often l could not leave

outboxVars == <<waiting, held, settled, left, tries>>

Init ==
    /\ waiting = {} /\ held = {} /\ settled = {} /\ left = {}
    /\ tries = [l \in Letters |-> 0]

Queue(l) ==
    /\ l \notin waiting \cup held \cup settled \cup left
    /\ waiting' = waiting \cup {l}
    /\ UNCHANGED <<held, settled, left, tries>>

Take(l) ==
    /\ l \in waiting \ left /\ held = {}
    /\ tries[l] < MaxTries
    /\ waiting' = waiting \ {l}
    /\ held' = {l}
    /\ UNCHANGED <<settled, left, tries>>

Leave(l) ==
    /\ l \in held \ left
    /\ left' = left \cup {l}
    /\ UNCHANGED <<waiting, held, settled, tries>>

Settle(l) ==
    /\ l \in held \cap left
    /\ held' = held \ {l}
    /\ settled' = settled \cup {l}
    /\ UNCHANGED <<waiting, left, tries>>

PutBack(l) ==
    /\ l \in held \ left
    /\ held' = held \ {l}
    /\ waiting' = waiting \cup {l}
    /\ tries' = [tries EXCEPT ![l] = @ + 1]
    /\ UNCHANGED <<settled, left>>

Next == \E l \in Letters : Queue(l) \/ Take(l) \/ Leave(l) \/ Settle(l) \/ PutBack(l)

Spec == Init /\ [][Next]_outboxVars
=============================================================================
