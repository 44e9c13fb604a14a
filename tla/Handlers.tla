------------------------------ MODULE Handlers ------------------------------
(***************************************************************************)
(* Requests and jobs in progress in the server.                            *)
(*                                                                         *)
(* A handler is a worker.  Between two of its awaits every other worker    *)
(* may run; a Prisma call (or a $transaction) is one atomic step.  pc[w]   *)
(* names the call w makes next and ctx[w] holds the locals it still uses.  *)
(* The modules of the back office extend this one; those of the vehicles   *)
(* (Stock and above) carry a pending changeStatus call besides.            *)
(***************************************************************************)
EXTENDS Integers, FiniteSets

CONSTANTS
    Workers,      \* handlers that can be in progress at the same time
    MaxFailures,  \* bound: handlers that die half-way
    NULL          \* no row, no locals

ASSUME HandlersAssumption == MaxFailures \in Nat /\ IsFiniteSet(Workers)

VARIABLES pc, ctx, failures

handlerVars == <<pc, ctx, failures>>

HandlersInit ==
    /\ pc       = [w \in Workers |-> "idle"]
    /\ ctx      = [w \in Workers |-> NULL]
    /\ failures = 0

Quiet == \A w \in Workers : pc[w] = "idle"

At(w, label) == pc[w] = label

\* A request arrives, and its handler goes on at label with these locals.
Begin(w, label, locals) ==
    /\ pc[w] = "idle"
    /\ pc'  = [pc EXCEPT ![w] = label]
    /\ ctx' = [ctx EXCEPT ![w] = locals]
    /\ UNCHANGED failures

Goto(w, label) ==
    /\ pc' = [pc EXCEPT ![w] = label]
    /\ UNCHANGED <<ctx, failures>>

GotoWith(w, label, locals) ==
    /\ pc'  = [pc EXCEPT ![w] = label]
    /\ ctx' = [ctx EXCEPT ![w] = locals]
    /\ UNCHANGED failures

\* The handler returns or throws.
Return(w) ==
    /\ pc'  = [pc EXCEPT ![w] = "idle"]
    /\ ctx' = [ctx EXCEPT ![w] = NULL]
    /\ UNCHANGED failures

\* The handler stops at an await: the database call rejects, or the process dies.
Die(w) ==
    /\ pc[w] # "idle"
    /\ failures < MaxFailures
    /\ failures' = failures + 1
    /\ pc'  = [pc EXCEPT ![w] = "idle"]
    /\ ctx' = [ctx EXCEPT ![w] = NULL]
=============================================================================
