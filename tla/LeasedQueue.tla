----------------------------- MODULE LeasedQueue -----------------------------
(***************************************************************************)
(* What a table of leased jobs promises its consumers.  A posted task is   *)
(* taken by one consumer at a time.  A task may be taken from a consumer   *)
(* that is slow, and from then on nothing that consumer does counts: only  *)
(* the present holder finishes a task, once, and with it the one effect    *)
(* the task ever has.  Finished and dead tasks stay as they are.           *)
(***************************************************************************)
EXTENDS Naturals

CONSTANTS Tasks, Consumers, Nobody, NoTask

VARIABLES
    status,     \* task -> "new", "open", "taken", "done" or "dead"
    holder,     \* task -> the consumer whose result would count
    working,    \* consumer -> the task it works on, whoever holds it
    effects     \* task -> effects stored

vars == <<status, holder, working, effects>>

Init ==
    /\ status = [t \in Tasks |-> "new"]
    /\ holder = [t \in Tasks |-> Nobody]
    /\ working = [c \in Consumers |-> NoTask]
    /\ effects = [t \in Tasks |-> 0]

\* Task t is as it was, or has been posted in this step.
Stays(t) ==
    /\ status'[t] = status[t] \/ (status[t] = "new" /\ status'[t] = "open")
    /\ holder'[t] = holder[t] /\ effects'[t] = effects[t]

\* Task t is taken from a slow or vanished consumer.
TakenBack(t) ==
    /\ status[t] = "taken" /\ status'[t] \in {"open", "dead"}
    /\ holder'[t] = Nobody /\ effects'[t] = effects[t]

Manage ==
    /\ \A t \in Tasks : Stays(t) \/ TakenBack(t)
    /\ UNCHANGED working

Take(c, t) ==
    /\ working[c] = NoTask
    /\ working' = [working EXCEPT ![c] = t]
    /\ status[t] \in {"open", "taken"} /\ status'[t] = "taken"
    /\ holder'[t] = c /\ effects'[t] = effects[t]
    /\ \A u \in Tasks \ {t} : Stays(u) \/ TakenBack(u)

\* The holder ends its task; done means that the effect is stored with it.
End(c) ==
    LET t == working[c]
    IN  /\ t # NoTask /\ holder[t] = c
        /\ working' = [working EXCEPT ![c] = NoTask]
        /\ status'[t] \in {"open", "done", "dead"}
        /\ effects'[t] = effects[t] + (IF status'[t] = "done" THEN 1 ELSE 0)
        /\ holder'[t] = Nobody
        /\ \A u \in Tasks \ {t} : Stays(u)

\* Consumers stop working without a word; what they held stays taken.
Leave(C) ==
    /\ working' = [c \in Consumers |-> IF c \in C THEN NoTask ELSE working[c]]
    /\ holder' = [t \in Tasks |-> IF holder[t] \in C THEN Nobody ELSE holder[t]]
    /\ UNCHANGED <<status, effects>>

Next ==
    \/ Manage
    \/ \E c \in Consumers, t \in Tasks : Take(c, t)
    \/ \E c \in Consumers : End(c)
    \/ \E C \in SUBSET Consumers : Leave(C)

Spec == Init /\ [][Next]_vars

\* Exactly the finished tasks have had their effect, and once.
OneEffect == \A t \in Tasks : effects[t] = IF status[t] = "done" THEN 1 ELSE 0
=============================================================================
