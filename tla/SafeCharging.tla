---------------------------- MODULE SafeCharging ----------------------------
(***************************************************************************)
(* What a charging station promises about its contacts, whatever goes on    *)
(* inside: the abstract specification that EvseController implements.       *)
(*                                                                          *)
(* A charging period begins with open contacts and without a ground fault   *)
(* that nobody answered; only within it may the contacts close; a trip      *)
(* opens them at once; and a fault the client can see has open contacts.    *)
(***************************************************************************)

VARIABLES
    service,    \* what the station does for the vehicle
    closed,     \* the contacts
    owed,       \* a trip opened the closed contacts and is still unanswered
    listening   \* the client can see the station and command it

abstract == <<service, closed, owed, listening>>

Services == {"ready", "charging", "fault", "resting"}

Init == service = "ready" /\ ~closed /\ ~owed /\ ~listening

\* A charging period begins: not straight out of a fault or of a rest.
Begin ==
    /\ service = "ready" /\ ~closed /\ ~owed
    /\ service' = "charging" /\ UNCHANGED <<closed, owed>>

Close ==
    /\ service = "charging" /\ ~closed /\ ~owed
    /\ closed' = TRUE /\ UNCHANGED <<service, owed>>

\* The ground-fault interrupt.
Trip ==
    /\ closed' = FALSE /\ owed' = (owed \/ closed)
    /\ UNCHANGED service

\* The charging period goes on or ends; the contacts may open, never close.
Retire ==
    /\ service' \in (Services \ {"charging"}) \union {service}
    /\ closed' \in {closed, FALSE}
    /\ UNCHANGED owed

\* The trip is answered: unplugged, waited out or reset, over open contacts.
Answer ==
    /\ owed /\ ~closed
    /\ service' \in Services \ {"charging"}
    /\ owed' = FALSE /\ UNCHANGED closed

Next ==
    /\ Begin \/ Close \/ Trip \/ Retire \/ Answer
    /\ listening' \in BOOLEAN
    /\ service' = "fault" /\ listening' => ~closed'

Spec == Init /\ [][Next]_abstract

\* The promises as a state: no unanswered trip behind closed contacts, no visible
\* fault over them.
Promise ==
    /\ owed => ~closed
    /\ service = "fault" /\ listening => ~closed
=============================================================================
