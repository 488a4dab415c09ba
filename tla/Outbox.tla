------------------------------- MODULE Outbox -------------------------------
(***************************************************************************)
(* What the two outgoing pipelines of the platform promise, whatever their *)
(* ticks, retries, races and crashes do: nothing leaves before somebody    *)
(* released it, and nothing is reported as sent that has not left. Copies  *)
(* are counted as none, one, or more than one; the promise does not limit  *)
(* them, because neither pipeline does.                                    *)
(***************************************************************************)
EXTENDS Naturals

CONSTANT Messages

VARIABLES
    released,   \* messages somebody scheduled, approved or asked to send
    copies,     \* copies of each message in the outside world: 0, 1, 2+
    reported    \* messages whose record says they were sent

vars == <<released, copies, reported>>

Init ==
    /\ released = {}
    /\ copies = [m \in Messages |-> 0]
    /\ reported = {}

\* Releasing a message again may also withdraw the report of its last copy.
Release(m) ==
    /\ released' = released \cup {m}
    /\ reported' \in {reported, reported \ {m}}
    /\ UNCHANGED copies

Transmit(m) ==
    /\ m \in released
    /\ copies' = [copies EXCEPT ![m] = IF @ = 0 THEN 1 ELSE 2]
    /\ UNCHANGED <<released, reported>>

Report(m) ==
    /\ copies[m] > 0
    /\ reported' = reported \cup {m}
    /\ UNCHANGED <<released, copies>>

\* The record is overwritten: cancelled, failed or started again.
Retract(m) ==
    /\ reported' = reported \ {m}
    /\ UNCHANGED <<released, copies>>

Next == \E m \in Messages : Release(m) \/ Transmit(m) \/ Report(m) \/ Retract(m)

Spec == Init /\ [][Next]_vars

=============================================================================
