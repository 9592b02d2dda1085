--------------------------- MODULE ReminderPromise ---------------------------
(* What app/scheduler.py promises about "your exam starts soon": each      *)
(* student is mailed about a test once, however many sweeps run at the     *)
(* same time.  The promise lapses when the database fails a sweep after    *)
(* the mail has gone out, because the sweep then takes its claim back.     *)
EXTENDS Naturals

CONSTANT Student

VARIABLES mail, lateFaults

Init == mail = [s \in Student |-> 0] /\ lateFaults = 0

Deliver(s) ==
    /\ mail[s] = 0 \/ lateFaults > 0
    /\ mail' = [mail EXCEPT ![s] = @ + 1]
    /\ UNCHANGED lateFaults

LateFault == lateFaults' = lateFaults + 1 /\ UNCHANGED mail

Next == LateFault \/ \E s \in Student : Deliver(s)

Spec == Init /\ [][Next]_<<mail, lateFaults>>

==============================================================================
