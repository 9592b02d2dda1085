------------------------------ MODULE Reminders ------------------------------
(***************************************************************************)
(* The sweep that mails "your exam starts soon" about one test             *)
(* (notifications.send_starting_soon_reminders).  The scheduler, the       *)
(* send-reminders command and the admin's button may all run it at once:   *)
(* nothing here relies on the job's lease.  A student is claimed by        *)
(* inserting a row with a UNIQUE key before the mail is sent.              *)
(***************************************************************************)
EXTENDS Naturals, FiniteSets

CONSTANTS
    Sweeper,        \* processes that may run the sweep
    Student,        \* the active students eligible for the test
    Nobody,         \* a sweeper that is not working on a student
    OptedOut,       \* students who turned this kind of e-mail off
    MaxFaults,      \* bound: exceptions, or failed commits, of each kind
    MaxCrashes      \* bound: sweepers killed

ASSUME StudentAssumption == Nobody \notin Student /\ OptedOut \subseteq Student
ASSUME BoundAssumption   == MaxFaults \in Nat /\ MaxCrashes \in Nat

VARIABLES
    started,        \* students who have an attempt at the test
    claims,         \* notification_claims
    log,            \* the last notification_log status about each student
    mail,           \* how many reminders reached each student's mail server
    at,             \* where each sweeper is
    todo,           \* the students its loop has yet to visit
    current,        \* the student it is working on
    outcome,        \* what send_email came to
    earlyFaults,    \* exceptions raised by notify before the mail was sent
    lateFaults,     \* exceptions raised by notify after the mail was sent
    faults,         \* commits that failed
    crashes         \* sweepers killed

work == <<at, todo, current, outcome>>
mishaps == <<earlyFaults, lateFaults, faults, crashes>>
vars == <<started, claims, log, mail, work, mishaps>>

Stages == {"idle", "looping", "checked", "claimed", "sent", "noted", "raising"}

Statuses == {"none", "sent", "failed", "skipped_by_preference"}

TypeOK ==
    /\ started \subseteq Student
    /\ claims \subseteq Student
    /\ log \in [Student -> Statuses]
    /\ mail \in [Student -> Nat]
    /\ at \in [Sweeper -> Stages]
    /\ todo \in [Sweeper -> SUBSET Student]
    /\ current \in [Sweeper -> Student \cup {Nobody}]
    /\ outcome \in [Sweeper -> Statuses]
    /\ earlyFaults \in Nat /\ lateFaults \in Nat
    /\ faults \in Nat /\ crashes \in Nat

Init ==
    /\ started = {} /\ claims = {}
    /\ log = [s \in Student |-> "none"]
    /\ mail = [s \in Student |-> 0]
    /\ at = [p \in Sweeper |-> "idle"]
    /\ todo = [p \in Sweeper |-> {}]
    /\ current = [p \in Sweeper |-> Nobody]
    /\ outcome = [p \in Sweeper |-> "none"]
    /\ earlyFaults = 0 /\ lateFaults = 0 /\ faults = 0 /\ crashes = 0

----------------------------------------------------------------------------
(* How a sweeper moves.                                                    *)

GoTo(p, stage) == at' = [at EXCEPT ![p] = stage]

(* Mutant: the loop ends at a student it has nothing to send to.           *)
AdvanceBreaks(p, s) ==
    /\ GoTo(p, "idle")
    /\ todo' = [todo EXCEPT ![p] = {}]
    /\ current' = [current EXCEPT ![p] = Nobody]
    /\ outcome' = [outcome EXCEPT ![p] = "none"]

(* The loop takes up the next student.                                     *)
Advance(p, s) ==
    /\ GoTo(p, "looping")
    /\ todo' = [todo EXCEPT ![p] = @ \ {s}]
    /\ current' = [current EXCEPT ![p] = Nobody]
    /\ outcome' = [outcome EXCEPT ![p] = "none"]

(* The sweep is over, or its process is gone.                              *)
Stop(p) ==
    /\ GoTo(p, "idle")
    /\ todo' = [todo EXCEPT ![p] = {}]
    /\ current' = [current EXCEPT ![p] = Nobody]
    /\ outcome' = [outcome EXCEPT ![p] = "none"]

Fault ==
    /\ faults < MaxFaults
    /\ faults' = faults + 1
    /\ UNCHANGED <<earlyFaults, lateFaults, crashes>>

----------------------------------------------------------------------------
(* The sweep.                                                              *)

BeginSweep(p) ==
    /\ at[p] = "idle"
    /\ GoTo(p, "looping")
    /\ todo' = [todo EXCEPT ![p] = Student]
    /\ UNCHANGED <<started, claims, log, mail, current, outcome, mishaps>>

(* The cheap checks: an attempt, or any log entry, means nothing to send.  *)
Unserved(s) == s \notin started /\ log[s] = "none"

PassOver(p, s) ==
    /\ at[p] = "looping" /\ s \in todo[p]
    /\ ~Unserved(s)
    /\ Advance(p, s)
    /\ UNCHANGED <<started, claims, log, mail, mishaps>>

Check(p, s) ==
    /\ at[p] = "looping" /\ s \in todo[p]
    /\ Unserved(s)
    /\ GoTo(p, "checked")
    /\ current' = [current EXCEPT ![p] = s]
    /\ UNCHANGED <<started, claims, log, mail, todo, outcome, mishaps>>

(* Mutant: the claim is not looked at, the cheap checks must do.           *)
ClaimFreeUnchecked(s) == TRUE

(* _claim_notification: the INSERT meets the UNIQUE key or not.            *)
ClaimFree(s) == s \notin claims

Claim(p) ==
    /\ at[p] = "checked"
    /\ ClaimFree(current[p])
    /\ claims' = claims \cup {current[p]}
    /\ GoTo(p, "claimed")
    /\ UNCHANGED <<started, log, mail, todo, current, outcome, mishaps>>

LoseClaim(p) ==
    /\ at[p] = "checked"
    /\ ~ClaimFree(current[p])
    /\ Advance(p, current[p])
    /\ UNCHANGED <<started, claims, log, mail, mishaps>>

(* notify: rendering, or looking up the preferences, raises.               *)
RaiseBeforeSending(p) ==
    /\ at[p] = "claimed"
    /\ earlyFaults < MaxFaults
    /\ earlyFaults' = earlyFaults + 1
    /\ GoTo(p, "raising")
    /\ UNCHANGED <<started, claims, log, mail, todo, current, outcome,
                   lateFaults, faults, crashes>>

(* notify: send_email, whose exceptions end in a status.  The mail server  *)
(* may have taken the mail and the connection failed after.                *)
SendEmail(p, status, delivered) ==
    /\ at[p] = "claimed"
    /\ GoTo(p, "sent")
    /\ outcome' = [outcome EXCEPT ![p] = status]
    /\ mail' = [mail EXCEPT ![current[p]] = @ + delivered]
    /\ UNCHANGED <<started, claims, log, todo, current, mishaps>>

Send(p) ==
    IF current[p] \in OptedOut
    THEN SendEmail(p, "skipped_by_preference", 0)
    ELSE \/ SendEmail(p, "sent", 1)
         \/ \E delivered \in {0, 1} : SendEmail(p, "failed", delivered)

(* notify: the history row, whose loss is swallowed.                       *)
WriteLog(p) ==
    /\ at[p] = "sent"
    /\ log' = [log EXCEPT ![current[p]] = outcome[p]]
    /\ GoTo(p, "noted")
    /\ UNCHANGED <<started, claims, mail, todo, current, outcome, mishaps>>

LoseLog(p) ==
    /\ at[p] = "sent"
    /\ GoTo(p, "noted")
    /\ Fault
    /\ UNCHANGED <<started, claims, log, mail, todo, current, outcome>>

(* notify: user.phone and the preferences are read again after the commit  *)
(* or rollback, and that read may raise.                                   *)
RaiseAfterSending(p) ==
    /\ at[p] = "noted"
    /\ lateFaults < MaxFaults
    /\ lateFaults' = lateFaults + 1
    /\ GoTo(p, "raising")
    /\ UNCHANGED <<started, claims, log, mail, todo, current, outcome,
                   earlyFaults, faults, crashes>>

Proceed(p) ==
    /\ at[p] = "noted"
    /\ Advance(p, current[p])
    /\ UNCHANGED <<started, claims, log, mail, mishaps>>

(* Mutant: the exception handler does not give the claim back.             *)
ReleasedNever(p) == claims

Released(p) == claims \ {current[p]}

(* The exception handler gives the claim back and raises: the rest of the  *)
(* loop is left to the next sweep.  Its DELETE may fail too.               *)
Release(p) ==
    /\ at[p] = "raising"
    /\ claims' = Released(p)
    /\ Stop(p)
    /\ UNCHANGED <<started, log, mail, mishaps>>

ReleaseFails(p) ==
    /\ at[p] = "raising"
    /\ Stop(p)
    /\ Fault
    /\ UNCHANGED <<started, claims, log, mail>>

EndSweep(p) ==
    /\ at[p] = "looping" /\ todo[p] = {}
    /\ Stop(p)
    /\ UNCHANGED <<started, claims, log, mail, mishaps>>

Crash(p) ==
    /\ at[p] # "idle"
    /\ crashes < MaxCrashes
    /\ crashes' = crashes + 1
    /\ Stop(p)
    /\ UNCHANGED <<started, claims, log, mail, earlyFaults, lateFaults, faults>>

StartsExam(s) ==
    /\ s \notin started
    /\ started' = started \cup {s}
    /\ UNCHANGED <<claims, log, mail, work, mishaps>>

(* The steps a live sweeper takes by itself.                               *)
Run(p) ==
    \/ BeginSweep(p)
    \/ \E s \in Student : PassOver(p, s) \/ Check(p, s)
    \/ Claim(p) \/ LoseClaim(p)
    \/ Send(p) \/ WriteLog(p) \/ Proceed(p)
    \/ Release(p)
    \/ EndSweep(p)

Next ==
    \/ \E p \in Sweeper :
          \/ Run(p)
          \/ RaiseBeforeSending(p) \/ LoseLog(p) \/ RaiseAfterSending(p)
          \/ ReleaseFails(p) \/ Crash(p)
    \/ \E s \in Student : StartsExam(s)

Spec == Init /\ [][Next]_vars

(* Fairness: the scheduler keeps sweeping and its passes come to an end.   *)
FairSpec == Spec /\ \A p \in Sweeper : WF_vars(Run(p))

----------------------------------------------------------------------------

Working(p) == at[p] \in {"claimed", "sent", "noted", "raising"}

(* A claim has one owner: no two sweepers are ever between claim and log   *)
(* for the same student, whatever they raise and release.                  *)
OneOwner ==
    \A p, q \in Sweeper :
        p # q /\ Working(p) /\ Working(q) => current[p] # current[q]

(* Claims that nothing came of and nobody is working on.                   *)
Orphans ==
    {s \in claims : /\ mail[s] = 0 /\ log[s] = "none"
                    /\ \A p \in Sweeper : Working(p) => current[p] # s}

(* A student is silently passed over for ever only because a sweeper died  *)
(* holding the claim or a commit failed under it: one student per mishap.  *)
OrphansAreMishaps == Cardinality(Orphans) <= crashes + faults

(* The reminders implement the promise.                                    *)
Promise == INSTANCE ReminderPromise WITH Student <- Student, mail <- mail, lateFaults <- lateFaults
PromiseKept == Promise!Spec

(* Everybody is dealt with in the end: has started, was mailed or has a    *)
(* log entry that says why not, or is one of the orphans.                  *)
EverybodyIsServed ==
    \A s \in Student : <>(~Unserved(s) \/ mail[s] > 0 \/ s \in Orphans)

==============================================================================
