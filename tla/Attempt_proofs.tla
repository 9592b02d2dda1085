-------------------------- MODULE Attempt_proofs ---------------------------
(***************************************************************************)
(* Theorems about the row of an attempt: while the exam runs and when it   *)
(* ends (AttemptRecord), and after them its grading (Grading).             *)
(*                                                                         *)
(* The safety of AttemptRecord for every number of workers, every policy   *)
(* and every limit.  The inductive invariant says what a request that is   *)
(* still holding an old copy of the row may yet write: everything it saw   *)
(* is a true past of the row (SeenIsPast).                                 *)
(***************************************************************************)
EXTENDS AttemptRecord, Grading, FiniteSetTheorems, TLAPS

----------------------------------------------------------------------------
(* The inductive invariant.                                                *)

(* The score is the score of the rows in the answers table, and nobody but *)
(* a finalization marks the attempt submitted.                             *)
Graded ==
    /\ attempt.score = answers
    /\ attempt.status = "submitted" => answers # NoAnswers

Backed(row) ==
    /\ row.violation_count <= events.violation
    /\ row.total_warning_count <= events.warning

Within(row) ==
    ~Finished(row) =>
        /\ row.violation_count < MaxViolations
        /\ WarnLimit > 0 => row.total_warning_count <= WarnLimit

Announced ==
    /\ HighRiskIsAnnounced
    /\ attempt.high_risk_alert_sent => alerts > 0

(* What a request in flight has seen was true of the row once.             *)
PastOf(t) ==
    /\ Backed(t.seen)
    /\ t.log <= events.violation
    /\ Within(t.seen)
    /\ Finished(t.seen) => Finished(attempt)
    /\ t.seen.score \in {NoAnswers, answers}
    /\ t.seen.termination_reason # "none" => attempt.termination_reason # "none"
    /\ t.seen.high_risk_alert_sent => attempt.high_risk_alert_sent
    /\ t.at \in {"submit", "expire", "autosave"} => t.form \in Answers
    /\ t.at = "event" => t.event \in EventType

SeenIsPast == \A w \in Worker : PastOf(task[w])

IInv ==
    /\ TypeOK
    /\ Graded
    /\ Backed(attempt)
    /\ Within(attempt)
    /\ TerminationIsEarned
    /\ Announced
    /\ SeenIsPast

----------------------------------------------------------------------------
(* The operators.                                                          *)

(* A commit leaves each column as it was stored or as the handler left it, *)
(* and takes the handler's value whenever the handler changed it.          *)
LEMMA FlushedRow ==
    ASSUME NEW db \in Row, NEW seen \in Row, NEW new \in Row
    PROVE  /\ Flushed(db, seen, new) \in Row
           /\ \A f \in DOMAIN db :
                 /\ Flushed(db, seen, new)[f] \in {db[f], new[f]}
                 /\ new[f] # seen[f] => Flushed(db, seen, new)[f] = new[f]
                 /\ new[f] = seen[f] => Flushed(db, seen, new)[f] = db[f]
  BY DEF Flushed, Column, Row

(* The initial row and an idle worker have their types.                    *)
LEMMA InitialTypes == NewAttempt \in Row /\ Idle \in Task
  BY FormAssumption DEF NewAttempt, Idle, Row, Task, Severities

(* What an event may do to the row that was loaded.                        *)
LEMMA AfterViolationRow ==
    ASSUME NEW row \in Row, NEW e \in EventType, NEW severity \in Severities,
           NEW violations \in Nat
    PROVE  AfterViolation(row, e, severity, violations) \in Row
<1> DEFINE status == IF Terminates(row, e, severity)
                     THEN "terminated" ELSE row.status
           logged == LoggedSeverity(row, e, severity)
           reason == IF Terminates(row, e, severity)
                     THEN Cause(row, e, severity) ELSE row.termination_reason
           flagged == AddIf(row.violation_count, logged = "violation")
           warned == AddIf(row.total_warning_count,
                        CountsAsWarning(row, e, severity) /\ logged = "warning")
           used == AddIf(row.warning_counts[e], Limited(e))
           alerted == row.high_risk_alert_sent \/ IsHighRisk(status, violations)
<1>1. CASE InGrace(e)
  BY <1>1 DEF AfterViolation
<1>2. CASE ~InGrace(e)
  <2>1. status \in {"in_progress", "submitted", "terminated"}
    BY DEF Row
  <2>2. reason \in {"none", "time", "violations", "warnings", "policy", "proctor"}
    BY DEF Cause, Row
  <2>3. flagged \in Nat /\ warned \in Nat
    BY DEF AddIf, Row
  <2>4. [row.warning_counts EXCEPT ![e] = used] \in [EventType -> Nat]
    BY DEF AddIf, Row
  <2>5. alerted \in BOOLEAN
    OBVIOUS
  <2>6. AfterViolation(row, e, severity, violations) =
            [row EXCEPT !.status = status,
                        !.termination_reason = reason,
                        !.violation_count = flagged,
                        !.total_warning_count = warned,
                        !.warning_counts = [row.warning_counts EXCEPT ![e] = used],
                        !.high_risk_alert_sent = alerted]
    BY <1>2, Zenon DEF AfterViolation, Row
  <2> HIDE DEF status, logged, reason, flagged, warned, used, alerted
  <2> QED
    BY <2>1, <2>2, <2>3, <2>4, <2>5, <2>6 DEF Row
<1> QED
  BY <1>1, <1>2

(* The same, column by column; in the grace period nothing is left changed. *)
LEMMA AfterViolationColumns ==
    ASSUME NEW row \in Row, NEW e \in EventType, NEW severity \in Severities,
           NEW violations \in Nat
    PROVE  LET after  == AfterViolation(row, e, severity, violations)
               logged == LoggedSeverity(row, e, severity)
               ends   == ~InGrace(e) /\ Terminates(row, e, severity)
           IN  /\ after.status = IF ends THEN "terminated" ELSE row.status
               /\ after.termination_reason =
                     IF ends THEN Cause(row, e, severity)
                     ELSE row.termination_reason
               /\ after.score = row.score
               /\ after.violation_count =
                     AddIf(row.violation_count, logged = "violation")
               /\ after.total_warning_count =
                     AddIf(row.total_warning_count,
                           CountsAsWarning(row, e, severity) /\ logged = "warning")
               /\ row.high_risk_alert_sent => after.high_risk_alert_sent
               /\ logged = "violation" /\ violations >= HighRiskAfter
                     => after.high_risk_alert_sent
<1>1. CASE InGrace(e)
  <2>1. LoggedSeverity(row, e, severity) = "info"
    BY <1>1 DEF LoggedSeverity
  <2> QED
    BY <1>1, <2>1 DEF AfterViolation, AddIf, Row
<1>2. CASE ~InGrace(e)
  BY <1>2 DEF AfterViolation, IsHighRisk, Row
<1> QED
  BY <1>1, <1>2

(* A row within its limits is left within them, ended or not.              *)
LEMMA AfterViolationWithin ==
    ASSUME NEW row \in Row, NEW e \in EventType, NEW severity \in Severities,
           NEW violations \in Nat, Within(row)
    PROVE  Within(AfterViolation(row, e, severity, violations))
<1> DEFINE after  == AfterViolation(row, e, severity, violations)
           logged == LoggedSeverity(row, e, severity)
<1> SUFFICES ASSUME ~Finished(after)
             PROVE  /\ after.violation_count < MaxViolations
                    /\ WarnLimit > 0 => after.total_warning_count <= WarnLimit
  BY DEF Within
<1>1. ~Finished(row) /\ (InGrace(e) \/ ~Terminates(row, e, severity))
  BY AfterViolationColumns DEF Finished
<1>2. after.violation_count < MaxViolations
  <2>1. CASE logged = "violation"
    <3>1. ~InGrace(e)
      BY <2>1 DEF LoggedSeverity
    <3>2. ~(row.violation_count + 1 >= MaxViolations)
      BY <1>1, <2>1, <3>1 DEF Terminates
    <3> QED
      BY <2>1, <3>2, AfterViolationColumns, LimitAssumption DEF AddIf, Row
  <2>2. CASE logged # "violation"
    BY <1>1, <2>2, AfterViolationColumns DEF AddIf, Within
  <2> QED
    BY <2>1, <2>2
<1>3. WarnLimit > 0 => after.total_warning_count <= WarnLimit
  <2>1. CASE CountsAsWarning(row, e, severity) /\ logged = "warning"
    <3>1. ~(row.total_warning_count >= WarnLimit)
      BY <2>1 DEF LoggedSeverity, Disqualifies
    <3> QED
      BY <2>1, <3>1, AfterViolationColumns, LimitAssumption DEF AddIf, Row
  <2>2. CASE ~(CountsAsWarning(row, e, severity) /\ logged = "warning")
    BY <1>1, <2>2, AfterViolationColumns DEF AddIf, Within
  <2> QED
    BY <2>1, <2>2
<1> QED
  BY <1>2, <1>3

----------------------------------------------------------------------------
(* How a step may change what the requests in flight rely on.              *)

Advances ==
    /\ events.violation <= events'.violation
    /\ events.warning <= events'.warning
    /\ Finished(attempt) => Finished(attempt')
    /\ attempt.termination_reason # "none" => attempt'.termination_reason # "none"
    /\ attempt.high_risk_alert_sent => attempt'.high_risk_alert_sent
    /\ answers' = answers \/ answers = NoAnswers

(* What was a past of the row stays one when the row advances.             *)
LEMMA PastSurvives ==
    ASSUME TypeOK, TypeOK', Advances, NEW t \in Task, PastOf(t)
    PROVE  PastOf(t)'
<1>1. t.seen \in Row
  BY DEF Task
<1>2. Backed(t.seen)'
  BY <1>1 DEF PastOf, Backed, Advances, TypeOK, Row
<1>2a. t.log <= events'.violation
  BY DEF PastOf, Advances, TypeOK, Task
<1>3. Within(t.seen)'
  BY DEF PastOf, Within, Finished
<1> QED
  BY <1>2, <1>2a, <1>3 DEF PastOf, Advances

(* An idle worker has seen nothing that could be out of date.              *)
LEMMA IdleIsPast ==
    ASSUME TypeOK'
    PROVE  PastOf(Idle)'
  BY LimitAssumption DEF PastOf, Backed, Within, Finished, Idle, NewAttempt, TypeOK

(* A step in which one worker finishes keeps everybody's past.             *)
LEMMA DoneKeepsPast ==
    ASSUME TypeOK, TypeOK', SeenIsPast, Advances, NEW w \in Worker, Done(w)
    PROVE  SeenIsPast'
<1> SUFFICES ASSUME NEW v \in Worker
             PROVE  PastOf(task[v])'
  BY DEF SeenIsPast
<1>1. CASE v = w
  BY <1>1, IdleIsPast DEF Done, TypeOK
<1>2. CASE v # w
  <2>1. task[v]' = task[v] /\ task[v] \in Task
    BY <1>2 DEF Done, TypeOK
  <2>2. PastOf(task[v])
    BY DEF SeenIsPast
  <2> DEFINE t == task[v]
  <2> QED
    BY <2>1, <2>2, PastSurvives
<1> QED
  BY <1>1, <1>2

----------------------------------------------------------------------------
(* The invariant holds initially and is preserved by every step.           *)

LEMMA InitInvariant == Init => IInv
<1> SUFFICES ASSUME Init
             PROVE  IInv
  OBVIOUS
<1>1. TypeOK
  BY InitialTypes DEF Init, TypeOK
<1>2. Graded /\ Backed(attempt) /\ Within(attempt) /\ TerminationIsEarned
  BY LimitAssumption
     DEF Init, NewAttempt, Graded, Backed, Within, Finished, TerminationIsEarned
<1>3. Announced
  BY LimitAssumption DEF Init, NewAttempt, Announced, HighRiskIsAnnounced
<1>4. SeenIsPast
  <2>1. PastOf(Idle)
    BY LimitAssumption
       DEF Init, PastOf, Backed, Within, Finished, Idle, NewAttempt
  <2> QED
    BY <2>1 DEF Init, SeenIsPast
<1> QED
  BY <1>1, <1>2, <1>3, <1>4 DEF IInv

(* Everything but the requests in flight is as it was.                     *)
DatabaseUnchanged == UNCHANGED <<attempt, answers, events, alerts, unseen>>

LEMMA DatabasePart ==
    ASSUME IInv, DatabaseUnchanged
    PROVE  /\ Graded' /\ Backed(attempt)' /\ Within(attempt)'
           /\ TerminationIsEarned' /\ Announced'
  BY DEF IInv, DatabaseUnchanged, Graded, Backed, Within, Finished,
         TerminationIsEarned, Announced, HighRiskIsAnnounced

LEMMA UnchangedAdvances ==
    ASSUME TypeOK, DatabaseUnchanged
    PROVE  Advances
  BY DEF TypeOK, DatabaseUnchanged, Advances, Finished

(* A load: what the worker now holds is the row as it is.                  *)
LEMMA LoadPreserves ==
    ASSUME IInv, NEW w \in Worker, NEW t, t \in Task, t.seen = attempt,
           t.log = events.violation,
           t.at \in {"submit", "expire", "autosave"} => t.form \in Answers,
           t.at = "event" => t.event \in EventType,
           task' = [task EXCEPT ![w] = t], DatabaseUnchanged, phase' = phase
    PROVE  IInv' /\ Advances
<1>1. TypeOK'
  BY DEF IInv, TypeOK, DatabaseUnchanged
<1>2. SeenIsPast'
  <2> SUFFICES ASSUME NEW v \in Worker
               PROVE  PastOf(task[v])'
    BY DEF SeenIsPast
  <2>1. CASE v = w
    <3>1. /\ task'[v] = t /\ t.seen.score = answers'
          /\ t.log <= events'.violation
      BY <2>1 DEF IInv, TypeOK, Graded, DatabaseUnchanged
    <3> QED
      BY <3>1 DEF PastOf, IInv, Backed, Within, Finished, DatabaseUnchanged
  <2>2. CASE v # w
    BY <2>2 DEF IInv, TypeOK, SeenIsPast, PastOf, Backed, Within, Finished,
                DatabaseUnchanged
  <2> QED
    BY <2>1, <2>2
<1>3. Advances
  BY UnchangedAdvances DEF IInv
<1> QED
  BY <1>1, <1>2, <1>3, DatabasePart DEF IInv

(* A request that ends without having changed the database.                *)
LEMMA QuietEndPreserves ==
    ASSUME IInv, NEW w \in Worker, Done(w), DatabaseUnchanged, phase' = phase
    PROVE  IInv' /\ Advances
<1>1. TypeOK'
  BY InitialTypes DEF IInv, TypeOK, DatabaseUnchanged, Done
<1>2. Advances
  BY UnchangedAdvances DEF IInv
<1> QED
  BY <1>1, <1>2, DoneKeepsPast, DatabasePart DEF IInv

(* Both finalizations: only the first inserts answers, and what it saw had *)
(* no score, so the score it writes reaches the row.                       *)
LEMMA FinalizePreserves ==
    ASSUME IInv, NEW w \in Worker, task[w].at \in {"submit", "expire"},
           InsertsAnswers(task[w].form),
           NEW reason, reason \in {task[w].seen.termination_reason, "time"},
           attempt' = Flushed(attempt, task[w].seen,
                          [Finalized(task[w].seen, task[w].form)
                              EXCEPT !.termination_reason = reason]),
           Done(w), UNCHANGED <<events, alerts, unseen, phase>>
    PROVE  IInv' /\ Advances
<1> DEFINE seen == task[w].seen
           form == task[w].form
           new  == [Finalized(seen, form) EXCEPT !.termination_reason = reason]
<1>1. PastOf(task[w]) /\ seen \in Row /\ form \in Answers
  BY DEF IInv, SeenIsPast, PastOf, TypeOK, Task
<1>2. new \in Row
  BY <1>1 DEF Finalized, Row
<1>3. /\ new.status = "submitted" /\ new.score = form
      /\ new.termination_reason = reason
      /\ new.violation_count = seen.violation_count
      /\ new.total_warning_count = seen.total_warning_count
      /\ new.high_risk_alert_sent = seen.high_risk_alert_sent
  BY <1>1 DEF Finalized, Row
<1>4. attempt \in Row
  BY DEF IInv, TypeOK
<1>5. attempt' \in Row
  BY <1>1, <1>2, <1>4, FlushedRow
<1>6. TypeOK'
  BY <1>1, <1>5, InitialTypes DEF IInv, TypeOK, Done, InsertsAnswers
<1>7. /\ attempt'.violation_count = attempt.violation_count
      /\ attempt'.total_warning_count = attempt.total_warning_count
      /\ attempt'.high_risk_alert_sent = attempt.high_risk_alert_sent
      /\ attempt'.termination_reason \in {attempt.termination_reason, "time"}
  BY <1>1, <1>2, <1>3, <1>4 DEF Flushed, Column, Row
<1>8. attempt'.score = form /\ answers' = form /\ answers = NoAnswers
  <2>1. answers = NoAnswers /\ answers' = form /\ form # NoAnswers
    BY <1>1, FormAssumption DEF InsertsAnswers
  <2>2. seen.score = NoAnswers
    BY <1>1, <2>1 DEF PastOf
  <2> QED
    BY <1>1, <1>3, <2>1, <2>2 DEF Flushed, Column
<1>9. attempt'.status # "in_progress" /\ attempt'.status \in {attempt.status, "submitted"}
  <2>1. attempt'.status = IF seen.status = "submitted"
                          THEN attempt.status ELSE "submitted"
    BY <1>1, <1>3 DEF Flushed, Column
  <2>2. seen.status = "submitted" => attempt.status # "in_progress"
    BY <1>1 DEF PastOf, Finished
  <2> QED
    BY <2>1, <2>2
<1>10. Advances
  BY <1>7, <1>8, <1>9 DEF Advances, IInv, TypeOK, Finished
<1>11. Graded'
  BY <1>1, <1>8, FormAssumption DEF Graded
<1>12. Backed(attempt)' /\ Within(attempt)'
  BY <1>7, <1>9 DEF IInv, Backed, Within, Finished
<1>13. TerminationIsEarned'
  BY <1>7, <1>9 DEF IInv, TerminationIsEarned
<1>14. Announced'
  BY <1>7 DEF IInv, Announced, HighRiskIsAnnounced
<1>15. SeenIsPast'
  BY <1>6, <1>10, DoneKeepsPast DEF IInv
<1> QED
  BY <1>6, <1>10, <1>11, <1>12, <1>13, <1>14, <1>15 DEF IInv

(* An autosave writes the draft and nothing the invariant speaks of.       *)
LEMMA AutosavePreserves ==
    ASSUME IInv, NEW w \in Worker, CommitAutosave(w)
    PROVE  IInv' /\ Advances
<1> DEFINE seen == task[w].seen
           new  == [seen EXCEPT !.autosaved_answers = task[w].form]
<1>1. PastOf(task[w]) /\ seen \in Row /\ attempt \in Row /\ new \in Row
  BY DEF IInv, SeenIsPast, PastOf, TypeOK, Task, Row, CommitAutosave
<1>2. attempt' = Flushed(attempt, seen, new)
  BY DEF CommitAutosave
<1>3. /\ attempt' \in Row
      /\ \A f \in DOMAIN attempt \ {"autosaved_answers"} : attempt'[f] = attempt[f]
  BY <1>1, <1>2, FlushedRow DEF Row
<1>4. TypeOK'
  BY <1>3, InitialTypes DEF IInv, TypeOK, CommitAutosave, Done
<1>5. /\ attempt'.status = attempt.status
      /\ attempt'.termination_reason = attempt.termination_reason
      /\ attempt'.score = attempt.score
      /\ attempt'.violation_count = attempt.violation_count
      /\ attempt'.total_warning_count = attempt.total_warning_count
      /\ attempt'.high_risk_alert_sent = attempt.high_risk_alert_sent
  BY <1>1, <1>3 DEF Row
<1>6. Advances
  BY <1>5 DEF Advances, IInv, TypeOK, Finished, CommitAutosave
<1>7. Graded' /\ Backed(attempt)' /\ Within(attempt)'
  BY <1>5 DEF IInv, Graded, Backed, Within, Finished, CommitAutosave
<1>8. TerminationIsEarned' /\ Announced'
  BY <1>5 DEF IInv, TerminationIsEarned, Announced, HighRiskIsAnnounced, CommitAutosave
<1>9. SeenIsPast'
  BY <1>4, <1>6, DoneKeepsPast DEF IInv, CommitAutosave
<1> QED
  BY <1>4, <1>6, <1>7, <1>8, <1>9 DEF IInv

(* A proctor's termination: the row ends, whatever it was meanwhile.       *)
LEMMA TerminatePreserves ==
    ASSUME IInv, NEW w \in Worker, CommitTerminate(w)
    PROVE  IInv' /\ Advances
<1> DEFINE seen == task[w].seen
           new  == [seen EXCEPT !.status = "terminated",
                                !.termination_reason = "proctor"]
<1>1. PastOf(task[w]) /\ seen \in Row /\ attempt \in Row /\ new \in Row
  BY DEF IInv, SeenIsPast, PastOf, TypeOK, Task, Row
<1>2. attempt' = Flushed(attempt, seen, new)
  BY DEF CommitTerminate
<1>3. attempt' \in Row
  BY <1>1, <1>2, FlushedRow
<1>4. TypeOK'
  BY <1>3, InitialTypes DEF IInv, TypeOK, CommitTerminate, Done
<1>5. /\ attempt'.score = attempt.score
      /\ attempt'.violation_count = attempt.violation_count
      /\ attempt'.total_warning_count = attempt.total_warning_count
      /\ attempt'.high_risk_alert_sent = attempt.high_risk_alert_sent
  BY <1>1, <1>2 DEF Flushed, Column, Row
<1>6. Finished(attempt') /\ attempt'.status \in {attempt.status, "terminated"}
  <2>1. attempt'.status = IF seen.status = "terminated"
                          THEN attempt.status ELSE "terminated"
    BY <1>1, <1>2 DEF Flushed, Column, Row
  <2> QED
    BY <1>1, <2>1 DEF PastOf, Finished
<1>7. /\ attempt'.termination_reason \in {attempt.termination_reason, "proctor"}
      /\ attempt'.termination_reason # "none"
  <2>1. attempt'.termination_reason =
            IF seen.termination_reason = "proctor"
            THEN attempt.termination_reason ELSE "proctor"
    BY <1>1, <1>2 DEF Flushed, Column, Row
  <2> QED
    BY <1>1, <2>1 DEF PastOf
<1>8. Advances
  BY <1>5, <1>6, <1>7 DEF Advances, IInv, TypeOK, CommitTerminate
<1>9. Graded' /\ Backed(attempt)' /\ Within(attempt)'
  BY <1>5, <1>6 DEF IInv, Graded, Backed, Within, CommitTerminate
<1>10. TerminationIsEarned' /\ Announced'
  BY <1>5, <1>7 DEF IInv, TerminationIsEarned, Announced, HighRiskIsAnnounced,
                   CommitTerminate
<1>11. SeenIsPast'
  BY <1>4, <1>8, DoneKeepsPast DEF IInv, CommitTerminate
<1> QED
  BY <1>4, <1>8, <1>9, <1>10, <1>11 DEF IInv

(* An alert whose worker dies leaves no trace in the database.             *)
LEMMA KilledWhileAlertingPreserves ==
    ASSUME IInv, NEW w \in Worker, KilledWhileAlerting(w)
    PROVE  IInv' /\ Advances
<1>1. alerts' = alerts + 1 /\ UNCHANGED <<attempt, answers, events, unseen, phase>> /\ Done(w)
  BY DEF KilledWhileAlerting
<1>2. TypeOK'
  BY <1>1, InitialTypes DEF IInv, TypeOK, Done
<1>3. Advances
  BY <1>1 DEF Advances, Finished, IInv, TypeOK
<1>4. SeenIsPast'
  BY <1>1, <1>2, <1>3, DoneKeepsPast DEF IInv
<1>5. Graded' /\ Backed(attempt)' /\ Within(attempt)' /\ TerminationIsEarned'
  BY <1>1 DEF IInv, Graded, Backed, Within, Finished, TerminationIsEarned
<1>6. Announced'
  BY <1>1 DEF IInv, TypeOK, Announced, HighRiskIsAnnounced
<1> QED
  BY <1>2, <1>3, <1>4, <1>5, <1>6 DEF IInv

(* A proctoring event: what it charges the attempt with is in the log, and *)
(* it ends the attempt whenever what it leaves would be over a limit.      *)
LEMMA EventPreserves ==
    ASSUME IInv, NEW w \in Worker, CommitEvent(w)
    PROVE  IInv' /\ Advances
<1> DEFINE seen   == task[w].seen
           e      == task[w].event
           sev    == task[w].severity
           logged == LoggedSeverity(seen, e, sev)
           ends   == ~InGrace(e) /\ Terminates(seen, e, sev)
<1>1. /\ PastOf(task[w]) /\ seen \in Row /\ attempt \in Row
      /\ e \in EventType /\ sev \in Severities
      /\ events.violation \in Nat /\ unseen \in Nat
      /\ task[w].log \in Nat /\ task[w].log <= events.violation
  BY DEF IInv, SeenIsPast, PastOf, TypeOK, Task, CommitEvent
<1>1a. PICK log \in Visible(w) :
          /\ attempt' = Flushed(attempt, seen, EventOutcome(w, log))
          /\ alerts' = AddIf(alerts, Alerting(seen, EventOutcome(w, log)))
          /\ unseen' = IF logged = "violation" /\ events.violation > log + unseen
                       THEN events.violation - log ELSE unseen
  BY Zenon DEF CommitEvent, Severity
<1>1b. log \in Nat /\ log <= events.violation
  BY <1>1 DEF Visible
<1> DEFINE seeing == AddIf(log, logged = "violation")
           new    == AfterViolation(seen, e, sev, seeing)
<1>1c. /\ seeing \in Nat /\ (logged = "violation" => seeing = log + 1)
       /\ EventOutcome(w, log) = new
  BY <1>1b DEF AddIf, EventOutcome, Severity
<1>1d. /\ unseen' \in Nat /\ unseen <= unseen'
       /\ logged = "violation" => events.violation - log <= unseen'
  BY <1>1, <1>1a, <1>1b
<1>2. /\ events' \in [violation : Nat, warning : Nat]
      /\ events'.violation = AddIf(events.violation, logged = "violation")
      /\ events'.warning = AddIf(events.warning, logged = "warning")
  BY DEF CommitEvent, Logged, Severity, AddIf, IInv, TypeOK
<1>3. attempt' = Flushed(attempt, seen, new) /\ Done(w) /\ UNCHANGED <<answers, phase>>
  BY <1>1a, <1>1c DEF CommitEvent
<1>4. new \in Row /\ Within(new)
  BY <1>1, <1>1c, AfterViolationRow, AfterViolationWithin DEF PastOf
<1>5. /\ new.status = IF ends THEN "terminated" ELSE seen.status
      /\ new.termination_reason =
            IF ends THEN Cause(seen, e, sev) ELSE seen.termination_reason
      /\ new.score = seen.score
      /\ new.violation_count = AddIf(seen.violation_count, logged = "violation")
      /\ new.total_warning_count =
            AddIf(seen.total_warning_count,
                  CountsAsWarning(seen, e, sev) /\ logged = "warning")
      /\ seen.high_risk_alert_sent => new.high_risk_alert_sent
      /\ logged = "violation" /\ seeing >= HighRiskAfter
            => new.high_risk_alert_sent
  BY <1>1, <1>1c, AfterViolationColumns
<1>6. attempt' \in Row
  BY <1>1, <1>3, <1>4, FlushedRow
<1>7. alerts' \in Nat /\ alerts <= alerts'
  BY <1>1a DEF AddIf, IInv, TypeOK
<1>8. TypeOK'
  BY <1>1d, <1>2, <1>3, <1>6, <1>7, InitialTypes DEF IInv, TypeOK, Done
<1> HIDE DEF new, logged, ends, seeing
<1>9. attempt'.score = attempt.score
  BY <1>1, <1>3, <1>5 DEF Flushed, Column
<1>10. attempt'.status = IF new.status = seen.status THEN attempt.status ELSE new.status
  BY <1>3 DEF Flushed, Column
<1>11. attempt'.termination_reason =
          IF new.termination_reason = seen.termination_reason
          THEN attempt.termination_reason ELSE new.termination_reason
  BY <1>3 DEF Flushed, Column
<1>12. /\ attempt'.violation_count \in {attempt.violation_count, new.violation_count}
       /\ attempt'.total_warning_count \in
             {attempt.total_warning_count, new.total_warning_count}
  BY <1>3 DEF Flushed, Column
<1>13. attempt'.high_risk_alert_sent =
          IF new.high_risk_alert_sent = seen.high_risk_alert_sent
          THEN attempt.high_risk_alert_sent ELSE new.high_risk_alert_sent
  BY <1>3 DEF Flushed, Column
<1>14. Finished(attempt) => Finished(attempt')
  BY <1>5, <1>10 DEF Finished
<1>15. attempt.termination_reason # "none" => attempt'.termination_reason # "none"
  BY <1>5, <1>11 DEF Cause
<1>16. /\ attempt.high_risk_alert_sent => attempt'.high_risk_alert_sent
       /\ new.high_risk_alert_sent => attempt'.high_risk_alert_sent
  BY <1>1, <1>4, <1>5, <1>13 DEF PastOf, Row
<1>17. Advances
  BY <1>2, <1>3, <1>14, <1>15, <1>16 DEF Advances, AddIf, IInv, TypeOK
<1>18. Graded'
  BY <1>3, <1>5, <1>9, <1>10 DEF IInv, Graded
<1>19. Backed(attempt)'
  <2>1. Backed(attempt) /\ Backed(seen)
    BY <1>1 DEF IInv, PastOf
  <2>2. /\ new.violation_count <= events'.violation
        /\ new.total_warning_count <= events'.warning
    BY <1>1, <1>2, <1>5, <2>1 DEF Backed, AddIf, Row, IInv, TypeOK
  <2> QED
    BY <1>1, <1>2, <1>12, <2>1, <2>2 DEF Backed, AddIf, Row, IInv, TypeOK
<1>20. Within(attempt)'
  <2>1. ASSUME ~Finished(attempt')
        PROVE  ~Finished(attempt) /\ ~Finished(new)
    <3>1. ~Finished(attempt) /\ ~Finished(seen)
      BY <1>1, <1>14, <2>1 DEF PastOf
    <3> QED
      BY <1>10, <2>1, <3>1 DEF Finished
  <2> QED
    BY <1>4, <1>12, <2>1 DEF Within, IInv
<1>21. TerminationIsEarned'
  <2>1. CASE new.termination_reason = seen.termination_reason /\ new.status = seen.status
    BY <1>1, <1>2, <1>10, <1>11, <2>1, LimitAssumption
       DEF TerminationIsEarned, AddIf, IInv, TypeOK
  <2>2. CASE ends
    <3>1. attempt'.termination_reason # "none"
      BY <1>1, <1>5, <1>11, <2>2 DEF PastOf, Cause
    <3>2. attempt'.termination_reason \in {attempt.termination_reason, Cause(seen, e, sev)}
      BY <1>5, <1>11, <2>2
    <3>3. logged = "violation"
      BY <2>2 DEF ends, logged, Terminates
    <3>4. Cause(seen, e, sev) = "violations" => events'.violation >= MaxViolations
      BY <1>1, <1>2, <2>2, <3>3, LimitAssumption
         DEF Cause, ends, Terminates, PastOf, Backed, AddIf, Row, IInv, TypeOK
    <3>5. Cause(seen, e, sev) = "warnings" => WarnLimit > 0 /\ events'.warning >= WarnLimit
      BY <1>1, <1>2, <3>3, LimitAssumption
         DEF Cause, Disqualifies, CountsAsWarning, PastOf, Backed, AddIf, Row,
             IInv, TypeOK
    <3> QED
      BY <1>2, <3>1, <3>2, <3>3, <3>4, <3>5, LimitAssumption
         DEF TerminationIsEarned, AddIf, IInv, TypeOK
  <2> QED
    BY <1>5, <2>1, <2>2
<1>22. Announced'
  <2>1. attempt'.high_risk_alert_sent => alerts' > 0
    <3>1. CASE attempt.high_risk_alert_sent
      BY <1>7, <3>1 DEF IInv, Announced, TypeOK
    <3>2. CASE ~attempt.high_risk_alert_sent
      <4>1. ~seen.high_risk_alert_sent
        BY <1>1, <3>2 DEF PastOf
      <4>2. Alerting(seen, new) => alerts' = alerts + 1
        BY <1>1a, <1>1c DEF AddIf
      <4> QED
        BY <1>1, <1>4, <1>13, <3>2, <4>1, <4>2 DEF Alerting, IInv, TypeOK, Row
    <3> QED
      BY <3>1, <3>2
  <2>2. events'.violation >= HighRiskAfter + unseen' => attempt'.high_risk_alert_sent
    <3>1. CASE logged = "violation"
      <4>1. events'.violation - unseen' <= seeing
        BY <1>1, <1>1b, <1>1c, <1>1d, <1>2, <3>1 DEF AddIf
      <4> QED
        BY <1>1c, <1>1d, <1>2, <1>5, <1>16, <3>1, <4>1, LimitAssumption
    <3>2. CASE logged # "violation"
      <4>1. events'.violation = events.violation
        BY <1>2, <3>2 DEF AddIf
      <4>2. events'.violation >= HighRiskAfter + unseen' =>
                events.violation >= HighRiskAfter + unseen
        BY <1>1, <1>1d, <4>1, LimitAssumption
      <4> QED
        BY <1>16, <4>2 DEF IInv, Announced, HighRiskIsAnnounced
    <3> QED
      BY <3>1, <3>2
  <2> QED
    BY <2>1, <2>2 DEF Announced, HighRiskIsAnnounced
<1>23. SeenIsPast'
  BY <1>3, <1>8, <1>17, DoneKeepsPast DEF IInv
<1> QED
  BY <1>8, <1>17, <1>18, <1>19, <1>20, <1>21, <1>22, <1>23 DEF IInv

LEMMA StepInvariant == IInv /\ [Next]_vars => IInv' /\ Advances
<1> SUFFICES ASSUME IInv, [Next]_vars
             PROVE  IInv' /\ Advances
  OBVIOUS
<1>1. CASE UNCHANGED vars
  <2>1. TypeOK'
    BY <1>1 DEF IInv, TypeOK, vars
  <2>2. SeenIsPast'
    BY <1>1 DEF IInv, SeenIsPast, PastOf, Backed, Within, Finished, vars
  <2> QED
    BY <1>1, <2>1, <2>2, DatabasePart, UnchangedAdvances
       DEF IInv, DatabaseUnchanged, vars
<1>2. CASE TimePasses
  <2>1. TypeOK'
    BY <1>2 DEF IInv, TypeOK, TimePasses
  <2>2. SeenIsPast'
    BY <1>2 DEF IInv, SeenIsPast, PastOf, Backed, Within, Finished, TimePasses
  <2> QED
    BY <1>2, <2>1, <2>2, DatabasePart, UnchangedAdvances
       DEF IInv, DatabaseUnchanged, TimePasses
<1> USE DEF DatabaseUnchanged
<1>3. /\ attempt \in Row /\ attempt.autosaved_answers \in Answers \cup {NoAnswers}
      /\ events.violation \in Nat
  BY DEF IInv, TypeOK, Row
<1>4. ASSUME NEW w \in Worker, NEW form \in Answers,
             BeginSubmit(w, form) \/ BeginAutosave(w, form)
      PROVE  IInv' /\ Advances
  BY <1>3, <1>4, LoadPreserves DEF BeginSubmit, BeginAutosave, Load, Task, Severities
<1>5. ASSUME NEW w \in Worker, NEW e \in EventType, NEW severity \in Severities,
             BeginEvent(w, e, severity)
      PROVE  IInv' /\ Advances
  BY <1>3, <1>5, LoadPreserves DEF BeginEvent, Load, Task
<1>6. ASSUME NEW w \in Worker, BeginTerminate(w) \/ BeginHeartbeat(w)
      PROVE  IInv' /\ Advances
  BY <1>3, <1>6, LoadPreserves DEF BeginTerminate, BeginHeartbeat, Load, Task, Severities
<1>7. ASSUME NEW w \in Worker, BeginExpire(w)
      PROVE  IInv' /\ Advances
  BY <1>3, <1>7, LoadPreserves, FormAssumption DEF BeginExpire, Load, Task, Severities
<1>8. ASSUME NEW w \in Worker, HeartbeatChecksIp(w)
      PROVE  IInv' /\ Advances
  BY <1>3, <1>8, LoadPreserves, PolicyAssumption DEF HeartbeatChecksIp, Task, Severities
<1>9. ASSUME NEW w \in Worker, HeartbeatPasses(w) \/ FinalizeFails(w) \/ Killed(w)
      PROVE  IInv' /\ Advances
  BY <1>9, QuietEndPreserves DEF HeartbeatPasses, FinalizeFails, Killed
<1>10. ASSUME NEW w \in Worker, CommitSubmit(w)
       PROVE  IInv' /\ Advances
  <2> DEFINE seen == task[w].seen
             form == task[w].form
  <2>1. Finalized(seen, form) =
            [Finalized(seen, form) EXCEPT !.termination_reason = seen.termination_reason]
    BY DEF Finalized, IInv, TypeOK, Task, Row
  <2> QED
    BY <1>10, <2>1, FinalizePreserves DEF CommitSubmit
<1>11. ASSUME NEW w \in Worker, CommitExpire(w)
       PROVE  IInv' /\ Advances
  BY <1>11, FinalizePreserves DEF CommitExpire
<1>12. ASSUME NEW w \in Worker,
              \/ CommitAutosave(w) \/ CommitTerminate(w)
              \/ CommitEvent(w) \/ KilledWhileAlerting(w)
       PROVE  IInv' /\ Advances
  BY <1>12, AutosavePreserves, TerminatePreserves, EventPreserves,
     KilledWhileAlertingPreserves
<1> QED
  BY <1>1, <1>2, <1>4, <1>5, <1>6, <1>7, <1>8, <1>9, <1>10, <1>11, <1>12 DEF Next

(* IInv is an invariant of the attempt's row under any number of requests. *)
THEOREM Invariance == Spec => []IInv
<1>1. IInv /\ [Next]_vars => IInv'
  BY StepInvariant
<1> QED
  BY <1>1, InitInvariant, PTL DEF Spec

----------------------------------------------------------------------------
(* The properties.                                                         *)

(* The row, the log and every request in flight keep their types.          *)
THEOREM TypeCorrect == Spec => []TypeOK
<1>1. IInv => TypeOK
  BY DEF IInv
<1> QED
  BY <1>1, Invariance, PTL

(* A submitted attempt is graded on exactly the answers that were stored,  *)
(* whatever submits, expiries and autosaves raced for it.                  *)
THEOREM GradedOnSubmission == Spec => []SubmittedIsGraded
<1>1. IInv => SubmittedIsGraded
  BY DEF IInv, Graded, SubmittedIsGraded
<1> QED
  BY <1>1, Invariance, PTL

(* No interleaving leaves a running attempt past a limit it was charged.   *)
THEOREM Limits == Spec => []RunningIsWithinLimits
<1>1. IInv => RunningIsWithinLimits
  BY DEF IInv, Within, RunningIsWithinLimits
<1> QED
  BY <1>1, Invariance, PTL

(* Every count charged to the attempt is backed by the log.                *)
THEOREM Counts == Spec => []CountsBackedByLog
<1>1. IInv => CountsBackedByLog
  BY DEF IInv, Backed, CountsBackedByLog
<1> QED
  BY <1>1, Invariance, PTL

(* The reason given for a termination is true of the log.                  *)
THEOREM EarnedTermination == Spec => []TerminationIsEarned
<1>1. IInv => TerminationIsEarned
  BY DEF IInv
<1> QED
  BY <1>1, Invariance, PTL

(* Enough violations in the log, beyond those a database hid from the      *)
(* requests that logged them, have been announced to the proctors.         *)
THEOREM Announcement == Spec => []HighRiskIsAnnounced
<1>1. IInv => HighRiskIsAnnounced
  BY DEF IInv, Announced
<1> QED
  BY <1>1, Invariance, PTL

(* No stale commit brings a finished attempt back into progress.           *)
THEOREM NoRevival == Spec => FinishedStaysFinished
<1>1. IInv /\ [Next]_vars => [Finished(attempt) => Finished(attempt')]_vars
  BY StepInvariant DEF Advances
<1> QED
  BY <1>1, Invariance, PTL DEF Spec, FinishedStaysFinished

(* Graded answers, and the score they were given, are never replaced.      *)
THEOREM WrittenOnce == Spec => AnswersWrittenOnce
<1>1. IInv /\ [Next]_vars =>
        [answers # NoAnswers =>
             answers' = answers /\ attempt'.score = attempt.score]_vars
  BY StepInvariant DEF Advances, IInv, Graded
<1> QED
  BY <1>1, Invariance, PTL DEF Spec, AnswersWrittenOnce

----------------------------------------------------------------------------
(***************************************************************************)
(* The score, the notices and the conclusion of an attempt (Grading), for  *)
(* every set of questions, versions, grades and callers.  What Total adds  *)
(* up is a fold, about which nothing can be proved here by induction: the  *)
(* proofs use only that it is the same function of the same rows.  So the  *)
(* types below leave the type of the score out.                            *)
(***************************************************************************)

Ungraded == [q \in Question |-> Nothing]

LoadTyped(l) ==
    /\ l.op \in {"submit", "grade", "regrade", "notify"} =>
          l.question \in Questions /\ l.manual \in Grades
    /\ l.op = "review" => l.review \in Review \cup {Nothing} /\ l.decision \in Decision

Memory ==
    [calls : Nat, finals : Nat, notices : Nat, lapses : Nat, overlaps : Nat,
     said : [Call -> Decision \cup {Nothing}]]

GhostTyped == ghost \in Memory

RowsTyped ==
    /\ question \in Questions /\ manual \in Grades
    /\ submitted \in BOOLEAN /\ certificate \in BOOLEAN
    /\ review \in Review \cup {Nothing}

CallsTyped ==
    /\ call = [c \in Call |-> call[c]]
    /\ \A c \in Call : LoadTyped(call[c])

(* What a call loaded says where the attempt stood then.                   *)
LoadedThen(c) ==
    LET l == call[c] IN
    /\ l.op = "submit" => l.manual = Ungraded
    /\ l.op = "grade" =>
          /\ l.answered => submitted
          /\ l.pending = (l.answered /\ Pending(l.question, l.manual))
    /\ l.op = "certify" => ghost.finals > 0

(* The calls that are about to announce the result, if nothing intervenes. *)
Announcing ==
    {c \in Call : call[c].op = "notify" /\ ~Pending(call[c].question, call[c].manual)}

Published ==
    /\ IsFiniteSet(Announcing)
    /\ Cardinality(Announcing) + ghost.notices <= ghost.finals + ghost.overlaps
    /\ submitted /\ ~Pending(question, manual) => ghost.finals > 0
    /\ certificate => ghost.finals > 0

GradingIInv ==
    /\ RowsTyped /\ CallsTyped /\ GhostTyped
    /\ \A c \in Call : LoadedThen(c)
    /\ ~submitted => manual = Ungraded
    /\ Published
    /\ ScoreIsTotal
    /\ SignedByDecider

(* A call's step replaces what that call holds, and nobody else's.         *)
LEMMA OneCall ==
    ASSUME CallsTyped, NEW c \in Call, NEW l, call' = [call EXCEPT ![c] = l]
    PROVE  /\ call' = [d \in Call |-> call'[d]]
           /\ \A d \in Call : call'[d] = IF d = c THEN l ELSE call[d]
  BY DEF CallsTyped

LEMMA OneCallTyped ==
    ASSUME CallsTyped, NEW c \in Call, NEW l, call' = [call EXCEPT ![c] = l],
           LoadTyped(l)
    PROVE  CallsTyped'
  <1>1. \A d \in Call : LoadTyped(call[d])'
    <2>1. TAKE d \in Call
    <2>2. CASE d = c
      BY <2>2, OneCall DEF LoadTyped
    <2>3. CASE d # c
      <3>1. call'[d] = call[d]
        BY <2>3, OneCall
      <3>2. LoadTyped(call[d])
        BY DEF CallsTyped
      <3>. QED  BY <3>1, <3>2 DEF LoadTyped
    <2>. QED  BY <2>2, <2>3
  <1>. QED  BY <1>1, OneCall DEF CallsTyped

LEMMA FreeTyped == LoadTyped(Free)
  BY DEF LoadTyped, Free

(* What Rows does to the memory of the properties.                         *)
LEMMA RowsGhost ==
    ASSUME NEW qs, NEW gs, NEW sub, NEW g, Rows(qs, gs, sub, g), g \in Memory
    PROVE  /\ GhostTyped'
           /\ ghost'.notices = g.notices /\ ghost'.overlaps = g.overlaps
           /\ ghost'.lapses = g.lapses /\ ghost'.said = g.said
           /\ ghost'.finals >= g.finals
           /\ question' = qs /\ manual' = gs /\ submitted' = sub
           /\ submitted' /\ ~Pending(question', manual')
              => \/ ghost'.finals = g.finals + 1
                 \/ submitted /\ ~Pending(question, manual)
  BY DEF Rows, GhostTyped, Memory

LEMMA OverlappedGhost ==
    ASSUME NEW g, NEW b, g \in Memory
    PROVE  /\ Overlapped(g, b) \in Memory
           /\ Overlapped(g, b).overlaps = IF b THEN g.overlaps + 1 ELSE g.overlaps
           /\ Overlapped(g, b).finals = g.finals /\ Overlapped(g, b).notices = g.notices
           /\ Overlapped(g, b).lapses = g.lapses /\ Overlapped(g, b).said = g.said
  BY DEF Overlapped, Memory

LEMMA CalledGhost ==
    ASSUME GhostTyped
    PROVE  /\ Called \in Memory
           /\ Called.overlaps = ghost.overlaps /\ Called.finals = ghost.finals
           /\ Called.notices = ghost.notices /\ Called.lapses = ghost.lapses
           /\ Called.said = ghost.said
  BY DEF Called, GhostTyped, Memory

----------------------------------------------------------------------------

LEMMA GradingStart == GradingInit => GradingIInv
  <1> SUFFICES ASSUME GradingInit PROVE GradingIInv
    OBVIOUS
  <1> USE DEF GradingInit
  <1>1. RowsTyped /\ CallsTyped /\ GhostTyped
    BY VersionAssumption, NumberAssumption
    DEF RowsTyped, CallsTyped, GhostTyped, Memory, LoadTyped, Questions, Grades, Free
  <1>2. \A c \in Call : LoadedThen(c)
    BY DEF LoadedThen, Free
  <1>3. Announcing = {}
    BY DEF Announcing, Free
  <1>4. Published
    BY <1>3, FS_EmptySet DEF Published
  <1>. QED
    BY <1>1, <1>2, <1>4 DEF GradingIInv, ScoreIsTotal, SignedByDecider, Ungraded

(* The first load of a call, and the end of one that writes no row.        *)
LEMMA BeginTyped ==
    ASSUME GradingIInv, NEW c \in Call, NEW l, Begin(c, l), LoadTyped(l)
    PROVE  (RowsTyped /\ CallsTyped /\ GhostTyped)'
  <1>1. CallsTyped'
    BY OneCallTyped DEF Begin, Goto, GradingIInv
  <1>. QED
    BY <1>1, CalledGhost DEF Begin, Goto, GradingIInv, RowsTyped, GhostTyped

LEMMA EnteredTyped ==
    ASSUME NEW l, l.question \in Questions, l.manual \in Grades, NEW new \in Entered(l)
    PROVE  new \in Grades
  <1>1. PICK given \in SUBSET HandGraded(l), value \in Typed :
            new = [q \in Question |-> IF q \in given THEN Clamped(value, l.question[q])
                                                     ELSE l.manual[q]]
    BY DEF Entered
  <1>2. ASSUME NEW q \in given
        PROVE  q \in Question /\ Clamped(value, l.question[q]) \in 0 .. MaxWorth
    <2>1. q \in Question /\ l.question[q] \in Version /\ value \in Int
      BY NumberAssumption DEF Questions, HandGraded
    <2>2. l.question[q].worth \in 0 .. MaxWorth
      BY <2>1, VersionAssumption
    <2>. QED  BY <2>1, <2>2, NumberAssumption DEF Clamped
  <1>. QED
    BY <1>1, <1>2 DEF Grades

LEMMA GradesTyped ==
    ASSUME RowsTyped, NEW l, l.question \in Questions, l.manual \in Grades,
           NEW new \in Entered(l), GradesSaved(l, new)
    PROVE  manual' \in Grades
  <1>1. new \in Grades
    BY EnteredTyped
  <1>2. manual' = [q \in Question |-> Written(new[q], l.manual[q], manual[q])]
    BY DEF GradesSaved, Rows
  <1>. QED
    BY <1>1, <1>2 DEF Grades, Written, RowsTyped

(* The grades of a call leave the questions and the submission alone, and  *)
(* overlap with whatever changed since it loaded them.                     *)
Moved(l) == Stale(l) \/ l.answered # submitted

LEMMA GradeRows ==
    ASSUME NEW c \in Call, CommitGrade(c) \/ GradeFails(c)
    PROVE  Rows(question, manual', submitted, Overlapped(ghost, Moved(call[c])))
  <1>1. PICK gs : Rows(question, gs, submitted, Overlapped(ghost, Moved(call[c])))
    BY DEF CommitGrade, GradeFails, GradesSaved, Moved
  <1>2. gs = manual'
    BY <1>1 DEF Rows
  <1>. QED  BY <1>1, <1>2

(* No answers, no grades: nothing changes when none were loaded.           *)
LEMMA NothingEntered ==
    ASSUME RowsTyped, NEW c \in Call, CommitGrade(c) \/ GradeFails(c),
           LoadTyped(call[c]), ~call[c].answered
    PROVE  manual' = manual
  <1> DEFINE l == call[c]
  <1>1. PICK new \in Entered(l) : GradesSaved(l, new)
    BY DEF CommitGrade, GradeFails
  <1>2. l.manual \in Grades
    BY DEF LoadTyped, CommitGrade, GradeFails
  <1>3. HandGraded(l) = {}
    BY DEF HandGraded
  <1>4. new = [q \in Question |-> l.manual[q]]
    <2> HIDE DEF l
    <2>1. PICK given \in SUBSET HandGraded(l), value \in Typed :
              new = [q \in Question |-> IF q \in given THEN Clamped(value, l.question[q])
                                                       ELSE l.manual[q]]
      BY <1>1 DEF Entered
    <2>2. given = {}
      BY <1>3
    <2>. QED  BY <2>1, <2>2
  <1>5. manual' = [q \in Question |-> manual[q]]
    BY <1>1, <1>4 DEF GradesSaved, Rows, Written
  <1>. QED  BY <1>5 DEF RowsTyped, Grades

LEMMA GradingTypes ==
    ASSUME GradingIInv, [GradingNext]_gradingVars
    PROVE  (RowsTyped /\ CallsTyped /\ GhostTyped)'
  <1>0. RowsTyped /\ CallsTyped /\ GhostTyped
    BY DEF GradingIInv
  <1> USE <1>0
  <1>1. CASE UNCHANGED gradingVars
    BY <1>1 DEF gradingVars, RowsTyped, CallsTyped, GhostTyped, LoadTyped
  <1>2. ASSUME NEW c \in Call, LoadSubmission(c) \/ LoadGrade(c) \/ LoadDownload(c)
        PROVE  (RowsTyped /\ CallsTyped /\ GhostTyped)'
    BY <1>2, BeginTyped DEF LoadSubmission, LoadGrade, LoadDownload, LoadTyped, RowsTyped
  <1>3. ASSUME NEW c \in Call, NEW d \in Decision, LoadReview(c, d)
        PROVE  (RowsTyped /\ CallsTyped /\ GhostTyped)'
    BY <1>3, BeginTyped DEF LoadReview, LoadTyped, RowsTyped
  <1>4. ASSUME NEW c \in Call, CommitSubmission(c)
        PROVE  (RowsTyped /\ CallsTyped /\ GhostTyped)'
    <2>1. CallsTyped'
      BY <1>4, OneCallTyped DEF CommitSubmission, Goto, LoadTyped, RowsTyped
    <2>2. GhostTyped'
      BY <1>4, OverlappedGhost, RowsGhost DEF CommitSubmission, GhostTyped
    <2>. QED  BY <1>4, <2>1, <2>2 DEF CommitSubmission, Rows, RowsTyped
  <1>5. ASSUME NEW c \in Call, CommitGrade(c) \/ GradeFails(c)
        PROVE  (RowsTyped /\ CallsTyped /\ GhostTyped)'
    <2>1. LoadTyped(call[c]) /\ call[c].op = "grade"
      BY <1>5 DEF CommitGrade, GradeFails, CallsTyped
    <2>2. manual' \in Grades
      <3>1. PICK new \in Entered(call[c]) : GradesSaved(call[c], new)
        BY <1>5 DEF CommitGrade, GradeFails
      <3>2. call[c].question \in Questions /\ call[c].manual \in Grades
        BY <2>1 DEF LoadTyped
      <3>. QED  BY <3>1, <3>2, GradesTyped
    <2>3. CallsTyped'
      <3>1. \/ call' = [call EXCEPT ![c] = Free]
            \/ call' = [call EXCEPT ![c] = [op |-> "notify", question |-> question,
                                           manual |-> manual']]
        BY <1>5 DEF CommitGrade, GradeFails, Goto
      <3>. QED  BY <2>2, <3>1, OneCallTyped, FreeTyped DEF LoadTyped, RowsTyped
    <2>4. Rows(question, manual', submitted, Overlapped(ghost, Moved(call[c])))
      BY <1>5, GradeRows
    <2>5. GhostTyped'
      BY <2>4, OverlappedGhost, RowsGhost DEF GhostTyped
    <2>. QED
      BY <1>5, <2>2, <2>3, <2>4, <2>5 DEF CommitGrade, GradeFails, Rows, RowsTyped
  <1>6. ASSUME NEW c \in Call, Notify(c) \/ GiveUp(c)
        PROVE  (RowsTyped /\ CallsTyped /\ GhostTyped)'
    <2>1. CallsTyped'
      BY <1>6, OneCallTyped, FreeTyped DEF Notify, GiveUp
    <2>2. GhostTyped'
      BY <1>6, OverlappedGhost DEF Notify, GiveUp, GhostTyped, Memory
    <2>. QED  BY <1>6, <2>1, <2>2 DEF Notify, GiveUp, RowsTyped
  <1>7. ASSUME NEW c \in Call, LoadRegrade(c) \/ CommitRegrade(c) \/ CommitDownload(c)
        PROVE  (RowsTyped /\ CallsTyped /\ GhostTyped)'
    <2>1. CallsTyped'
      BY <1>7, OneCallTyped, FreeTyped
      DEF LoadRegrade, CommitRegrade, CommitDownload, LoadTyped, RowsTyped
    <2>2. GhostTyped'
      BY <1>7, OverlappedGhost DEF LoadRegrade, CommitRegrade, CommitDownload, GhostTyped
    <2>. QED
      BY <1>7, <2>1, <2>2 DEF LoadRegrade, CommitRegrade, CommitDownload, RowsTyped
  <1>8. ASSUME NEW c \in Call, CommitReview(c)
        PROVE  (RowsTyped /\ CallsTyped /\ GhostTyped)'
    <2>1. LoadTyped(call[c]) /\ call[c].op = "review"
      BY <1>8 DEF CommitReview, CallsTyped
    <2>2. CallsTyped'
      BY <1>8, OneCallTyped, FreeTyped DEF CommitReview
    <2>3. [ghost EXCEPT !.said[c] = call[c].decision] \in Memory
      BY <2>1 DEF GhostTyped, Memory, LoadTyped
    <2>4. GhostTyped'
      BY <1>8, <2>3, OverlappedGhost DEF CommitReview, GhostTyped
    <2>5. review' \in Review
      BY <1>8, <2>1 DEF CommitReview, Concluded, Written, RowsTyped, Review, LoadTyped
    <2>. QED  BY <1>8, <2>2, <2>4, <2>5 DEF CommitReview, RowsTyped
  <1>9. ASSUME NEW c \in Call, NEW q \in Question, NEW v \in Version, Edit(c, q, v)
        PROVE  (RowsTyped /\ CallsTyped /\ GhostTyped)'
    <2>1. LoadTyped([op |-> "edited"])
      BY DEF LoadTyped
    <2>2. CallsTyped'
      <3>1. CASE call' = [call EXCEPT ![c] = [op |-> "edited"]]
        BY <3>1, <2>1, OneCallTyped
      <3>2. CASE UNCHANGED call
        BY <3>2 DEF CallsTyped, LoadTyped
      <3>. QED  BY <1>9, <3>1, <3>2 DEF Edit
    <2>3. [Called EXCEPT !.lapses = @ + 1] \in Memory
      BY CalledGhost DEF Memory
    <2>4. GhostTyped'
      BY <1>9, <2>3, CalledGhost, RowsGhost DEF Edit
    <2>5. [question EXCEPT ![q] = v] \in Questions
      BY DEF RowsTyped, Questions
    <2>. QED  BY <1>9, <2>2, <2>4, <2>5 DEF Edit, Rows, RowsTyped
  <1>10. ASSUME NEW q \in Question, DeleteQuestion(q)
         PROVE  (RowsTyped /\ CallsTyped /\ GhostTyped)'
    <2>1. GhostTyped'
      BY <1>10, CalledGhost, RowsGhost DEF DeleteQuestion
    <2>2. [question EXCEPT ![q] = Deleted] \in Questions
      BY DEF RowsTyped, Questions
    <2>. QED
      BY <1>10, <2>1, <2>2 DEF DeleteQuestion, Rows, RowsTyped, CallsTyped, LoadTyped
  <1>. QED
    BY <1>1, <1>2, <1>3, <1>4, <1>5, <1>6, <1>7, <1>8, <1>9, <1>10 DEF GradingNext

(* The properties' counters only grow, and a submission stands.            *)
LEMMA CountersGrow ==
    ASSUME GradingIInv, [GradingNext]_gradingVars
    PROVE  /\ ghost'.finals >= ghost.finals /\ ghost'.overlaps >= ghost.overlaps
           /\ ghost'.lapses >= ghost.lapses
           /\ submitted => submitted'
  <1>0. GhostTyped
    BY DEF GradingIInv
  <1> USE <1>0
  <1>1. CASE UNCHANGED gradingVars
    BY <1>1 DEF gradingVars, GhostTyped, Memory
  <1>2. ASSUME NEW c \in Call,
               LoadSubmission(c) \/ LoadGrade(c) \/ LoadDownload(c)
                 \/ \E d \in Decision : LoadReview(c, d)
        PROVE  ghost'.finals >= ghost.finals /\ ghost'.overlaps >= ghost.overlaps
                 /\ ghost'.lapses >= ghost.lapses /\ (submitted => submitted')
    BY <1>2, CalledGhost DEF LoadSubmission, LoadGrade, LoadDownload, LoadReview, Begin, Goto,
       GhostTyped, Memory
  <1>3. ASSUME NEW c \in Call, CommitSubmission(c) \/ CommitGrade(c) \/ GradeFails(c)
        PROVE  ghost'.finals >= ghost.finals /\ ghost'.overlaps >= ghost.overlaps
                 /\ ghost'.lapses >= ghost.lapses /\ (submitted => submitted')
    <2>1. CASE CommitSubmission(c)
      <3>1. PICK b : Rows(question, manual, TRUE, Overlapped(ghost, b))
        BY <2>1 DEF CommitSubmission
      <3>2. /\ Overlapped(ghost, b) \in Memory
            /\ Overlapped(ghost, b).finals = ghost.finals
            /\ Overlapped(ghost, b).lapses = ghost.lapses
            /\ Overlapped(ghost, b).overlaps >= ghost.overlaps
        BY OverlappedGhost DEF GhostTyped, Memory
      <3>3. /\ ghost'.finals >= Overlapped(ghost, b).finals
            /\ ghost'.overlaps = Overlapped(ghost, b).overlaps
            /\ ghost'.lapses = Overlapped(ghost, b).lapses
            /\ submitted' = TRUE
        BY <3>1, <3>2, RowsGhost
      <3>. QED
        BY <3>2, <3>3 DEF GhostTyped, Memory
    <2>2. CASE CommitGrade(c) \/ GradeFails(c)
      BY <2>2, GradeRows, OverlappedGhost, RowsGhost DEF Rows, GhostTyped, Memory
    <2>. QED  BY <1>3, <2>1, <2>2
  <1>4. ASSUME NEW c \in Call, Notify(c) \/ LoadRegrade(c) \/ CommitRegrade(c)
                                 \/ CommitDownload(c) \/ GiveUp(c)
        PROVE  ghost'.finals >= ghost.finals /\ ghost'.overlaps >= ghost.overlaps
                 /\ ghost'.lapses >= ghost.lapses /\ (submitted => submitted')
    BY <1>4, OverlappedGhost DEF Notify, LoadRegrade, CommitRegrade, CommitDownload, GiveUp,
       GhostTyped, Memory
  <1>5. ASSUME NEW c \in Call, CommitReview(c)
        PROVE  ghost'.finals >= ghost.finals /\ ghost'.overlaps >= ghost.overlaps
                 /\ ghost'.lapses >= ghost.lapses /\ (submitted => submitted')
    BY <1>5 DEF CommitReview, Overlapped, GhostTyped, Memory
  <1>6. ASSUME NEW c \in Call, NEW q \in Question, NEW v \in Version,
               Edit(c, q, v) \/ DeleteQuestion(q)
        PROVE  ghost'.finals >= ghost.finals /\ ghost'.overlaps >= ghost.overlaps
                 /\ ghost'.lapses >= ghost.lapses /\ (submitted => submitted')
    <2>1. PICK qs, g : /\ Rows(qs, manual, submitted, g)
                       /\ g \in {Called, [Called EXCEPT !.lapses = @ + 1]}
      BY <1>6 DEF Edit, DeleteQuestion
    <2>2. g \in Memory /\ g.finals = ghost.finals /\ g.overlaps = ghost.overlaps
            /\ g.lapses >= ghost.lapses
      BY <2>1, CalledGhost DEF Memory, GhostTyped
    <2>. QED
      BY <2>1, <2>2, RowsGhost DEF Rows, GhostTyped, Memory
  <1>7. ASSUME NEW q \in Question, DeleteQuestion(q)
        PROVE  ghost'.finals >= ghost.finals /\ ghost'.overlaps >= ghost.overlaps
                 /\ ghost'.lapses >= ghost.lapses /\ (submitted => submitted')
    BY <1>7, CalledGhost, RowsGhost DEF DeleteQuestion, Rows, GhostTyped, Memory
  <1>. QED
    BY <1>1, <1>2, <1>3, <1>4, <1>5, <1>6, <1>7 DEF GradingNext

(* What a call has loaded stays true of the attempt's past.                *)
LEMMA ThenStep ==
    ASSUME GradingIInv, [GradingNext]_gradingVars
    PROVE  /\ \A c \in Call : LoadedThen(c)'
           /\ (~submitted => manual = Ungraded)'
  <1>0. /\ CallsTyped /\ GhostTyped /\ \A c \in Call : LoadedThen(c)
        /\ ~submitted => manual = Ungraded
    BY DEF GradingIInv
  <1>1. ASSUME NEW c \in Call, call'[c] = call[c]
        PROVE  LoadedThen(c)'
    <2>1. LoadedThen(c) /\ ghost.finals \in Nat /\ ghost'.finals \in Nat
      BY <1>0, GradingTypes DEF GhostTyped, Memory
    <2>2. (submitted => submitted') /\ ghost'.finals >= ghost.finals
      BY CountersGrow
    <2>. QED
      BY <1>1, <2>1, <2>2 DEF LoadedThen
  <1>2. ASSUME NEW c \in Call, NEW l, call' = [call EXCEPT ![c] = l],
               LoadedThen(c)'
        PROVE  \A d \in Call : LoadedThen(d)'
    BY <1>0, <1>1, <1>2, OneCall
  <1>3. ASSUME NEW c \in Call, NEW l, call' = [call EXCEPT ![c] = l],
               l.op \notin {"submit", "grade", "certify"}
        PROVE  \A d \in Call : LoadedThen(d)'
    <2>1. call'[c] = l
      BY <1>0, <1>3, OneCall
    <2>2. LoadedThen(c)'
      BY <1>3, <2>1 DEF LoadedThen
    <2>. QED  BY <1>2, <1>3, <2>2
  <1>4. ASSUME UNCHANGED call
        PROVE  \A d \in Call : LoadedThen(d)'
    BY <1>1, <1>4
  <1>5. ASSUME NEW c \in Call, LoadSubmission(c)
        PROVE  \A d \in Call : LoadedThen(d)'
    <2>1. LoadedThen(c)'
      BY <1>0, <1>5, OneCall DEF LoadSubmission, Begin, Goto, LoadedThen, Ungraded
    <2>. QED  BY <1>2, <1>5, <2>1 DEF LoadSubmission, Begin, Goto
  <1>6. ASSUME NEW c \in Call, LoadGrade(c)
        PROVE  \A d \in Call : LoadedThen(d)'
    <2>1. LoadedThen(c)'
      BY <1>0, <1>6, OneCall DEF LoadGrade, Begin, Goto, LoadedThen, Pending
    <2>. QED  BY <1>2, <1>6, <2>1 DEF LoadGrade, Begin, Goto
  <1>7. ASSUME NEW c \in Call, LoadDownload(c)
        PROVE  \A d \in Call : LoadedThen(d)'
    <2>1. ghost.finals > 0
      BY <1>7 DEF LoadDownload, Eligible, Final, GradingIInv, Published
    <2>2. LoadedThen(c)'
      BY <1>0, <1>7, <2>1, OneCall, CalledGhost DEF LoadDownload, Begin, Goto, LoadedThen
    <2>. QED  BY <1>2, <1>7, <2>2 DEF LoadDownload, Begin, Goto
  <1>8. ASSUME NEW c \in Call,
               \/ CommitSubmission(c) \/ CommitGrade(c) \/ GradeFails(c) \/ Notify(c)
               \/ LoadRegrade(c) \/ CommitRegrade(c) \/ CommitDownload(c)
               \/ CommitReview(c) \/ GiveUp(c)
        PROVE  \A d \in Call : LoadedThen(d)'
    <2>1. CASE call' = [call EXCEPT ![c] = Free]
      BY <1>3, <2>1 DEF Free
    <2>2. CASE \E qs, gs : call' = [call EXCEPT ![c] =
                             [op |-> "notify", question |-> qs, manual |-> gs]]
      BY <1>3, <2>2
    <2>3. CASE call' = [call EXCEPT ![c] = [op |-> "regrade", question |-> question,
                                            manual |-> manual, score |-> score]]
      BY <1>3, <2>3
    <2>. QED
      BY <1>8, <2>1, <2>2, <2>3
      DEF CommitSubmission, CommitGrade, GradeFails, Goto, Notify, LoadRegrade, CommitRegrade,
          CommitDownload, CommitReview, GiveUp
  <1>8a. ASSUME NEW c \in Call, NEW d \in Decision, LoadReview(c, d)
         PROVE  \A e \in Call : LoadedThen(e)'
    BY <1>3, <1>8a DEF LoadReview, Begin, Goto
  <1>9. ASSUME NEW c \in Call, NEW q \in Question, NEW v \in Version, Edit(c, q, v)
        PROVE  \A d \in Call : LoadedThen(d)'
    BY <1>3, <1>4, <1>9 DEF Edit
  <1>10. \A d \in Call : LoadedThen(d)'
    BY <1>4, <1>5, <1>6, <1>7, <1>8, <1>8a, <1>9 DEF GradingNext, DeleteQuestion, gradingVars
  <1>11. ASSUME NEW c \in Call, CommitGrade(c) \/ GradeFails(c)
         PROVE  manual' = manual \/ submitted
    <2>1. LoadedThen(c) /\ LoadTyped(call[c]) /\ RowsTyped
      BY <1>0 DEF GradingIInv, CallsTyped
    <2>2. call[c].answered => submitted
      BY <1>11, <2>1 DEF CommitGrade, GradeFails, LoadedThen
    <2>. QED  BY <1>11, <2>1, <2>2, NothingEntered
  <1>12. manual' = manual \/ \E c \in Call : CommitGrade(c) \/ GradeFails(c)
    <2>1. ASSUME NEW c \in Call,
                 \/ LoadSubmission(c) \/ LoadGrade(c) \/ LoadDownload(c)
                 \/ CommitSubmission(c) \/ Notify(c) \/ LoadRegrade(c) \/ CommitRegrade(c)
                 \/ CommitDownload(c) \/ CommitReview(c) \/ GiveUp(c)
          PROVE  manual' = manual
      BY <2>1 DEF LoadSubmission, LoadGrade, LoadDownload, Begin, Goto, CommitSubmission, Notify,
         LoadRegrade, CommitRegrade, CommitDownload, CommitReview, GiveUp, Rows
    <2>2. ASSUME NEW c \in Call, NEW d \in Decision, LoadReview(c, d)
          PROVE  manual' = manual
      BY <2>2 DEF LoadReview, Begin, Goto
    <2>3. ASSUME NEW c \in Call, NEW q \in Question, NEW v \in Version, Edit(c, q, v)
          PROVE  manual' = manual
      BY <2>3 DEF Edit, Rows
    <2>4. ASSUME NEW q \in Question, DeleteQuestion(q)
          PROVE  manual' = manual
      BY <2>4 DEF DeleteQuestion, Rows
    <2>. QED
      BY <2>1, <2>2, <2>3, <2>4 DEF GradingNext, gradingVars
  <1>13. (~submitted => manual = Ungraded)'
    BY <1>0, <1>11, <1>12, CountersGrow DEF Ungraded
  <1>. QED  BY <1>10, <1>13

(* Every announcement under way was paid for by a completed grading or by  *)
(* an overlap.                                                             *)
LEMMA AnnouncingGrows ==
    ASSUME NEW c \in Call, \A d \in Call \ {c} : call'[d] = call[d]
    PROVE  Announcing' = IF call'[c].op = "notify"
                            /\ ~Pending(call'[c].question, call'[c].manual)
                         THEN Announcing \cup {c} ELSE Announcing \ {c}
  <1>1. Announcing' =
          {d \in Call : call'[d].op = "notify" /\ ~Pending(call'[d].question, call'[d].manual)}
    BY DEF Announcing
  <1>. QED
    BY <1>1 DEF Announcing

LEMMA OneMore ==
    ASSUME NEW S, NEW x, IsFiniteSet(S)
    PROVE  /\ IsFiniteSet(S \cup {x}) /\ Cardinality(S \cup {x}) \in Nat
           /\ Cardinality(S \cup {x}) <= Cardinality(S) + 1
  <1>1. Cardinality(S) \in Nat
    BY FS_CardinalityType
  <1>2. /\ IsFiniteSet(S \cup {x})
        /\ Cardinality(S \cup {x}) = IF x \in S THEN Cardinality(S) ELSE Cardinality(S) + 1
    BY FS_AddElement
  <1>. QED  BY <1>1, <1>2

LEMMA OneLess ==
    ASSUME NEW S, NEW x, IsFiniteSet(S)
    PROVE  /\ IsFiniteSet(S \ {x}) /\ Cardinality(S \ {x}) \in Nat
           /\ Cardinality(S \ {x}) <= Cardinality(S)
           /\ x \in S => Cardinality(S \ {x}) + 1 <= Cardinality(S)
  <1>1. Cardinality(S) \in Nat
    BY FS_CardinalityType
  <1>2. /\ IsFiniteSet(S \ {x})
        /\ Cardinality(S \ {x}) = IF x \in S THEN Cardinality(S) - 1 ELSE Cardinality(S)
    BY FS_RemoveElement
  <1>3. Cardinality(S \ {x}) \in Nat
    BY <1>2, FS_CardinalityType
  <1>. QED  BY <1>1, <1>2, <1>3

LEMMA AnnouncingKept ==
    ASSUME GradingIInv, NEW c \in Call, \A d \in Call \ {c} : call'[d] = call[d]
    PROVE  /\ IsFiniteSet(Announcing')
           /\ Cardinality(Announcing') \in Nat
           /\ Cardinality(Announcing') <= Cardinality(Announcing) + 1
           /\ call'[c].op # "notify" \/ Pending(call'[c].question, call'[c].manual)
              => /\ Cardinality(Announcing') <= Cardinality(Announcing)
                 /\ c \in Announcing => Cardinality(Announcing') + 1 <= Cardinality(Announcing)
  <1>1. IsFiniteSet(Announcing) /\ CallsTyped
    BY DEF GradingIInv, Published
  <1>2. /\ IsFiniteSet(Announcing \cup {c})
        /\ Cardinality(Announcing \cup {c}) \in Nat
        /\ Cardinality(Announcing \cup {c}) <= Cardinality(Announcing) + 1
    BY <1>1, OneMore
  <1>3. /\ IsFiniteSet(Announcing \ {c})
        /\ Cardinality(Announcing \ {c}) \in Nat
        /\ Cardinality(Announcing \ {c}) <= Cardinality(Announcing)
        /\ c \in Announcing => Cardinality(Announcing \ {c}) + 1 <= Cardinality(Announcing)
    BY <1>1, OneLess
  <1>0. Cardinality(Announcing) \in Nat
    BY <1>1, FS_CardinalityType
  <1>4. \/ /\ call'[c].op = "notify" /\ ~Pending(call'[c].question, call'[c].manual)
           /\ Announcing' = Announcing \cup {c}
        \/ /\ ~(call'[c].op = "notify" /\ ~Pending(call'[c].question, call'[c].manual))
           /\ Announcing' = Announcing \ {c}
    BY AnnouncingGrows
  <1>. QED
    BY <1>0, <1>2, <1>3, <1>4

LEMMA PublishedStep ==
    ASSUME GradingIInv, [GradingNext]_gradingVars
    PROVE  Published'
  <1>0. /\ RowsTyped /\ CallsTyped /\ GhostTyped
        /\ \A c \in Call : LoadedThen(c)
        /\ Published
    BY DEF GradingIInv
  <1>1. GhostTyped' /\ ghost'.finals >= ghost.finals
    BY GradingTypes, CountersGrow
  <1>2. /\ ghost.finals \in Nat /\ ghost.notices \in Nat /\ ghost.overlaps \in Nat
        /\ ghost'.finals \in Nat /\ ghost'.notices \in Nat /\ ghost'.overlaps \in Nat
        /\ IsFiniteSet(Announcing) /\ Cardinality(Announcing) \in Nat
        /\ Cardinality(Announcing) + ghost.notices <= ghost.finals + ghost.overlaps
    BY <1>0, <1>1, FS_CardinalityType DEF GhostTyped, Memory, Published
  (* The two parts that do not count. *)
  <1>3. (submitted /\ ~Pending(question, manual) => ghost.finals > 0)'
    <2>1. ASSUME NEW qs, NEW gs, NEW sub, NEW g, Rows(qs, gs, sub, g), g \in Memory,
                 g.finals = ghost.finals
          PROVE  (submitted /\ ~Pending(question, manual) => ghost.finals > 0)'
      <3>1. submitted' /\ ~Pending(question', manual')
            => \/ ghost'.finals = ghost.finals + 1
               \/ submitted /\ ~Pending(question, manual)
        BY <2>1, RowsGhost
      <3>. QED
        BY <1>0, <1>1, <1>2, <3>1 DEF Published
    <2>2. ASSUME UNCHANGED <<question, manual, submitted>>
          PROVE  (submitted /\ ~Pending(question, manual) => ghost.finals > 0)'
      BY <1>0, <1>1, <1>2, <2>2 DEF Published
    <2>3. ASSUME NEW c \in Call, CommitSubmission(c)
          PROVE  (submitted /\ ~Pending(question, manual) => ghost.finals > 0)'
      BY <1>0, <2>1, <2>3, OverlappedGhost DEF CommitSubmission, GhostTyped
    <2>4. ASSUME NEW c \in Call, CommitGrade(c) \/ GradeFails(c)
          PROVE  (submitted /\ ~Pending(question, manual) => ghost.finals > 0)'
      <3>1. Overlapped(ghost, Moved(call[c])) \in Memory
        BY <1>0, OverlappedGhost DEF GhostTyped
      <3>2. Overlapped(ghost, Moved(call[c])).finals = ghost.finals
        BY <1>0, OverlappedGhost DEF GhostTyped
      <3>. QED  BY <2>1, <2>4, <3>1, <3>2, GradeRows
    <2>5. ASSUME NEW c \in Call, NEW q \in Question, NEW v \in Version, Edit(c, q, v)
          PROVE  (submitted /\ ~Pending(question, manual) => ghost.finals > 0)'
      <3>1. PICK qs, g : /\ Rows(qs, manual, submitted, g)
                         /\ g \in {Called, [Called EXCEPT !.lapses = @ + 1]}
        BY <2>5 DEF Edit
      <3>2. g \in Memory /\ g.finals = ghost.finals
        BY <1>0, <3>1, CalledGhost DEF Memory
      <3>. QED  BY <2>1, <3>1, <3>2
    <2>6. ASSUME NEW q \in Question, DeleteQuestion(q)
          PROVE  (submitted /\ ~Pending(question, manual) => ghost.finals > 0)'
      BY <1>0, <2>1, <2>6, CalledGhost DEF DeleteQuestion
    <2>7. ASSUME NEW c \in Call,
                 \/ LoadSubmission(c) \/ LoadGrade(c) \/ LoadDownload(c) \/ Notify(c)
                 \/ LoadRegrade(c) \/ CommitRegrade(c) \/ CommitDownload(c)
                 \/ CommitReview(c) \/ GiveUp(c) \/ \E d \in Decision : LoadReview(c, d)
          PROVE  UNCHANGED <<question, manual, submitted>>
      BY <2>7 DEF LoadSubmission, LoadGrade, LoadDownload, LoadReview, Begin, Goto, Notify,
         LoadRegrade, CommitRegrade, CommitDownload, CommitReview, GiveUp
    <2>. QED
      BY <2>2, <2>3, <2>4, <2>5, <2>6, <2>7 DEF GradingNext, gradingVars
  <1>4. (certificate => ghost.finals > 0)'
    <2>1. CASE certificate' = certificate
      BY <1>0, <1>1, <1>2, <2>1 DEF Published
    <2>2. CASE \E c \in Call : CommitDownload(c)
      BY <1>0, <1>1, <1>2, <2>2 DEF CommitDownload, LoadedThen
    <2>3. certificate' = certificate \/ \E c \in Call : CommitDownload(c)
      BY DEF GradingNext, gradingVars, LoadSubmission, LoadGrade, LoadDownload, LoadReview,
         Begin, Goto, CommitSubmission, CommitGrade, GradeFails, Notify, LoadRegrade,
         CommitRegrade, CommitReview, GiveUp, Edit, DeleteQuestion
    <2>. QED  BY <2>1, <2>2, <2>3
  (* The announcements. *)
  <1>5. /\ IsFiniteSet(Announcing')
        /\ Cardinality(Announcing') + ghost'.notices <= ghost'.finals + ghost'.overlaps
    <2> DEFINE Goal == /\ IsFiniteSet(Announcing')
                       /\ Cardinality(Announcing') + ghost'.notices
                            <= ghost'.finals + ghost'.overlaps
    <2>0. ASSUME ghost'.notices = ghost.notices, ghost'.overlaps >= ghost.overlaps,
                 call' = call
          PROVE  Goal
      <3>1. Announcing' = Announcing
        BY <2>0 DEF Announcing
      <3>. QED  BY <1>1, <1>2, <2>0, <3>1
    <2>1. ASSUME ghost'.notices = ghost.notices, ghost'.overlaps >= ghost.overlaps,
                 NEW c \in Call, \A d \in Call \ {c} : call'[d] = call[d],
                 call'[c].op # "notify"
          PROVE  Goal
      <3>1. /\ IsFiniteSet(Announcing') /\ Cardinality(Announcing') \in Nat
            /\ Cardinality(Announcing') <= Cardinality(Announcing)
        BY <2>1, AnnouncingKept
      <3>. QED  BY <1>1, <1>2, <2>1, <3>1
    <2>2. ASSUME NEW c \in Call,
                 LoadSubmission(c) \/ LoadGrade(c) \/ LoadDownload(c)
                   \/ \E d \in Decision : LoadReview(c, d)
          PROVE  Goal
      <3>1. ASSUME NEW l, Begin(c, l), l.op # "notify"
            PROVE  Goal
        <4>1. ghost'.notices = ghost.notices /\ ghost'.overlaps >= ghost.overlaps
          BY <1>0, <1>2, <3>1, CalledGhost DEF Begin, Goto
        <4>2. call'[c].op # "notify" /\ \A d \in Call \ {c} : call'[d] = call[d]
          BY <1>0, <3>1 DEF Begin, Goto, CallsTyped
        <4>. QED  BY <2>1, <4>1, <4>2
      <3>2. CASE LoadSubmission(c)
        BY <3>1, <3>2 DEF LoadSubmission
      <3>3. CASE LoadGrade(c)
        BY <3>1, <3>3 DEF LoadGrade
      <3>4. CASE LoadDownload(c)
        BY <3>1, <3>4 DEF LoadDownload
      <3>5. CASE \E d \in Decision : LoadReview(c, d)
        BY <3>1, <3>5 DEF LoadReview
      <3>. QED  BY <2>2, <3>2, <3>3, <3>4, <3>5
    <2>3. ASSUME NEW c \in Call, CommitSubmission(c)
          PROVE  Goal
      <3>1. call[c].op = "submit" /\ ~submitted
        BY <2>3 DEF CommitSubmission
      <3>2. PICK g, b : Rows(question, manual, TRUE, g) /\ g = Overlapped(ghost, b)
        BY <2>3 DEF CommitSubmission
      <3>3. /\ g \in Memory /\ g.notices = ghost.notices /\ g.finals = ghost.finals
            /\ g.overlaps >= ghost.overlaps
        BY <1>0, <1>2, <3>2, OverlappedGhost DEF GhostTyped
      <3>6. /\ ghost'.notices = ghost.notices /\ ghost'.overlaps >= ghost.overlaps
            /\ question' = question /\ manual' = manual /\ submitted' = TRUE
            /\ submitted' /\ ~Pending(question', manual')
               => \/ ghost'.finals = ghost.finals + 1
                  \/ submitted /\ ~Pending(question, manual)
        BY <1>2, <3>2, <3>3, RowsGhost
      <3>7. /\ call'[c] = [op |-> "notify", question |-> question, manual |-> manual]
            /\ \A d \in Call \ {c} : call'[d] = call[d]
        BY <1>0, <2>3 DEF CommitSubmission, Goto, CallsTyped
      <3>4. CASE Pending(question, manual)
        <4>1. /\ IsFiniteSet(Announcing') /\ Cardinality(Announcing') \in Nat
              /\ Cardinality(Announcing') <= Cardinality(Announcing)
          BY <3>4, <3>7, AnnouncingKept
        <4>. QED  BY <1>1, <1>2, <3>6, <4>1
      <3>5. CASE ~Pending(question, manual)
        <4>1. /\ IsFiniteSet(Announcing') /\ Cardinality(Announcing') \in Nat
              /\ Cardinality(Announcing') <= Cardinality(Announcing) + 1
          BY <3>7, AnnouncingKept
        <4>. QED  BY <1>2, <3>1, <3>6, <3>5, <4>1
      <3>. QED  BY <3>4, <3>5
    <2>4. ASSUME NEW c \in Call, CommitGrade(c)
          PROVE  Goal
      <3> DEFINE l == call[c]
      <3>1. l.op = "grade" /\ (l.pending => submitted /\ Pending(l.question, l.manual))
        BY <1>0, <2>4 DEF CommitGrade, LoadedThen
      <3>2. /\ Rows(question, manual', submitted, Overlapped(ghost, Moved(l)))
            /\ Overlapped(ghost, Moved(l)) \in Memory
        BY <1>0, <2>4, GradeRows, OverlappedGhost DEF GhostTyped
      <3>3. /\ ghost'.notices = ghost.notices
            /\ ghost'.overlaps = IF Moved(l) THEN ghost.overlaps + 1 ELSE ghost.overlaps
            /\ question' = question /\ submitted' = submitted
            /\ submitted' /\ ~Pending(question', manual')
               => \/ ghost'.finals = ghost.finals + 1
                  \/ submitted /\ ~Pending(question, manual)
        <4>1. /\ Overlapped(ghost, Moved(l)).notices = ghost.notices
              /\ Overlapped(ghost, Moved(l)).finals = ghost.finals
              /\ Overlapped(ghost, Moved(l)).overlaps =
                    IF Moved(l) THEN ghost.overlaps + 1 ELSE ghost.overlaps
          BY <1>0, OverlappedGhost DEF GhostTyped
        <4>. QED  BY <3>2, <4>1, RowsGhost
      <3>7. \A d \in Call \ {c} : call'[d] = call[d]
        BY <1>0, <2>4 DEF CommitGrade, Goto, CallsTyped
      <3>4. CASE l.pending /\ ~Pending(question, manual')
        <4>1. /\ IsFiniteSet(Announcing') /\ Cardinality(Announcing') \in Nat
              /\ Cardinality(Announcing') <= Cardinality(Announcing) + 1
          BY <3>7, AnnouncingKept
        <4>2. CASE Moved(l)
          BY <1>1, <1>2, <3>3, <4>1, <4>2
        <4>3. CASE ~Moved(l)
          <5>1. Pending(question, manual)
            BY <3>1, <3>4, <4>3 DEF Moved, Stale
          <5>. QED  BY <1>2, <3>1, <3>3, <3>4, <4>1, <4>3, <5>1
        <4>. QED  BY <4>2, <4>3
      <3>5. CASE ~(l.pending /\ ~Pending(question, manual'))
        <4>1. /\ IsFiniteSet(Announcing') /\ Cardinality(Announcing') \in Nat
              /\ Cardinality(Announcing') <= Cardinality(Announcing)
          <5>1. call'[c] = IF l.pending
                           THEN [op |-> "notify", question |-> question, manual |-> manual']
                           ELSE Free
            BY <1>0, <2>4 DEF CommitGrade, Goto, CallsTyped
          <5>2. call'[c].op # "notify" \/ Pending(call'[c].question, call'[c].manual)
            BY <3>5, <5>1 DEF Free
          <5>. QED  BY <3>7, <5>2, AnnouncingKept
        <4>. QED  BY <1>1, <1>2, <3>3, <4>1
      <3>. QED  BY <3>4, <3>5
    <2>4a. ASSUME NEW c \in Call, GradeFails(c)
           PROVE  Goal
      <3>1. call'[c].op # "notify" /\ \A d \in Call \ {c} : call'[d] = call[d]
        BY <1>0, <2>4a DEF GradeFails, Goto, Free, CallsTyped
      <3>2. /\ Rows(question, manual', submitted, Overlapped(ghost, Moved(call[c])))
            /\ Overlapped(ghost, Moved(call[c])) \in Memory
            /\ Overlapped(ghost, Moved(call[c])).notices = ghost.notices
            /\ Overlapped(ghost, Moved(call[c])).overlaps >= ghost.overlaps
        BY <1>0, <1>2, <2>4a, GradeRows, OverlappedGhost DEF GhostTyped
      <3>3. ghost'.notices = ghost.notices /\ ghost'.overlaps >= ghost.overlaps
        BY <3>2, RowsGhost
      <3>. QED  BY <2>1, <3>1, <3>3
    <2>5. ASSUME NEW c \in Call, Notify(c)
          PROVE  Goal
      <3> DEFINE l == call[c]
                 stale == l.question # question \/ l.manual # manual
      <3>1. /\ l.op = "notify" /\ call'[c].op # "notify"
            /\ \A d \in Call \ {c} : call'[d] = call[d]
        BY <1>0, <2>5 DEF Notify, Free, CallsTyped
      <3>2. /\ IsFiniteSet(Announcing') /\ Cardinality(Announcing') \in Nat
            /\ Cardinality(Announcing') <= Cardinality(Announcing)
            /\ c \in Announcing => Cardinality(Announcing') + 1 <= Cardinality(Announcing)
        BY <3>1, AnnouncingKept
      <3>3. /\ ghost'.overlaps = IF stale THEN ghost.overlaps + 1 ELSE ghost.overlaps
            /\ ghost'.finals = ghost.finals
            /\ \/ ghost'.notices = ghost.notices
               \/ ghost'.notices = ghost.notices + 1 /\ ~Pending(question, manual)
        <4>1. /\ Overlapped(ghost, stale) \in Memory
              /\ Overlapped(ghost, stale).notices = ghost.notices
              /\ Overlapped(ghost, stale).finals = ghost.finals
              /\ Overlapped(ghost, stale).overlaps =
                    IF stale THEN ghost.overlaps + 1 ELSE ghost.overlaps
          BY <1>0, OverlappedGhost DEF GhostTyped
        <4> HIDE DEF stale
        <4>2. ghost' = IF Sound(question) /\ ~Pending(question, manual)
                       THEN [Overlapped(ghost, stale) EXCEPT !.notices = @ + 1]
                       ELSE Overlapped(ghost, stale)
          BY <2>5 DEF Notify, Final, stale
        <4>. QED  BY <4>1, <4>2 DEF Memory
      <3>4. ~stale /\ ~Pending(question, manual) => c \in Announcing
        BY <3>1 DEF Announcing
      <3>. QED  BY <1>2, <3>2, <3>3, <3>4
    <2>6. ASSUME NEW c \in Call, LoadRegrade(c) \/ CommitRegrade(c) \/ CommitDownload(c)
                                   \/ GiveUp(c)
          PROVE  Goal
      <3>1. call'[c].op # "notify" /\ \A d \in Call \ {c} : call'[d] = call[d]
        BY <1>0, <2>6
        DEF LoadRegrade, CommitRegrade, CommitDownload, GiveUp, Free, CallsTyped
      <3>2. ghost'.notices = ghost.notices /\ ghost'.overlaps >= ghost.overlaps
        BY <1>0, <1>2, <2>6, OverlappedGhost
        DEF LoadRegrade, CommitRegrade, CommitDownload, GiveUp, GhostTyped, Memory
      <3>. QED  BY <2>1, <3>1, <3>2
    <2>7. ASSUME NEW c \in Call, CommitReview(c)
          PROVE  Goal
      <3>1. ghost'.notices = ghost.notices /\ ghost'.overlaps >= ghost.overlaps
        BY <1>0, <1>2, <2>7 DEF CommitReview, Overlapped, GhostTyped, Memory
      <3>2. call'[c].op # "notify" /\ \A d \in Call \ {c} : call'[d] = call[d]
        BY <1>0, <2>7 DEF CommitReview, Free, CallsTyped
      <3>. QED  BY <2>1, <3>1, <3>2
    <2>8. ASSUME NEW c \in Call, NEW q \in Question, NEW v \in Version, Edit(c, q, v)
          PROVE  Goal
      <3>1. PICK qs, g : /\ Rows(qs, manual, submitted, g)
                         /\ g \in {Called, [Called EXCEPT !.lapses = @ + 1]}
        BY <2>8 DEF Edit
      <3>2. g \in Memory /\ g.notices = ghost.notices /\ g.overlaps = ghost.overlaps
        BY <1>0, <3>1, CalledGhost DEF Memory
      <3>3. ghost'.notices = ghost.notices /\ ghost'.overlaps >= ghost.overlaps
        BY <1>2, <3>1, <3>2, RowsGhost
      <3>4. \/ call' = call
            \/ call'[c].op # "notify" /\ \A d \in Call \ {c} : call'[d] = call[d]
        BY <1>0, <2>8 DEF Edit, CallsTyped
      <3>. QED  BY <2>0, <2>1, <3>3, <3>4
    <2>9. ASSUME NEW q \in Question, DeleteQuestion(q)
          PROVE  Goal
      <3>1. ghost'.notices = ghost.notices /\ ghost'.overlaps >= ghost.overlaps
        BY <1>0, <1>2, <2>9, CalledGhost, RowsGhost DEF DeleteQuestion
      <3>. QED  BY <2>0, <2>9, <3>1 DEF DeleteQuestion
    <2>10. CASE UNCHANGED gradingVars
      BY <1>2, <2>0, <2>10 DEF gradingVars
    <2>. QED
      BY <2>2, <2>3, <2>4, <2>4a, <2>5, <2>6, <2>7, <2>8, <2>9, <2>10 DEF GradingNext
  <1>. QED
    BY <1>3, <1>4, <1>5 DEF Published

(* The calls that regrade, after a step of one call.                       *)
LEMMA RegradingSame ==
    ASSUME CallsTyped, NEW c \in Call, NEW l, call' = [call EXCEPT ![c] = l],
           l.op \notin {"edited", "regrade"}, call[c].op \notin {"edited", "regrade"}
    PROVE  Regrading' = Regrading
  <1>1. \A d \in Call : call'[d] = IF d = c THEN l ELSE call[d]
    BY OneCall
  <1>. QED  BY <1>1 DEF Regrading

LEMMA ScoreStep ==
    ASSUME GradingIInv, [GradingNext]_gradingVars
    PROVE  ScoreIsTotal'
  <1> SUFFICES ASSUME submitted', Sound(question'), Regrading' = {},
                      ghost'.overlaps = 0, ghost'.lapses = 0
               PROVE  score' = Total(question', manual')
    BY DEF ScoreIsTotal
  <1>0. /\ RowsTyped /\ CallsTyped /\ GhostTyped
        /\ \A c \in Call : LoadedThen(c)
        /\ ~submitted => manual = Ungraded
        /\ ScoreIsTotal
    BY DEF GradingIInv
  <1>1. ghost.overlaps = 0 /\ ghost.lapses = 0
    BY <1>0, CountersGrow DEF GhostTyped, Memory
  <1>2. ASSUME UNCHANGED <<question, submitted, manual, score>>, Regrading' = Regrading
        PROVE  score' = Total(question', manual')
    BY <1>0, <1>1, <1>2 DEF ScoreIsTotal
  <1>3. CASE UNCHANGED gradingVars
    BY <1>2, <1>3 DEF gradingVars, Regrading
  <1>4. ASSUME NEW c \in Call, NEW l, Begin(c, l), l.op \notin {"edited", "regrade"}
        PROVE  score' = Total(question', manual')
    <2>1. /\ call' = [call EXCEPT ![c] = l] /\ call[c] = Free
          /\ UNCHANGED <<question, submitted, manual, score>>
      BY <1>4 DEF Begin, Goto
    <2>2. Regrading' = Regrading
      <3>1. call[c].op \notin {"edited", "regrade"}
        BY <2>1 DEF Free
      <3>. QED  BY <1>0, <1>4, <2>1, <3>1, RegradingSame
    <2>. QED  BY <1>2, <2>1, <2>2
  <1>5. ASSUME NEW c \in Call, CommitSubmission(c)
        PROVE  score' = Total(question', manual')
    <2>1. call[c].manual = manual
      BY <1>0, <1>5 DEF CommitSubmission, LoadedThen
    <2> DEFINE late == call[c].question # question \/ call[c].score # score
    <2>2. Rows(question, manual, TRUE, Overlapped(ghost, late))
      BY <1>5 DEF CommitSubmission
    <2>3. ~late
      <3>1. /\ Overlapped(ghost, late) \in Memory
            /\ Overlapped(ghost, late).overlaps =
                  IF late THEN ghost.overlaps + 1 ELSE ghost.overlaps
        BY <1>0, OverlappedGhost DEF GhostTyped
      <3>2. ghost'.overlaps = Overlapped(ghost, late).overlaps
        BY <2>2, <3>1, RowsGhost
      <3>. QED  BY <1>1, <3>1, <3>2
    <2>. QED  BY <1>5, <2>1, <2>2, <2>3 DEF CommitSubmission, Rows, Written
  <1>6. ASSUME NEW c \in Call, CommitGrade(c)
        PROVE  score' = Total(question', manual')
    <2> DEFINE l == call[c]
    <2>1. ~Moved(l) /\ question' = question /\ submitted' = submitted
      <3>1. /\ Overlapped(ghost, Moved(l)) \in Memory
            /\ Overlapped(ghost, Moved(l)).overlaps =
                  IF Moved(l) THEN ghost.overlaps + 1 ELSE ghost.overlaps
        BY <1>0, OverlappedGhost DEF GhostTyped
      <3>2. Rows(question, manual', submitted, Overlapped(ghost, Moved(l)))
        BY <1>6, GradeRows
      <3>3. ghost'.overlaps = Overlapped(ghost, Moved(l)).overlaps
        BY <3>1, <3>2, RowsGhost
      <3>4. question' = question /\ submitted' = submitted
        BY <3>2 DEF Rows
      <3>5. ~Moved(l)
        BY <1>1, <3>1, <3>3
      <3>. QED  BY <3>4, <3>5
    <2>2. /\ l.question = question /\ l.manual = manual /\ l.score = score
          /\ l.answered
      BY <2>1 DEF Moved, Stale
    <2>3. PICK new \in Entered(l) :
             /\ score' = Written(Total(l.question, new), l.score, score)
             /\ GradesSaved(l, new)
      BY <1>6, <2>2 DEF CommitGrade, GradedScore
    <2>4. manual' = new
      <3>1. new \in Grades
        BY <1>0, <2>2, EnteredTyped DEF RowsTyped
      <3>2. manual' = [q \in Question |-> Written(new[q], l.manual[q], manual[q])]
        BY <2>3 DEF GradesSaved, Rows
      <3>3. manual' = [q \in Question |-> new[q]]
        BY <2>2, <3>2 DEF Written
      <3>. QED  BY <3>1, <3>3 DEF Grades
    <2>. QED  BY <2>1, <2>2, <2>3, <2>4 DEF Written
  <1>6a. ASSUME NEW c \in Call, GradeFails(c)
         PROVE  score' = Total(question', manual')
    BY <1>6a, GradeRows DEF GradeFails, Rows
  <1>7. ASSUME NEW c \in Call, Notify(c) \/ CommitDownload(c) \/ CommitReview(c)
        PROVE  score' = Total(question', manual')
    BY <1>0, <1>2, <1>7, RegradingSame DEF Notify, CommitDownload, CommitReview, Free
  <1>8. ASSUME NEW c \in Call, GiveUp(c)
        PROVE  score' = Total(question', manual')
    <2>1. call[c].op \notin {"edited", "regrade"}
      BY <1>0, <1>1, <1>8 DEF GiveUp, GhostTyped, Memory
    <2>. QED  BY <1>0, <1>2, <1>8, <2>1, RegradingSame DEF GiveUp, Free
  <1>9. ASSUME NEW c \in Call, NEW q \in Question, NEW v \in Version, Edit(c, q, v)
        PROVE  score' = Total(question', manual')
    <2> DEFINE qs == [question EXCEPT ![q] = v]
    <2>1. question' = qs /\ manual' = manual /\ submitted' = submitted /\ score' = score
      BY <1>9 DEF Edit, Rows
    <2>2. CASE call' = [call EXCEPT ![c] = [op |-> "edited"]]
      <3>1. call'[c].op = "edited"
        BY <1>0, <2>2 DEF CallsTyped
      <3>. QED  BY <3>1 DEF Regrading
    <2>3. CASE /\ UNCHANGED call
               /\ Rows(qs, manual, submitted,
                       IF Sound(qs) /\ submitted
                            /\ Total(qs, manual) # Total(question, manual)
                       THEN [Called EXCEPT !.lapses = @ + 1] ELSE Called)
      <3>1. Sound(qs) /\ submitted
        BY <2>1
      <3>2. [Called EXCEPT !.lapses = @ + 1] \in Memory
            /\ [Called EXCEPT !.lapses = @ + 1].lapses = ghost.lapses + 1
        BY <1>0, CalledGhost DEF Memory
      <3>3. Total(qs, manual) = Total(question, manual)
        <4>1. SUFFICES ASSUME Total(qs, manual) # Total(question, manual) PROVE FALSE
          OBVIOUS
        <4>2. Rows(qs, manual, submitted, [Called EXCEPT !.lapses = @ + 1])
          BY <2>3, <3>1, <4>1
        <4>3. ghost'.lapses = ghost.lapses + 1
          BY <3>2, <4>2, RowsGhost
        <4>. QED  BY <1>1, <4>3
      <3>4. Sound(question)
        BY <1>9, <3>1 DEF Sound, Edit
      <3>5. Regrading = {}
        BY <2>3 DEF Regrading
      <3>6. score = Total(question, manual)
        BY <1>0, <1>1, <3>1, <3>4, <3>5 DEF ScoreIsTotal
      <3>. QED  BY <2>1, <3>3, <3>6
    <2>. QED  BY <1>9, <2>2, <2>3 DEF Edit
  <1>10. ASSUME NEW c \in Call, LoadRegrade(c)
         PROVE  score' = Total(question', manual')
    <2>1. UNCHANGED <<question, submitted, manual, score>>
      BY <1>10 DEF LoadRegrade
    <2>2. call'[c].op = "regrade"
      BY <1>0, <1>10, <2>1 DEF LoadRegrade, Regraded, CallsTyped
    <2>. QED  BY <2>2 DEF Regrading
  <1>11. ASSUME NEW c \in Call, CommitRegrade(c)
         PROVE  score' = Total(question', manual')
    <2>1. ~Stale(call[c])
      BY <1>0, <1>1, <1>11, OverlappedGhost DEF CommitRegrade, GhostTyped, Memory
    <2>. QED  BY <1>11, <2>1 DEF CommitRegrade, Stale, Written
  <1>12. ASSUME NEW q \in Question, DeleteQuestion(q)
         PROVE  score' = Total(question', manual')
    <2>1. question'[q] = Deleted
      BY <1>0, <1>12 DEF DeleteQuestion, Rows, RowsTyped, Questions
    <2>. QED  BY <2>1 DEF Sound
  <1>13. ASSUME NEW c \in Call, NEW d \in Decision,
                LoadSubmission(c) \/ LoadGrade(c) \/ LoadDownload(c) \/ LoadReview(c, d)
         PROVE  score' = Total(question', manual')
    BY <1>4, <1>13 DEF LoadSubmission, LoadGrade, LoadDownload, LoadReview
  <1>14. "cleared" \in Decision
    BY DEF Decision
  <1>. QED
    BY <1>3, <1>5, <1>6, <1>6a, <1>7, <1>8, <1>9, <1>10, <1>11, <1>12, <1>13, <1>14
    DEF GradingNext

LEMMA SignedStep ==
    ASSUME GradingIInv, [GradingNext]_gradingVars
    PROVE  SignedByDecider'
  <1> SUFFICES ASSUME review' # Nothing, ghost'.overlaps = 0
               PROVE  ghost'.said[review'.reviewer] = review'.decision
    BY DEF SignedByDecider
  <1>0. RowsTyped /\ CallsTyped /\ GhostTyped /\ SignedByDecider
    BY DEF GradingIInv
  <1>1. ghost.overlaps = 0
    BY <1>0, CountersGrow DEF GhostTyped, Memory
  <1>2. ASSUME NEW c \in Call, CommitReview(c)
        PROVE  ghost'.said[review'.reviewer] = review'.decision
    <2> DEFINE l == call[c]
    <2>1. l.review = review
      BY <1>0, <1>1, <1>2 DEF CommitReview, Overlapped, GhostTyped, Memory
    <2>2. l.decision \in Decision
      BY <1>0, <1>2 DEF CommitReview, CallsTyped, LoadTyped
    <2>3. ghost'.said[c] = l.decision
      BY <1>0, <1>2, <2>2 DEF CommitReview, Overlapped, GhostTyped, Memory
    <2>4. review'.decision = l.decision /\ review'.reviewer = c
      BY <1>2, <2>1 DEF CommitReview, Concluded, Written
    <2>. QED  BY <2>3, <2>4
  <1>3. ASSUME review' = review, ghost'.said = ghost.said
        PROVE  ghost'.said[review'.reviewer] = review'.decision
    BY <1>0, <1>1, <1>3 DEF SignedByDecider
  <1>4. ASSUME NEW c \in Call, NEW d \in Decision,
               LoadSubmission(c) \/ LoadGrade(c) \/ LoadDownload(c) \/ LoadReview(c, d)
        PROVE  review' = review /\ ghost'.said = ghost.said
    BY <1>0, <1>4, CalledGhost DEF LoadSubmission, LoadGrade, LoadDownload, LoadReview, Begin, Goto
  <1>5. ASSUME NEW c \in Call, CommitSubmission(c)
        PROVE  review' = review /\ ghost'.said = ghost.said
    <2>1. PICK b : Rows(question, manual, TRUE, Overlapped(ghost, b))
      BY <1>5 DEF CommitSubmission
    <2>2. Overlapped(ghost, b) \in Memory /\ Overlapped(ghost, b).said = ghost.said
      BY <1>0, OverlappedGhost DEF GhostTyped
    <2>. QED  BY <1>5, <2>1, <2>2, RowsGhost DEF CommitSubmission
  <1>6. ASSUME NEW c \in Call, CommitGrade(c) \/ GradeFails(c)
        PROVE  review' = review /\ ghost'.said = ghost.said
    <2>1. Overlapped(ghost, Moved(call[c])) \in Memory
          /\ Overlapped(ghost, Moved(call[c])).said = ghost.said
      BY <1>0, OverlappedGhost DEF GhostTyped
    <2>. QED  BY <1>6, <2>1, GradeRows, RowsGhost DEF CommitGrade, GradeFails
  <1>7. ASSUME NEW c \in Call, Notify(c) \/ LoadRegrade(c) \/ CommitRegrade(c)
                                 \/ CommitDownload(c) \/ GiveUp(c)
        PROVE  review' = review /\ ghost'.said = ghost.said
    BY <1>0, <1>7 DEF Notify, LoadRegrade, CommitRegrade, CommitDownload, GiveUp, Overlapped,
       GhostTyped, Memory
  <1>8. ASSUME NEW c \in Call, NEW q \in Question, NEW v \in Version, Edit(c, q, v)
        PROVE  review' = review /\ ghost'.said = ghost.said
    <2>1. PICK qs, g : /\ Rows(qs, manual, submitted, g)
                       /\ g \in {Called, [Called EXCEPT !.lapses = @ + 1]}
      BY <1>8 DEF Edit
    <2>2. g \in Memory /\ g.said = ghost.said
      BY <1>0, <2>1, CalledGhost DEF Memory
    <2>. QED  BY <1>8, <2>1, <2>2, RowsGhost DEF Edit
  <1>9. ASSUME NEW q \in Question, DeleteQuestion(q)
        PROVE  review' = review /\ ghost'.said = ghost.said
    BY <1>0, <1>9, CalledGhost, RowsGhost DEF DeleteQuestion
  <1>10. CASE UNCHANGED gradingVars
    BY <1>3, <1>10 DEF gradingVars
  <1>11. "cleared" \in Decision
    BY DEF Decision
  <1>. QED
    BY <1>2, <1>3, <1>4, <1>5, <1>6, <1>7, <1>8, <1>9, <1>10, <1>11 DEF GradingNext

LEMMA GradingStep == GradingIInv /\ [GradingNext]_gradingVars => GradingIInv'
  <1> SUFFICES ASSUME GradingIInv, [GradingNext]_gradingVars PROVE GradingIInv'
    OBVIOUS
  <1>. QED
    BY GradingTypes, ThenStep, PublishedStep, ScoreStep, SignedStep DEF GradingIInv

----------------------------------------------------------------------------

(* What calls have loaded stays true of the attempt's past, and every      *)
(* announcement under way is paid for.                                     *)
THEOREM GradingInvariance == GradingSpec => []GradingIInv
  BY GradingStart, GradingStep, PTL DEF GradingSpec

(* The score is the total of the answers, whatever was graded, edited and  *)
(* regraded, as long as no calls overlapped and no regrade was left out    *)
(* (models.recompute_attempt_score and its callers).                       *)
THEOREM Scoring == GradingSpec => []ScoreIsTotal
  <1>1. GradingIInv => ScoreIsTotal
    BY DEF GradingIInv
  <1>. QED  BY <1>1, GradingInvariance, PTL

(* The result is announced once for each time the grading is completed,    *)
(* and no certificate comes before that (notifications.py).                *)
THEOREM Publication == GradingSpec => []PublishedWhenFinal
  <1>1. GradingIInv => PublishedWhenFinal
    BY FS_CardinalityType
    DEF GradingIInv, Published, PublishedWhenFinal, GhostTyped, Memory
  <1>. QED  BY <1>1, GradingInvariance, PTL

(* A review is signed by one who decided so (admin.review_attempt).        *)
THEOREM Signature == GradingSpec => []SignedByDecider
  <1>1. GradingIInv => SignedByDecider
    BY DEF GradingIInv
  <1>. QED  BY <1>1, GradingInvariance, PTL

============================================================================
