---------------------------- MODULE AttemptRecord ----------------------------
(***************************************************************************)
(* One row of the attempts table under concurrent requests.  Every handler *)
(* of the web application loads the row, decides on what it loaded, and    *)
(* commits later: Begin... is the load (with the guards the handler        *)
(* evaluates on it), Commit... is the transaction's end.  Nothing locks    *)
(* the row or compares a version, and the object-relational mapper writes  *)
(* only the columns the handler changed (operator Flushed), so requests    *)
(* served by different workers overwrite one another column by column.     *)
(* What a transaction reads after its load is what has been committed by   *)
(* then (SQLite, PostgreSQL), or still what was there at the load (MySQL:  *)
(* REPEATABLE READ is its default, and the application sets no other).     *)
(***************************************************************************)
EXTENDS Naturals, FiniteSets

CONSTANTS
    Worker,         \* concurrent requests (gunicorn worker processes)
    Answers,        \* contents an answer form may have
    Blank,          \* the form in which nothing is answered
    NoAnswers,      \* SQL NULL, and "no Answer rows"
    EventType,      \* proctoring event types
    NoEvent,        \* a task that carries no event
    IpEvent,        \* the event type of the IP allowlist check
    Policy,         \* the test's proctoring policy, one entry per event type
    MaxViolations,  \* MAX_VIOLATIONS_BEFORE_TERMINATION
    WarnLimit,      \* Test.max_warnings or MAX_WARNINGS; 0 disables it
    HighRiskAfter,  \* violations that bring the suspicion score to "high"
    MaxEvents,      \* bound: proctoring requests accepted
    MaxAlerts       \* bound: alert rounds that end in a killed worker

Severities == {"info", "warning", "violation"}

PolicyEntry ==
    [action          : {"default", "ignore", "warning", "flag", "terminate"},
     default_action  : {"default", "flag", "terminate"},
     warning_limit   : Nat,
     escalate_action : {"flag", "terminate"},
     grace           : BOOLEAN]

ASSUME FormAssumption   == Blank \in Answers /\ NoAnswers \notin Answers
ASSUME PolicyAssumption ==
    /\ Policy \in [EventType -> PolicyEntry]
    /\ IpEvent \in EventType
ASSUME LimitAssumption  ==
    /\ MaxViolations \in Nat \ {0}
    /\ WarnLimit \in Nat
    /\ HighRiskAfter \in Nat \ {0}
    /\ MaxEvents \in Nat
    /\ MaxAlerts \in Nat

VARIABLES
    attempt,    \* the row of the attempts table
    answers,    \* the attempt's rows in the answers table, or NoAnswers
    events,     \* proctoring_events rows of the attempt, counted by severity
    alerts,     \* rounds of high-risk e-mail sent about the attempt
    unseen,     \* for the properties: the most violations of other requests
                \* that one request did not see when it computed the risk
    phase,      \* the attempt's clock: grace period, running, time used up
    task        \* what each worker is in the middle of

vars == <<attempt, answers, events, alerts, unseen, phase, task>>

----------------------------------------------------------------------------
(* The state.                                                              *)

Row ==
    [status                : {"in_progress", "submitted", "terminated"},
     termination_reason    : {"none", "time", "violations", "warnings",
                              "policy", "proctor"},
     score                 : Answers \cup {NoAnswers},
     autosaved_answers     : Answers \cup {NoAnswers},
     violation_count       : Nat,
     total_warning_count   : Nat,
     warning_counts        : [EventType -> Nat],
     high_risk_alert_sent  : BOOLEAN]

NewAttempt ==
    [status                |-> "in_progress",
     termination_reason    |-> "none",
     score                 |-> NoAnswers,
     autosaved_answers     |-> NoAnswers,
     violation_count       |-> 0,
     total_warning_count   |-> 0,
     warning_counts        |-> [e \in EventType |-> 0],
     high_risk_alert_sent  |-> FALSE]

Task ==
    [at       : {"idle", "submit", "autosave", "expire", "heartbeat",
                 "event", "terminate"},
     seen     : Row,                        \* the row as it was loaded
     log      : Nat,                        \* the violations logged by then
     form     : Answers \cup {NoAnswers},   \* the answers in the request
     event    : EventType \cup {NoEvent},
     severity : Severities]

Idle == [at |-> "idle", seen |-> NewAttempt, log |-> 0, form |-> NoAnswers,
         event |-> NoEvent, severity |-> "info"]

TypeOK ==
    /\ attempt \in Row
    /\ answers \in Answers \cup {NoAnswers}
    /\ events \in [violation : Nat, warning : Nat]
    /\ alerts \in Nat
    /\ unseen \in Nat
    /\ phase \in {"early", "running", "expired"}
    /\ task \in [Worker -> Task]

Init ==
    /\ attempt = NewAttempt
    /\ answers = NoAnswers
    /\ events  = [violation |-> 0, warning |-> 0]
    /\ alerts  = 0
    /\ unseen  = 0
    /\ phase   = "early"
    /\ task    = [w \in Worker |-> Idle]

Finished(row) == row.status # "in_progress"

(* Mutant: the commit writes every column, changed or not.                 *)
WholeRowColumn(stored, loaded, left) == left

(* The UPDATE a commit issues: a column is written only when the handler   *)
(* left a value in it that differs from the one it loaded.                 *)
Column(stored, loaded, left) == IF left = loaded THEN stored ELSE left

Flushed(db, seen, new) ==
    [status               |-> Column(db.status, seen.status, new.status),
     termination_reason   |-> Column(db.termination_reason,
                                seen.termination_reason, new.termination_reason),
     score                |-> Column(db.score, seen.score, new.score),
     autosaved_answers    |-> Column(db.autosaved_answers,
                                seen.autosaved_answers, new.autosaved_answers),
     violation_count      |-> Column(db.violation_count,
                                seen.violation_count, new.violation_count),
     total_warning_count  |-> Column(db.total_warning_count,
                                seen.total_warning_count, new.total_warning_count),
     warning_counts       |-> Column(db.warning_counts,
                                seen.warning_counts, new.warning_counts),
     high_risk_alert_sent |-> Column(db.high_risk_alert_sent,
                                seen.high_risk_alert_sent, new.high_risk_alert_sent)]

----------------------------------------------------------------------------
(* What a proctoring event does to the row (proctoring._record_violation), *)
(* as a function of the row that was loaded.                               *)

InGrace(e) == Policy[e].grace /\ phase = "early"

Limited(e) == Policy[e].action = "warning" /\ Policy[e].warning_limit > 0

WarningsUsed(row, e) == row.warning_counts[e] + 1

(* The per-type policy: a limited warning escalates once it is used up, an *)
(* unconfigured type takes the caller's default action if there is one.    *)
ResolvedAction(row, e) ==
    IF Limited(e)
    THEN IF WarningsUsed(row, e) <= Policy[e].warning_limit
         THEN "warning" ELSE Policy[e].escalate_action
    ELSE IF Policy[e].action = "default"
         THEN Policy[e].default_action ELSE Policy[e].action

PolicySeverity(row, e, severity) ==
    LET action == ResolvedAction(row, e)
    IN  CASE action = "ignore"  -> "info"
          [] action = "warning" -> "warning"
          [] action = "flag"    -> "violation"
          [] action = "terminate" -> "violation"
          [] OTHER -> severity

CountsAsWarning(row, e, severity) ==
    WarnLimit > 0 /\ PolicySeverity(row, e, severity) = "warning"

(* The warning after the last allowed one ends the exam instead.           *)
Disqualifies(row, e, severity) ==
    /\ CountsAsWarning(row, e, severity)
    /\ row.total_warning_count >= WarnLimit

LoggedSeverity(row, e, severity) ==
    IF InGrace(e) THEN "info"
    ELSE IF Disqualifies(row, e, severity) THEN "violation"
    ELSE PolicySeverity(row, e, severity)

(* Mutant: this violation is counted twice in the comparison.              *)
TerminatesEarly(row, e, severity) ==
    /\ LoggedSeverity(row, e, severity) = "violation"
    /\ ~Finished(row)
    /\ \/ ResolvedAction(row, e) = "terminate"
       \/ Disqualifies(row, e, severity)
       \/ row.violation_count + 2 >= MaxViolations

Terminates(row, e, severity) ==
    /\ LoggedSeverity(row, e, severity) = "violation"
    /\ ~Finished(row)
    /\ \/ ResolvedAction(row, e) = "terminate"
       \/ Disqualifies(row, e, severity)
       \/ row.violation_count + 1 >= MaxViolations

Cause(row, e, severity) ==
    IF Disqualifies(row, e, severity) THEN "warnings"
    ELSE IF ResolvedAction(row, e) = "terminate" THEN "policy"
    ELSE "violations"

(* The suspicion score as this model needs it: weights add up with every   *)
(* violation logged, and a terminated attempt with one starts at 85.       *)
IsHighRisk(status, violations) ==
    \/ violations >= HighRiskAfter
    \/ status = "terminated" /\ violations > 0

AddIf(n, condition) == IF condition THEN n + 1 ELSE n

(* The events table once this event is in it.                              *)
Logged(log, severity) ==
    [violation |-> AddIf(log.violation, severity = "violation"),
     warning   |-> AddIf(log.warning, severity = "warning")]

(* Mutant: the grace period mutes the log entry but not the counter.       *)
AfterViolationCountingGrace(row, e, severity, violations) ==
    [row EXCEPT !.violation_count =
                    AddIf(@, PolicySeverity(row, e, severity) = "violation")]

(* The row as the handler leaves it; `violations` counts the events it     *)
(* sees with this one logged, which the risk score is computed on.         *)
AfterViolation(row, e, severity, violations) ==
    LET logged == LoggedSeverity(row, e, severity)
        status == IF Terminates(row, e, severity)
                  THEN "terminated" ELSE row.status
    IN  IF InGrace(e) THEN row ELSE
        [row EXCEPT
            !.status = status,
            !.termination_reason =
                IF Terminates(row, e, severity)
                THEN Cause(row, e, severity) ELSE @,
            !.violation_count = AddIf(@, logged = "violation"),
            !.total_warning_count =
                AddIf(@, CountsAsWarning(row, e, severity) /\ logged = "warning"),
            !.warning_counts[e] = AddIf(@, Limited(e)),
            !.high_risk_alert_sent = @ \/ IsHighRisk(status, violations)]

----------------------------------------------------------------------------
(* The handlers.                                                           *)

Load(w, kind, form, e, severity) ==
    /\ task[w].at = "idle"
    /\ ~Finished(attempt)
    /\ task' = [task EXCEPT ![w] =
                   [at |-> kind, seen |-> attempt, log |-> events.violation, form |-> form,
                    event |-> e, severity |-> severity]]
    /\ UNCHANGED <<attempt, answers, events, alerts, unseen, phase>>

Done(w) == task' = [task EXCEPT ![w] = Idle]

(* POST /attempts/<id>/submit, /autosave, and the terminate button of the  *)
(* Live Monitor.                                                           *)
BeginSubmit(w, form)   == Load(w, "submit", form, NoEvent, "info")
BeginAutosave(w, form) == Load(w, "autosave", form, NoEvent, "info")
BeginTerminate(w)      == Load(w, "terminate", NoAnswers, NoEvent, "info")
BeginHeartbeat(w)      == Load(w, "heartbeat", NoAnswers, NoEvent, "info")

(* Opening the exam page after the time is used up (start_test): what was  *)
(* autosaved, or nothing, is taken for the answers.                        *)
BeginExpire(w) ==
    /\ phase = "expired"
    /\ Load(w, "expire",
            IF attempt.autosaved_answers = NoAnswers
            THEN Blank ELSE attempt.autosaved_answers,
            NoEvent, "info")

(* A proctoring signal: the page's reports, the server's own checks.       *)
BeginEvent(w, e, severity) ==
    /\ events.violation + events.warning < MaxEvents
    /\ Load(w, "event", NoAnswers, e, severity)

(* The heartbeat commits its session refresh, which expires the loaded     *)
(* row: the allowlist check after it works on a new load, and without      *)
(* looking at the status again.                                            *)
HeartbeatChecksIp(w) ==
    /\ task[w].at = "heartbeat"
    /\ events.violation + events.warning < MaxEvents
    /\ task' = [task EXCEPT ![w] =
                   [at |-> "event", seen |-> attempt, log |-> events.violation,
                    form |-> NoAnswers,
                    event |-> IpEvent, severity |-> "violation"]]
    /\ UNCHANGED <<attempt, answers, events, alerts, unseen, phase>>

HeartbeatPasses(w) ==
    /\ task[w].at = "heartbeat"
    /\ Done(w)
    /\ UNCHANGED <<attempt, answers, events, alerts, unseen, phase>>

(* Mutant: the score is taken from the autosaved draft.                    *)
FinalizedFromDraft(row, form) ==
    [row EXCEPT !.status = "submitted",
                !.score = row.autosaved_answers,
                !.autosaved_answers = NoAnswers]

(* student._finalize_attempt on the loaded row.                            *)
Finalized(row, form) ==
    [row EXCEPT !.status = "submitted",
                !.score = form,
                !.autosaved_answers = NoAnswers]

(* Mutant: no UNIQUE constraint, the rows of a second submit replace them. *)
ReplacesAnswers(form) == answers' = form

(* Inserting the Answer rows succeeds once: (attempt, question) is UNIQUE. *)
InsertsAnswers(form) == answers = NoAnswers /\ answers' = form

CommitSubmit(w) ==
    /\ task[w].at = "submit"
    /\ InsertsAnswers(task[w].form)
    /\ attempt' = Flushed(attempt, task[w].seen,
                          Finalized(task[w].seen, task[w].form))
    /\ Done(w)
    /\ UNCHANGED <<events, alerts, unseen, phase>>

CommitExpire(w) ==
    /\ task[w].at = "expire"
    /\ InsertsAnswers(task[w].form)
    /\ attempt' = Flushed(attempt, task[w].seen,
                          [Finalized(task[w].seen, task[w].form)
                              EXCEPT !.termination_reason = "time"])
    /\ Done(w)
    /\ UNCHANGED <<events, alerts, unseen, phase>>

(* The losing finalization fails on that constraint and rolls back whole.  *)
FinalizeFails(w) ==
    /\ task[w].at \in {"submit", "expire"}
    /\ answers # NoAnswers
    /\ Done(w)
    /\ UNCHANGED <<attempt, answers, events, alerts, unseen, phase>>

CommitAutosave(w) ==
    /\ task[w].at = "autosave"
    /\ attempt' = Flushed(attempt, task[w].seen,
                      [task[w].seen EXCEPT !.autosaved_answers = task[w].form])
    /\ Done(w)
    /\ UNCHANGED <<answers, events, alerts, unseen, phase>>

CommitTerminate(w) ==
    /\ task[w].at = "terminate"
    /\ attempt' = Flushed(attempt, task[w].seen,
                      [task[w].seen EXCEPT !.status = "terminated",
                                           !.termination_reason = "proctor"])
    /\ Done(w)
    /\ UNCHANGED <<answers, events, alerts, unseen, phase>>

(* An alert goes out when this handler's copy of the one-shot flag is      *)
(* still clear (notifications.maybe_send_high_risk_alert).                 *)
Alerting(row, after) == after.high_risk_alert_sent /\ ~row.high_risk_alert_sent

(* Mutant: the risk is computed before this event is flushed to the log.   *)
EventOutcomeBeforeFlush(w, log) ==
    AfterViolation(task[w].seen, task[w].event, task[w].severity, log)

Severity(w) == LoggedSeverity(task[w].seen, task[w].event, task[w].severity)

(* `log` counts the violations of other requests this one sees.            *)
EventOutcome(w, log) ==
    AfterViolation(task[w].seen, task[w].event, task[w].severity,
                   AddIf(log, Severity(w) = "violation"))

Visible(w) == {task[w].log, events.violation}

CommitEvent(w) ==
    /\ task[w].at = "event"
    /\ events' = Logged(events, Severity(w))
    /\ \E log \in Visible(w) :
          /\ attempt' = Flushed(attempt, task[w].seen, EventOutcome(w, log))
          /\ alerts' = AddIf(alerts, Alerting(task[w].seen, EventOutcome(w, log)))
          /\ unseen' = IF Severity(w) = "violation" /\ events.violation > log + unseen
                       THEN events.violation - log ELSE unseen
    /\ Done(w)
    /\ UNCHANGED <<answers, phase>>

(* The e-mail leaves before the commit that records it; a worker killed in *)
(* between (a slow mail server outlasting gunicorn's timeout) rolls back.  *)
KilledWhileAlerting(w) ==
    /\ task[w].at = "event"
    /\ \E log \in Visible(w) : Alerting(task[w].seen, EventOutcome(w, log))
    /\ alerts < MaxAlerts
    /\ alerts' = alerts + 1
    /\ Done(w)
    /\ UNCHANGED <<attempt, answers, events, unseen, phase>>

(* A worker may be killed, and its transaction rolled back, at any time.   *)
Killed(w) ==
    /\ task[w].at # "idle"
    /\ Done(w)
    /\ UNCHANGED <<attempt, answers, events, alerts, unseen, phase>>

TimePasses ==
    /\ \/ phase = "early" /\ phase' = "running"
       \/ phase = "running" /\ phase' = "expired"
    /\ UNCHANGED <<attempt, answers, events, alerts, unseen, task>>

Next ==
    \/ TimePasses
    \/ \E w \in Worker :
         \/ \E form \in Answers : BeginSubmit(w, form) \/ BeginAutosave(w, form)
         \/ \E e \in EventType, severity \in Severities : BeginEvent(w, e, severity)
         \/ BeginTerminate(w)
         \/ BeginExpire(w)
         \/ BeginHeartbeat(w)
         \/ HeartbeatChecksIp(w)
         \/ HeartbeatPasses(w)
         \/ CommitSubmit(w)
         \/ CommitExpire(w)
         \/ FinalizeFails(w)
         \/ CommitAutosave(w)
         \/ CommitTerminate(w)
         \/ CommitEvent(w)
         \/ KilledWhileAlerting(w)
         \/ Killed(w)

Spec == Init /\ [][Next]_vars

----------------------------------------------------------------------------
(* Safety.                                                                 *)

(* A submitted attempt has its Answer rows, and its score is the score of  *)
(* exactly those rows, whichever of the racing finalizations won and       *)
(* whatever else was in flight (student._finalize_attempt; grading by hand *)
(* is in the module Grading).                                              *)
SubmittedIsGraded ==
    attempt.status = "submitted" =>
        answers # NoAnswers /\ attempt.score = answers

(* Once an attempt has graded answers nothing replaces them or their       *)
(* score: a second submit, the time-expiry path or a late autosave with    *)
(* other answers leaves both alone.                                        *)
AnswersWrittenOnce ==
    [][answers # NoAnswers =>
           answers' = answers /\ attempt'.score = attempt.score]_vars

(* No stale commit brings a finished attempt back into progress.           *)
FinishedStaysFinished ==
    [][Finished(attempt) => Finished(attempt')]_vars

(* An attempt still in progress has used up neither limit: there is no     *)
(* interleaving that steps over a threshold without ending the exam.       *)
RunningIsWithinLimits ==
    ~Finished(attempt) =>
        /\ attempt.violation_count < MaxViolations
        /\ WarnLimit > 0 => attempt.total_warning_count <= WarnLimit

(* Nobody is charged for more than the log shows: each counter is at most  *)
(* the number of logged events of its severity.                            *)
CountsBackedByLog ==
    /\ attempt.violation_count <= events.violation
    /\ attempt.total_warning_count <= events.warning

(* The reason shown to the student is true of the evidence a proctor       *)
(* finds: a limit named in it was reached in the log, and a terminated     *)
(* attempt always gives one.                                               *)
TerminationIsEarned ==
    /\ attempt.status = "terminated" => attempt.termination_reason # "none"
    /\ attempt.termination_reason = "violations" =>
           events.violation >= MaxViolations
    /\ attempt.termination_reason = "warnings" =>
           WarnLimit > 0 /\ events.warning >= WarnLimit

(* Enough violations in the log always produced an alert to the proctors,  *)
(* however the requests that logged them interleaved; with a database that *)
(* hides violations committed beside a request, after as many more as it   *)
(* has hidden from one of them (proctoring._record_violation).             *)
HighRiskIsAnnounced ==
    events.violation >= HighRiskAfter + unseen =>
        attempt.high_risk_alert_sent /\ alerts > 0

============================================================================
