# Verification of the exam proctoring application

TLA+ models of the parts of this application in which several processes,
pages or requests meet, the TLC configurations that check them, and theorems
about them whose proofs TLAPS checks. Every definition follows the source code;
where a document, comment or docstring says something else, the model follows
the code and section 3 names the difference.

To repeat the results, in this directory: `tlc -workers 2 -config X.cfg M`
checks module `M` under configuration `X` (PROJECT.json pairs them), and
`tlapm P_proofs.tla` checks the proofs of module `P_proofs` (section 2 says
which proof module is about which modules).

## 1. The system and its components

The application is a Flask server (`app/*.py`) behind gunicorn with three worker
processes (`Dockerfile`), a relational database (SQLite by default, PostgreSQL
or MySQL in production), a directory of uploaded files, a scheduler that runs as
a process of its own or as a thread of every worker, and the JavaScript of the
exam page (`app/static/js/proctor.js`), which is as much a part of the protocol
as the server is: it keeps the answers, retries, and decides when to submit.

No handler locks a row or compares a version. A handler loads a row, decides on
the loaded copy, and SQLAlchemy writes the columns that changed when it commits.
The only cross-process guards are UNIQUE keys (`answers`,
`notification_claims`) and the conditional `UPDATE` of `job_leases`. Most of what
can go wrong follows from that, and from the unreliable line to the page.

| Component | State | Operations | Talks to | What is hard | What makes it correct |
|---|---|---|---|---|---|
| **Attempt record** (`student.py`, `proctoring.py`, `admin.py`, `notifications.py`) | row of `attempts`, `answers`, `proctoring_events` | submit, autosave, expiry, heartbeat, events, proctor's termination | exam page, live monitor, alerts | column-wise overwriting by stale requests, commits in the middle of a handler, killed workers | graded once and on the stored answers; finished stays finished; counters, reasons and alerts agree with the log |
| **Exam session** (`exam_sessions.py`) | `session_token`, owner, last-seen columns | claim, validate, release, force-release, block | exam page, attempt record | two claims at once, late beacons, a dead device | one page drives the attempt; a superseded page learns it; nobody is locked out |
| **Exam page: answers and submission** (`proctor.js`) | form, local copy, on-/offline flag, timers, owed submission | edit, autosave, go on- or offline, submit, retry, restore | server | lost, delayed and repeated requests, crashes, reloads | acknowledged answers survive; an exam that has ended is submitted |
| **Recordings** (`proctor.js`, `proctoring.py`, `retention.py`, `system_ops.py`) | chunk counters and retry queues, files, rows | record, upload, retry, serve, delete | disk, retention | reloads, repeated uploads, workers dying between file and row | listed is playable and shows what it says; no chunk is forgotten; deleted is gone |
| **Scheduler lease** (`scheduler.py`) | `job_leases` | claim, run, record result, wait | reminders | slow claims, long runs, dead owners | no overlap within a lease; the job keeps running |
| **Reminders** (`notifications.py`) | `notification_claims`, `notification_log` | sweep: check, claim, mail, log, release | scheduler, command line, admin page, mail server | concurrent sweeps, failures in every position | one mail per student and test; nobody is forgotten |
| **Other notifications** (`notifications.py`, `email_utils.py`, `sms_utils.py`) | `notification_log` | results, completion, accommodations, high-risk alerts | attempt record | commits inside helpers | best effort; alerts are never missed |
| **Evidence and detection** (`proctor.js`, `liveness.js`, `proctoring.py`) | stored event queue, streaks, grace periods, snapshots | detect, report, queue, flush | attempt record, live monitor | a page that dies while flushing, repeated reports | an event that was noticed is recorded, once |
| **Suspicion score, timeline, quality** (`proctoring.py`) | none (functions of the log) | score, rate | review pages, alerts | arithmetic at thresholds | monotone in the evidence |
| **Entitlement** (`student.py`, `admin.py`, `api_v1.py`) | eligibility row, attempts, appeals, requests for time | assign, start, appeal, grant, ask, approve, set, withdraw, erase | attempt record, grading | two starts, two decisions, an edit beside a decision | never more attempts than were earned; decisions add up |
| **Grading, review, publication** (`admin.py`, `models.py`, `notifications.py`) | manual scores, score, notice, review | submit, grade, edit the key, regrade, review | certificates, mail | graders together, an edit and its regrade apart | the score is the total of its answers; the result is announced when it is final |
| **Certificates** (`certificates.py`) | `certificates` | issue, verify | grading | two first downloads; a regrade after the issue | none before the result is final |
| **Live monitor, messages, alert stream** (`admin.py`, `student.py`, `proctoring.py`) | messages, delivered marks, last event id seen | send, deliver, stream, reconnect, terminate | heartbeat, events | an answer lost after the mark; ids committed out of order | alerts are pushed once and none is skipped; messages are shown |
| **Identity documents** (`proctoring.py`, `admin.py`) | documents, descriptors | upload, replace, compare, review | evidence | replacement under review | the accepted document is the one reviewed |
| **Access control** (`access_control.py`, `seb.py`) | none | network, distance and browser checks | start, heartbeat | address arithmetic | the check that gates is the one configured |
| **Accounts and login sessions** (`auth.py`, `otp.py`, `twofa.py`, `security.py`, `sso.py`, `captcha.py`, `profile.py`) | users, codes, failures, backup codes, login sessions | register, verify, log in, lock, reset, second factor, log out | everything | guesses and logins together | guesses are counted; codes work once; one usable session |
| **Organisations, invitations, roles** (`organizations.py`, `invitations.py`, `auth.py`, `admin.py`) | organisations, staff accounts, invitations | request, approve, reject, switch, invite, resend, revoke, accept, remove | accounts | acceptance against revocation, approval against rejection | a link makes one account; decisions stand; somebody is left |
| **Trash** (`admin.py`) | `deleted_at` columns | delete, restore, purge | attempts | a test erased under a running attempt | nothing that was appealed or certified disappears |
| **Retention of other records** (`retention.py`) | windows by organisation | sweep | - | precedence of windows | nothing younger than its window goes |
| **Backup and restore** (`backup.py`) | copies of the database | back up, delete | - | a copy taken under load | - |
| **Health alerts, error log** (`alerting.py`, `error_monitoring.py`, `system_ops.py`) | open alerts | evaluate, resolve | - | two errors together | one open alert per condition |
| **Authoring** (`admin.py`, `qti.py`, `forms.py`, `calendar_view.py`) | questions, revisions, sections, bank, tests, cohorts | edit, delete, order, import, copy | start, grading | overlapping edits, a deletion between look-up and commit | the history tells what happened; no dangling link; every section has its place |
| **Question order** (`randomize.py`) | none | shuffle by seed | start | - | a permutation, stable over reloads |
| **REST API** (`api_v1.py`) | eligibility rows | enrol; the rest reads | entitlement | - | - |
| **Similarity**, **analytics and reports**, **configuration and start-up**, **branding, legal pages, activity log** | - | read-only or presentation | - | - | - |

PROJECT.json lists the same components with their files and their status, and
under `hazards` each place of the code that is hard to test, with the properties
that cover it.

## 2. The modules

    AttemptRecord <- MCAttemptRecord      one attempt's row, many workers
    ExamSession                           which page drives the attempt
    ExamPage                              the page, its line, and the attempt
    Recordings                            chunks, files, rows, clean-ups
    Monitor                               events to the proctor, messages back
    Entitlement <- MCEntitlement          what a student may do on a test
    Grading <- MCGrading                  the score and what is made of it
    Accounts                              one account and its sessions
    Staffing <- MCStaffing                an organisation and its staff
    Authoring <- MCAuthoring              questions, history, sections, bank
    JobLease                              the scheduler's loop
    Reminders -> ReminderPromise          the sweep, and what it promises

    Attempt_proofs       AttemptRecord, Grading
    Exam_proofs          ExamPage, ExamSession
    Evidence_proofs      Recordings, Monitor
    Scheduler_proofs     Reminders, JobLease
    Entitlement_proofs, Accounts_proofs, Staffing_proofs, Authoring_proofs

The MC modules give the instances their values and symmetries. A proof module
EXTENDS the modules it is about. Where two of them share a proof module, the
definitions of one carry its name in theirs (`LeaseInit`, `SessionSpec`,
`GradingTypeOK`, `MonitorIInv`), and each pair is of modules that work side by side
on the same row, page or process.

The modules meet at narrow points, and what one leaves out another has:
`AttemptRecord` has the races between requests at the row, `ExamPage` has the
order in which one page's requests get there, `ExamSession` has who may send
them, `Monitor` how an event gets to the log and from there to the proctor. A
session conflict "may end the exam" in `ExamSession`, and an attempt simply ends
in `Monitor` and `Entitlement`, because the counts that decide it are in
`AttemptRecord`; of the attempt `Grading` has the submission only. `Reminders` does not rely
on `JobLease`, because neither does the code: the command line and the admin's
button run the sweep without the lease.

In most modules a request is two steps, `Load...` and `Commit...`, between which
any other request may work; what it read is in `call` (or `task`). A request
whose commit does not depend on what it read is one step. `GiveUp` is a request
whose commit failed or whose worker died. The variable `ghost` is read by
properties only: it remembers what no row holds, such as how many requests
overlapped. A property that says "unless two of them overlapped" counts those
overlaps in `ghost`: it says that nothing *else* does it.

**AttemptRecord.** `attempt` is the row, `answers` the `answers` rows, `events`
the log counted by severity, `task[w]` what worker `w` has loaded and is about to
commit. `Begin...` is a handler up to its last guard on the loaded row,
`Commit...` the end of its transaction: `Flushed` writes each column in which the
handler's copy differs from what it loaded. `AfterViolation` is the whole of
`_record_violation`: grace period, per-type policy, global warning limit,
threshold, and the alert's one-shot flag. The risk is taken of the violations that
the handler's transaction sees (`Visible`): all that are committed, or those of its
load (`task[w].log`), because MySQL's transactions keep their first snapshot and
no isolation level is configured. `unseen` is the most that a committed violation has
not seen. `HeartbeatChecksIp` loads again because
the refresh of the session has been committed in between. `FinalizeFails` is the
UNIQUE key of `answers`; `KilledWhileAlerting` is a worker killed (gunicorn's
120 s) after the alert's mail left and before the commit. Answers are two
contents; the suspicion score is "so many violations", which is what the alert
asks of it.

**ExamSession.** `row` is the session columns; a page is loading (`claiming`,
between the load of the attempt and the commit of `claim_session`), `rendering`
(the template reads the row again, because the commit expired it), `open`, or
`frozen` behind the conflict overlay. All the code asks of a token is equality
with the row, so a page holds the `latest` minted, an `older` one, or `none`.
Closing beacons are requests of their own, read and committed in two steps.

**ExamPage.** One window. Version *n* of the form is what it holds after the
*n*-th edit of the exam. `sent`, `acks`, `submit` are requests the page awaits;
`strays` are requests on their way that nobody awaits: time-outs and reloads
make them. `handleOffline`, `handleOnline`, `saveAnswersNow`, `submitExam`,
`retrySubmit`, `localBackupSave` and `localBackupRestore` are the actions of
about those names; `Heartbeat` is the monitor of the connection.

**Recordings.** Footage is numbered in the order it was shot. A chunk is footage
with the name (track and index) that the page gave it. An upload passes
`sent`, `saved` (the file is written), `answered` (the row is committed).
`StorePath`, `ServedPath` and `CleanersPath` are where the three kinds of code
look for the same recording, and they do not agree.

**JobLease.** An explicit clock. A pass is `Wake` (the clock is read), `Win` or
`Lose` (the conditional UPDATE, with the time that was read), `Finish`. A lease
is never given back.

**Reminders.** A sweeper is at one of the places between which it commits:
`looping`, `checked`, `claimed`, `sent`, `noted`, `raising`. `ReminderPromise` is
the abstract specification: a student is mailed once, unless the database has
failed a sweep after the mail left.

**Entitlement.** One student and one test, since no code relates two students.
`row` is the row of `test_eligibility`, `attempts` the attempts in the order of
their start. `MayStart` is `start_test`'s count of what is completed against
`max_attempts` and the extra ones, and its look for an attempt to resume. `Grant`
is in two loads, because `resolve_appeal` reads the appeal and the row one after
the other, and so is `Approval`. `Approved` writes the column only if the maximum
is above what was loaded. Without a row an approval raises an error, and the commit in
which `error_monitoring.log_error` records it inserts the row the request had begun
(`ApprovalFails`). `Erase` is the purge of a test in the trash: an appeal
has no cascade and a column that may not be NULL, so it fails while there is one.
`Enroll` is the roster call of the API, which asks first that the test is not in
the trash.

**Grading.** A question is graded by hand or by its key, and a version says
whether the key accepts this answer. `Total` is `recompute_attempt_score`. Every
submission, and every grader who found something pending, commits and then goes on to
`notify`, which reads the rows again: whatever others have committed in between
decides who announces. Grading looks at no status, so an attempt in progress may be
graded, with no answers or, when the submission commits between the load and the
recomputation, with all of them. `GradeFails` is a recomputation that raises over a
deleted question; the commit that logs the error writes the grades. An edit
commits (`Edit`) and regrades in a second transaction (`LoadRegrade`,
`CommitRegrade`). The columns of the review are written one by one (`Concluded`).

**Accounts.** Two browsers on one account, with a clock for the lock, the life of
a code, and the cool-down. A browser's cookie holds what it knows of a half
finished flow, and its login apart from its session: `login_user` writes the one
into the cookie before the commit of `register_login`, after which the other
follows. When that commit is refused (`EnterRefused`) the error page still carries the
login, the sessions that were to end have not ended, and the browser is let through
without a session; `ghost.untracked` counts these. A browser whose session has ended
(`Stale`) learns it at the head of its next request (`Replaced`). `GiveUp` is a request
that ends before there is a login. `verify_otp`, `issue_otp`, `redeem`, the password with its counter,
`consume_backup_code`, `register_login` and the check before each request are the
actions of about those names. A code is asked for by `AskForCode` (verification)
and `AskForReset`, and a reset asked for again within the cool-down only makes the
browser forget the code it had verified (`StartOver`). An account comes from
`Register`, from a staff import that has verified it (`ImportUser`), or from SSO.

**Staffing.** An organisation, the accounts of its administrators and their
invitations. `Invite` is `create_invitation` up to its checks, reached by `InviteStaff`,
`InviteOrgAdmin` and `Resend`. `Claimable` is the conditional UPDATE of `accept`, `Superseded` the
withdrawal of older links, `Decided` what approval or rejection make of the
accounts that were found waiting.

**Monitor.** Each event is somewhere between the page's eye and its row; a row is
`open` (it has its id), `kept` or `gone`. Rows are committed in any order, as
PostgreSQL and MySQL do it; SQLite's single writer is the case in which no two
are open. `stream` is the browser's EventSource: `StartAt` is where the server
lets a connection begin, with and without a Last-Event-ID. A heartbeat loads the
messages, marks them, and is answered or not.

**Authoring.** A question has a text, which stands for all fields that are typed,
and a section. `After` is the new value the history page shows for a revision,
which it reads from the revisions after it. `NextOrder`, the posted list of
`reorder_sections`, and `Unsectioned` are the sections; `crossed` marks what was
deleted between the request that looked it up and its commit.

## 3. The runs

| Run | Checks | Distinct states |
|---|---|---|
| `attempt_record` | a finished attempt stays finished, graded once and on its answers; counters, reasons and alerts agree with the log | 299,394 |
| `exam_session` | one page drives the attempt; a superseded page learns it; nobody is locked out | 205,962 |
| `exam_page` | acknowledged answers survive; answers reach the server; an exam out of time is submitted | 187,032 |
| `recordings` | what is listed plays, and plays its own footage; nothing is forgotten; chunks get stored | 484,178 |
| `monitor` | alerts neither repeated nor skipped; messages shown; events counted once; all of it gets through | 616,302 |
| `entitlement` | attempts are earned; only overlaps double; decisions add up | 753,573 |
| `grading` | the score is the total; announced when final; signed by who decided | 617,049 |
| `accounts` | guesses are counted; codes work once; one usable session | 2,534,104 |
| `staffing` | links work once; one live link; decisions stand; somebody is left | 539,285 |
| `authoring` | the history is true; no dangling link, every section in its place | 404,903 |
| `job_lease` | no overlap within a lease; the job keeps running | 40,909 |
| `reminders` | one mail per student and test, as `ReminderPromise` has it; orphaned claims are mishaps; everybody is served | 250,506 |

**What they show, and why the bounds are enough**

- `attempt_record`: two workers are enough for every race of a load and a commit
  with one other request, and as requests follow one another without end, a
  stale request may be overtaken by any number of others. `MaxViolations = 2`,
  `WarnLimit = 1`, one limited warning for the network check and three accepted
  events reach each threshold from both sides, with and without the grace
  period, and two violations that do not see each other can cross it together.
  Workers are interchangeable (symmetry). The theorems remove the bounds.
- `exam_session`: two windows in either of two browsers. Calls, claims and
  beacons repeat without bound, because tokens are latest, older or none.
- `exam_page`: one edit makes two versions of the answers, which is what telling
  "lost" from "kept" takes; requests, crashes, reloads and failures are
  unbounded. The theorems hold for any number of edits.
- `recordings`: two tracks, two chunks, queues of one, one reload; failures,
  deaths of workers and clean-ups are unbounded. A queue of one is at its limit
  with the second failure of a track; two chunks reach a collision of names, of
  tracks and of loads.
- `job_lease`: two processes, an interval of 5 (the floor in the code), passes of
  up to 2, one death, a horizon of four intervals, in which the lease changes
  hands several times. `RunsKeepComing` is liveness in bounded form, on the clock.
- `reminders`: two sweepers, two students of whom one has opted out, one fault of
  each kind and one crash; sweeps repeat without bound.
- `monitor`: two events and two rows, so that ids can be committed out of order; one
  message, two heartbeats, so that both can load it; one loss (an outage takes
  every request with it) and one break of a stream or a page, which is what each
  exception in the properties needs, alone and together.
- `entitlement`: two handlers, one attempt allowed, up to two started, requests for
  10 and 20 minutes, so that the larger one can be lost; after one overlapping
  commit nothing new begins. Without that bound the counts of overlaps grow and
  nothing else does. The theorems remove all of it.
- `grading`: two questions in three versions (by hand, by a key that accepts, by
  one that rejects), graders who type more and less than allowed, a negative mark,
  five calls: submission, two graders together, an edit and its regrade.
- `accounts`: two failures lock, two tries burn a code, one backup code, a clock of
  two units of everything that expires, five requests (a login with a second
  factor is three).
- `staffing`: two requests together, two persons, three links, a life of 1 in a
  horizon of 2 so that links expire, seven requests: request, approval, invitation,
  acceptance and two removals.
- `authoring`: two values, two questions, three sections (two can be swapped while a
  third one is added), one bank item, six requests.

Deadlock checking is off where the system may really stop: a finished attempt
without requests (`AttemptRecord`), a finished exam whose pages are closed
(`ExamSession`), the end of the horizon (`JobLease`), and where the bound on calls
has been reached (`Entitlement`, `Grading`, `Accounts`, `Staffing`, `Authoring`), or
on rows, losses and breaks (`Monitor`). Elsewhere it is on.

**What documents, comments and docstrings say otherwise**

The code differs from these; the models follow the code, and each property holds
with the difference.

- A termination that comes after a submit is said to be answered with 409
  (`admin.py:1646`); one that was loaded before the submit overwrites it
  (`admin.py:1705`). `FinishedStaysFinished` and `SubmittedIsGraded` allow that.
- The newer tab's claim is said to supersede the older tab's token
  (`exam_sessions.py:28`); of two claims that overlap, both pages are rendered with
  the second token (`exam_sessions.py:154`).
- A failed submission is said to be retried when the connection returns
  (`proctor.js:2109`); one that the student clicked has no reason to show and is
  never retried (`proctor.js:2113`). `TimedSubmitCompletes` is about the others.
- A full recording is said to exist even if the tab crashes (`proctoring.py:1577`);
  chunks shot after a reload overwrite those shot before, because their numbers
  begin again (`proctor.js:70`, `proctor.js:1931`). `PlaysItsOwnFootage` allows that.
- Deleting a recording is said to delete its file (`retention.py:15`); the file is
  looked for in the wrong directory (`retention.py:123`, theorem `CleanersMiss`), and
  so are snapshots (`retention.py:138`).
- A failed send is said to release the claim (`README.md:241`); `notify` swallows the
  failure and the claim stays (`notifications.py:104`). `OrphansAreMishaps` counts it.
- Recomputing a score is said to be right whenever it is called, "since it always
  recomputes the full total from scratch" (`models.py:830-837`); of two graders who
  save together the last one writes a total without the other's marks
  (`admin.py:1356`).
- The alert stream "never re-delivers or skips an alert" (`admin.py:1515-1521`): a
  connection that ends before its first alert has no Last-Event-ID and begins at
  the newest row, and a row committed after one with a larger id is passed over.
- A proctor's message is shown "exactly once" (`student.py:463`, `proctor.js:295`): a
  lost answer loses it and two heartbeats together show it twice.
- "At most one session per account is ever actually usable" (`models.py:1117`): two
  logins together do not see each other, and a browser whose ended session was
  purged from the table passes the check again (`security.py:191`). So does one whose
  session the database refused: the login is in its cookie before the commit
  (`auth.py:393`, `auth.py:428`, `sso.py:148`; `security.py:65`), no token is, and a
  login without a token is let through (`security.py:188-190`). `OneUsableSession` has
  the number of usable sessions bounded by how often each of these happened.
- "There's never more than one live link per person" (`invitations.py:63`): two
  invitations together leave two.
- A question's history shows a change of section as to nothing if that section was
  deleted later: the deletion writes no revision (`admin.py:1072`).
- An approval and a rejection of an organisation together leave it with the status
  of the one and accounts of the other (`organizations.py:132`).
- `approve_accommodation` takes the maximum of a column default that is not set
  before the flush when the student has no eligibility row, and fails
  (`admin.py:2611`). The student is made eligible all the same: the commit that logs the
  error (`error_monitoring.py:36`) inserts the row, and the request stays pending. In the
  same way a grade that fails over a deleted question is kept without its score.
- An autosave that is answered clears the local copy even when the form has
  changed since it was sent (`proctor.js:1269`). What was typed in between is
  then only in the page until the next input or autosave, against the comment at
  `proctor.js:141-144` ("never loses more than a few hundred ms"). `AckedSurvives`
  therefore speaks of what the server acknowledged and not of what was typed.
- Two violations served together may count once, because the counter is
  incremented on a loaded copy (`proctoring.py:1008`), against `README.md:652-653`.
  `CountsBackedByLog` states the direction that holds.
- "Exactly one alert per attempt" (`models.py:683-687`): two workers that both
  loaded the clear flag send one each. `HighRiskIsAnnounced` states "at least one".
- The alert is said to be sent "right after a violation pushes the attempt's risk" over
  the threshold (`notifications.py:463-467`). Two violations together may each see only
  themselves (`proctoring.py:1027-1028`) under MySQL's snapshots (`README.md:10`,
  `README.md:315`), and then nobody sends it until a later event. `HighRiskIsAnnounced`
  puts the threshold up by what was hidden from a handler.
- "Final scoring only ever reads the real POST" (`student.py:345-346`): the expiry
  of an attempt is graded on what was autosaved (`student.py:294-297`).
- The draft is said to be "cleared once the attempt is actually
  submitted/terminated" (`models.py:665-669`); a termination leaves it.
- "Every autosave/submit/heartbeat call must present the matching token"
  (`exam_sessions.py:41-45`): a call that presents none is accepted, and the
  page's first submission presents none.
- Two claims of different browsers that overlap may leave the row with the
  second one's token and the other's owner column, which is only written when it
  changed. `SingleDriver` is about claims that did not overlap.
- A submission that is retried reads the form again (`proctor.js:409`), which has
  stayed editable after the end of the exam.
- An attempt whose student does not come back before the window of its test
  closes is never graded: the window is tested (`student.py:258`) before the
  expiry code (`student.py:287`).
- Two errors logged together may both find no open alert and open one each
  (`alerting.py:79`), against "no new one is created" (`alerting.py:18`). Not modelled.

## 4. Fairness

- `AttemptRecord`: none; its properties are safety. A request may never commit.
- `Entitlement`, `Grading`, `Accounts`, `Staffing`, `Authoring`: none; safety only.
  Nobody is obliged to send a request, and one that was sent may fail.
- `JobLease`: none. Time cannot pass a wake-up or the longest pass, so progress
  is a bound on the clock. That a pass ends within `MaxPass` is an assumption on
  the mail server and the database, and a parameter.
- `Reminders`: weak fairness of each sweeper's own steps: the scheduler sweeps
  every interval and a live process goes on. Failures, crashes and students who
  start are not fair.
- `ExamSession`: requests are answered, open pages send heartbeats, the staleness
  window passes, and the student keeps trying in one window. Nothing obliges
  anybody to close a page, a beacon to arrive, or an exam to end.
- `ExamPage`: intervals and timers of an open page fire (autosave every 20 s, the
  local copy's half second, heartbeats every 4-30 s, the end of the time), and a
  request is handled and then answered, or fails. The connection is not fair;
  the liveness properties say "once it holds". The student is not obliged to edit,
  submit or come back.
- `Recordings`: the retry interval and the heartbeats fire, and an upload is
  handled and answered, or fails. Workers may die without end; `ChunksGetStored`
  says what follows once they do not.

- `Monitor`: the page arms its next heartbeat after every one, answered or not
  (`EmptyBeat`, `LoadBeat`), and a request that has reached the server is worked on
  and answered, or the page is gone. Events, streams, messages and reconnects of
  the proctor are not fair.

## 5. What is proved

For every value of the constants (subject to the `ASSUME`s of each module, which
say no more than what types and positive limits are):

- **AttemptRecord**: `TypeOK`, `SubmittedIsGraded`, `RunningIsWithinLimits`,
  `CountsBackedByLog`, `TerminationIsEarned`, `HighRiskIsAnnounced`, and the action
  properties `FinishedStaysFinished` and `AnswersWrittenOnce`. None is inductive,
  because a request in flight holds a copy of the row that may be arbitrarily old.
  `SeenIsPast` says what such a copy still guarantees: its counters were backed by
  the log, it was within the limits, its flags and its end have since not been
  taken back, its score is none or the one there is, and the log has grown by what
  was not visible (`task.log`). As the row only advances
  (`Advances`), the past stays past (`PastSurvives`), and each commit is then an
  arithmetic argument about columns that are written or left.
- **Grading**: `ScoreIsTotal`, `PublishedWhenFinal`, `SignedByDecider`, and the types of
  everything but the score. `LoadedThen` says what a call's copy still tells: a
  submission found nothing graded, a grader who found answers found the attempt
  submitted, and who wants a certificate found the result final once. `Published`
  counts: the calls that are about to announce a final result, submissions included,
  and the notices sent are together no more than the times the result became final and
  the overlaps. `Total` is a fold,
  of which nothing can be proved by induction here; the score agrees with it because
  both are taken of the same rows.
- **ExamSession**: `SessionTypeOK` and `SingleDriver`. The strengthening says that a
  standing of "own" read at the load still holds at the commit if nothing
  overlapped (`OwnStaysOwn`), and that such a claim is alone between commit and
  rendering (`AloneUntilRendered`).
- **ExamPage**: `TypeOK`, `AckedSurvives`, `LeftMeansFinished`. `Running` orders by
  age what was acknowledged, what is stored, what is on its way and what the page
  or the local copy holds; `Stages` says which requests go with which stage of the
  page, and `Graded` carries the order over the end of the exam.
- **Recordings**: `TypeOK`, `ListedIsPlayable`, `PlaysItsOwnFootage`,
  `NothingForgotten`, and `CleanersMiss`: no clean-up ever removes a recording's
  file. `FileFirst` has files precede rows; `OneName` has a name stand for one
  piece of footage during the first load, in rows, uploads and queues alike.
- **Monitor**: `MonitorTypeOK`, `AlertsResume`, `MessagesShowOnce`, `EventsCountedOnce`.
  `StreamFollows`: every row that was pushed lies at or before the stream's position
  and the Last-Event-ID, which are rows that are kept, so that going on from either
  pushes nothing again. `MessagesMove`: a message that no two heartbeats have loaded
  is in one place, waiting, in one answer, or read. `RowsArePaid`: each row of an
  event beyond the first is paid for by a time it was sent again; the place the
  event is in says whether its first row has been used (`OneUnpaid`).
- **JobLease**: `LeaseTypeOK`, `OverlapOnlyAfterTtl`, `RunsKeepComing`. `RunsAreApart`
  separates any two running processes by a lease; `AttemptsAreDue` bounds every
  process's next attempt by the lease's expiry, and `WithoutCrashes` has the last
  owner return just after its own lease ran out.
- **Reminders**: `TypeOK`, `OneOwner`, and `PromiseKept`: initial states and steps
  map to those of `ReminderPromise` or stutter. `MailedStaysClaimed`: until the first
  late fault a mailed student is claimed, and whoever could release a claim has
  not mailed. `OrphansAreMishaps` counts: the claims that nothing came of and that
  nobody at work will give back or log are no more than the mishaps so far, since
  only a crash, a failed release and a failed entry in the log add one
  (`FewLoose`).
- **Entitlement**: `TypeOK`, `SeatsAreEarned`, `OnlyOverlapsDouble`, `DecisionsAddUp`.
  `Starts` says of a start under way that there was room below the largest allowance
  and the overlaps so far when it looked, and that until somebody adds or erases an
  attempt the latest one is finished; `Overlaps` that the attempts still running
  behind the latest one were all started by an overlap; `Asks` the same of requests
  for time; `Sums` that as long as no write was stale the row holds what is
  owed, and that nothing is owed where there is no row: a decision then commits
  onto the row it loaded, and adds to both.
- **Accounts**: `TypeOK`, `GuessesAreCounted`, `CodesWorkOnce`, `OneUsableSession`. Each
  counter is bounded by what the rows say plus what was lost or overlapped:
  `CodesCounted` (guesses by the tries of the code, resets by its mark),
  `PasswordsCounted` (wrong passwords by the failures of the account), `BackupOnce` (a
  code that is still listed was used by overlaps only), `OneOpen` and
  `SessionsCounted` (cardinalities of the codes that are open and the sessions that are
  active or purged; no two browsers hold one session). `Logins` is a second invariant:
  without an account nobody is logged in, and the logins without a session are no more
  than were counted (`Untracked`), so that of the browsers logged in all others hold
  distinct sessions that are active or purged. `CallsSound` adds that what a
  request has loaded points at rows that exist and at a code not yet burnt. A commit
  over an old counter sets it back by exactly what `ghost.lost` gains; a commit
  that adds a row beside one it has not seen gains an overlap.
- **Authoring**: `TypeOK`, `HistoryIsTrue`, `StructureIsSound`. `CallsKnow`: an edit under
  way names a question and a section that have been there; `EditsKnown`: every
  revision has the edit that wrote it. With these `HistoryIsTrue` is inductive: a new
  revision is compared with the question itself, an older one with the first later
  one of the same field, or with the question when there is none. `Links` and `Places`
  follow what is marked as `crossed` and `mixed`.
- **Staffing**: `TypeOK`, `LinksWorkOnce`, `OneLiveLink`, `DecisionStands`,
  `SomebodyIsLeft`. `Holding` says that links and persons a request has loaded are
  there; `Links` bounds the open links of a person by the overlaps, by
  cardinality: a new link comes with the withdrawal of those its request had
  loaded; `Deciding` that only a
  decision about an organisation still writes its accounts, unless two decisions
  overlapped.

**Lemmas about the operators** that several proofs rest on: the greatest element of a
set of numbers below a bound (`Greatest`, for `Max` in `Monitor` and `Accounts`), what an
append and a change of one row do to a table and to what is counted of it, and what
a write of one column leaves alone (`GhostWritten`, `RowsGhost`, `OneCall`).

**Only model-checked**: everything that needs fairness (`EverybodyIsServed`,
`SupersededPageLearns`, `NobodyIsLockedOut`, `AnswersReachServer`,
`TimedSubmitCompletes`, `ChunksGetStored`, `AllGetsThrough`), which TLAPS cannot
prove. Every other property of the runs is a theorem. The type invariants of all
modules are theorems (of `Grading` without the type of the score, since `Total` is a
fold) and no run repeats them; `RunningIsWithinLimits`, `LeftMeansFinished` and
`OneOwner` are proved and in no run.

## 6. Not modelled

**Of the modelled parts.** Contents of answers (a value, or what a key makes of it);
per-question times, which the page sends as differences and which a lost answer
may count twice (`student.py:210`); texts of reasons and mails; SMS, which follow the
mail and keep no state; snapshots and identity checks, which record events as the
modelled ones do; addresses and device descriptions of a session; sizes and codecs
of recordings; an internal error answered to an autosave, which the page takes for
success (`proctor.js:1266`). The submission that reads the form again on its retry
(`proctor.js:409`) is a choice of `ExamPage`. SQLite serialises commits and may
refuse one that is locked out for too long, which the models have as a request that
was killed or gave up. The log of errors is not modelled, but what its commit writes
of a request that failed half-way is (`GradeFails`, `ApprovalFails`).

- `Entitlement`: the closing of a test's window over a running attempt is the
  withdrawal of the test; the grading of the attempt is elsewhere.
- `Grading`: a test's negative and passing marks are constants. Changing them
  (`admin.py:121-128`) regrades nothing, so that scores by the old rule remain.
- `Accounts`: passwords and codes are right or wrong; hashing, TOTP, OAuth and CAPTCHA
  answer as they like.
- `Staffing`: SQLite may give a deleted account's id to a new one; `SameRow` stands for
  it only as far as links tell. The role and the verified flag are payload. A sign-in
  by SSO does not ask for the organisation's status. A revocation that overlaps the
  acceptance stamps the accepted row too.
- `Monitor`: the queue is flushed only when the page comes back online or is loaded
  (a report that fails alone leaves its event queued until then, which is why
  `AllGetsThrough` begins with an outage that was noticed); the page's own
  `connection_lost` and `connection_restored` events are left out, and the stream is
  not followed after the attempt has ended.
- `Authoring`: fields of a section, of a bank item and of a test, QTI, cohorts,
  templates and media are forms that write one row each. A database that enforces
  foreign keys refuses the commit that would dangle: `GiveUp`.

**Whole components.**

- *Identity documents*: the decision is about pixels and each request is alone with its
  row, but for three facts met while reading: confirming a match or enrolling a face
  asks nothing about an earlier rejection; an upload removes the old file before the
  new name is committed (`proctoring.py:1403-1445`), so that a worker that dies in
  between leaves a row without a file; and a review is stored for whatever document
  the row holds by then.
- *Detectors, score, timeline, quality, question order, networks, distance, SEB,
  similarity*: pure functions of one input, many on floats or pixels, with no state
  that several steps could corrupt; a unit test reaches them.
- *Retention windows, backup, health alerts*: one statement or one file operation each,
  run by an operator. A copy of an SQLite file under load (`backup.py:78`) depends on
  the file system and the journal, which are not in this repository.
- *Analytics, reports, most of the REST API, branding, legal pages, activity log*: they
  read, or write one row that nothing else reads. *Configuration, migrations*: run
  once, before anything modelled.

## 7. What would come next

1. `ExamSession` composed with `ExamPage` (an autosave refused with 409), and
   `JobLease` with `Reminders`.
2. The documents of identity, once their review asks which document was seen.
3. An abstract life of an exam (entitled, started, finished, graded, announced), and
   `AttemptRecord`, `Entitlement` and `Grading` shown to implement it.
