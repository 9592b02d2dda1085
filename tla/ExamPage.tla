------------------------------ MODULE ExamPage ------------------------------
(***************************************************************************)
(* How answers get from the exam page to the server (static/js/proctor.js, *)
(* app/student.py) over a connection that comes and goes.  The page keeps  *)
(* a copy in local storage, autosaves, watches the connection with         *)
(* heartbeats, and submits when the student says so, when the time is up,  *)
(* or when it is told that the attempt was terminated.                     *)
(*                                                                         *)
(* One window is followed, over crashes and reloads: who may drive the     *)
(* attempt when there are several is ExamSession's subject, and what       *)
(* requests that race do to the row is AttemptRecord's.  Proctoring events *)
(* and recordings are queued apart from the answers and left out.          *)
(*                                                                         *)
(* Answers are counted, not spelled out: version n of the form is what it  *)
(* holds after the n-th edit of the exam.                                  *)
(***************************************************************************)
EXTENDS Naturals

CONSTANT MaxEdits   \* bound: edits the student makes, in all

ASSUME MaxEditsAssumption == MaxEdits \in Nat

Version == 0 .. MaxEdits
NoCopy == MaxEdits + 1

VARIABLES
    up,         \* requests and answers get through
    due,        \* the allotted time is over
    edits,      \* edits made so far
    page,       \* the exam page
    backup,     \* the copy in local storage, or NoCopy
    sent,       \* autosaves the page awaits, not yet at the server
    acks,       \* answers to autosaves, on their way to the page
    submit,     \* the submission the page awaits
    strays,     \* requests on their way that no page awaits any more
    server,     \* the attempt
    acked,      \* history: the newest version the page was told is saved
    raced       \* history: two requests for the server were on their way at once

vars == <<up, due, edits, page, backup, sent, acks, submit, strays, server,
          acked, raced>>

(* active: examActive; ended: examEnded; left: redirected to the result.   *)
(* unsaved: the timer of the local copy runs; owed: pendingSubmitReason    *)
(* is not null.                                                            *)
Page == [at : {"closed", "active", "ended", "left"},
         form : Version, unsaved : BOOLEAN, online : BOOLEAN, owed : BOOLEAN]

(* clicked: submitExam(null); automatic: submitExam with a reason to show. *)
Submission == [stage : {"none", "sent", "answered"}, form : Version,
               reason : {"clicked", "automatic"}, retried : BOOLEAN]

(* Requests that find the attempt over change nothing, and are not followed.*)
Stray == [kind : {"save", "submit", "retry"}, form : Version]

Attempt == [status : {"in_progress", "submitted", "terminated"},
            saved : Version, graded : Version]

TypeOK ==
    /\ up \in BOOLEAN /\ due \in BOOLEAN /\ raced \in BOOLEAN
    /\ edits \in Version /\ acked \in Version
    /\ page \in Page
    /\ backup \in Version \cup {NoCopy}
    /\ sent \subseteq Version /\ acks \subseteq Version
    /\ submit \in Submission
    /\ strays \subseteq Stray
    /\ server \in Attempt

Unloaded == [at |-> "closed", form |-> 0, unsaved |-> FALSE, online |-> TRUE,
             owed |-> FALSE]

NoSubmission == [stage |-> "none", form |-> 0, reason |-> "clicked",
                 retried |-> FALSE]

Init ==
    /\ up = TRUE /\ due = FALSE /\ edits = 0
    /\ page = Unloaded
    /\ backup = NoCopy
    /\ sent = {} /\ acks = {} /\ submit = NoSubmission /\ strays = {}
    /\ server = [status |-> "in_progress", saved |-> 0, graded |-> 0]
    /\ acked = 0 /\ raced = FALSE

Followed(requests) == IF server'.status = "in_progress" THEN requests ELSE {}

InProgress == server.status = "in_progress"
Open == page.at \in {"active", "ended"}
Active == page.at = "active"

----------------------------------------------------------------------------
(* The attempt at the server.                                              *)

(* autosave_answers                                                        *)
Saved(v) == IF InProgress THEN [server EXCEPT !.saved = v] ELSE server

(* submit_answers, or the expiry in start_test with the autosaved version. *)
Submitted(v) ==
    IF InProgress
    THEN [status |-> "submitted", saved |-> 0, graded |-> v]
    ELSE server

----------------------------------------------------------------------------
(* Loading the page.                                                       *)

(* Mutant: without a local copy, the page comes up blank.                  *)
RestoredLocally == IF backup = NoCopy THEN 0 ELSE backup

(* What a reload shows: the local copy is put over the autosaved answers.  *)
Restored == IF backup = NoCopy THEN server.saved ELSE backup

(* A reload claims the attempt with a new token, which ends the validity   *)
(* of autosaves and retries sent before.  A first submission has no token. *)
StillValid == {r \in strays : r.kind = "submit"}

Load ==
    /\ page.at = "closed" /\ up /\ InProgress /\ ~due
    /\ page' = [Unloaded EXCEPT !.at = "active", !.form = Restored]
    /\ strays' = StillValid
    /\ raced' = (raced \/ strays' # {})
    /\ UNCHANGED <<up, due, edits, backup, sent, acks, submit, server, acked>>

(* start_test finds the time over: graded on what was last autosaved.      *)
LoadTooLate ==
    /\ page.at = "closed" /\ up /\ InProgress /\ due
    /\ server' = Submitted(server.saved)
    /\ strays' = Followed(strays)
    /\ page' = [Unloaded EXCEPT !.at = "left"]
    /\ UNCHANGED <<up, due, edits, backup, sent, acks, submit, acked, raced>>

(* Requests of a page that is gone may or may not have reached the server. *)
LeftBehindSubmit ==
    IF submit.stage = "sent"
    THEN {[kind |-> IF submit.retried THEN "retry" ELSE "submit",
           form |-> submit.form]}
    ELSE {}

LeftBehind ==
    {[kind |-> "save", form |-> v] : v \in sent} \cup LeftBehindSubmit

(* The browser, the device or its power fails, or the page is reloaded.    *)
Crash ==
    /\ Open
    /\ page' = Unloaded
    /\ sent' = {} /\ acks' = {} /\ submit' = NoSubmission
    /\ UNCHANGED <<up, due, edits, backup, server, acked, raced>>
    /\ strays' = Followed(strays \cup LeftBehind)

----------------------------------------------------------------------------
(* Editing, the local copy and autosaves.                                  *)

(* The form is not locked when the exam has ended.                         *)
Edit ==
    /\ Open /\ edits < MaxEdits
    /\ edits' = edits + 1
    /\ page' = [page EXCEPT !.form = edits', !.unsaved = TRUE]
    /\ UNCHANGED <<up, due, backup, sent, acks, submit, strays, server, acked,
                   raced>>

(* localBackupSave, half a second after the last input.                    *)
BackUp ==
    /\ Open /\ page.unsaved
    /\ backup' = page.form
    /\ page' = [page EXCEPT !.unsaved = FALSE]
    /\ UNCHANGED <<up, due, edits, sent, acks, submit, strays, server, acked,
                   raced>>

(* Autosaves of other versions that may still reach the server.            *)
OnTheWay(v) == (sent \cup {r.form : r \in {q \in strays : q.kind = "save"}}) \ {v}

SendSave ==
    /\ backup' = page.form
    /\ sent' = sent \cup {page.form}
    /\ raced' = (raced \/ OnTheWay(page.form) # {})

(* Mutant: a form that has no local copy is taken for saved.               *)
SaveAnswersNowIfCopied ==
    /\ Active /\ backup # NoCopy
    /\ IF page.online THEN SendSave
                      ELSE backup' = page.form /\ UNCHANGED <<sent, raced>>
    /\ UNCHANGED <<up, due, edits, page, acks, submit, strays, server, acked>>

(* saveAnswersNow, by interval or after a change.                          *)
SaveAnswersNow ==
    /\ Active
    /\ IF page.online THEN SendSave
                      ELSE backup' = page.form /\ UNCHANGED <<sent, raced>>
    /\ UNCHANGED <<up, due, edits, page, acks, submit, strays, server, acked>>

ServerSaves(v) ==
    /\ v \in sent
    /\ server' = Saved(v)
    /\ sent' = sent \ {v} /\ acks' = acks \cup {v}
    /\ UNCHANGED <<up, due, edits, page, backup, submit, strays, acked,
                   raced>>

(* Any answer but a conflict counts as saved, and clears the local copy.   *)
SaveAnswered(v) ==
    /\ v \in acks /\ up
    /\ acks' = acks \ {v}
    /\ backup' = NoCopy
    /\ acked' = IF v > acked THEN v ELSE acked
    /\ UNCHANGED <<up, due, edits, page, sent, submit, strays, server,
                   raced>>

(* handleOffline                                                           *)
HandleOffline ==
    /\ page' = [page EXCEPT !.online = FALSE]
    /\ backup' = IF page.online THEN page.form ELSE backup

(* The request, or its answer, is lost; or only the page gave it up.       *)
SaveFails(v) ==
    /\ v \in sent \cup acks /\ ~up
    /\ HandleOffline
    /\ sent' = sent \ {v} /\ acks' = acks \ {v}
    /\ UNCHANGED <<up, due, edits, submit, server, acked, raced>>
    /\ \/ strays' = strays
       \/ v \in sent /\ strays' = Followed(strays \cup {[kind |-> "save", form |-> v]})

----------------------------------------------------------------------------
(* Submitting.                                                             *)

(* submitExam                                                              *)
SubmitExam(reason) ==
    /\ Active
    /\ page' = [page EXCEPT !.at = "ended"]
    /\ backup' = page.form
    /\ submit' = [stage |-> "sent", form |-> page.form, reason |-> reason,
                  retried |-> FALSE]
    /\ UNCHANGED <<up, due, edits, sent, acks, strays, server, acked, raced>>

ClickSubmit == SubmitExam("clicked")

TimeExpired == due /\ SubmitExam("automatic")

(* The answer to a proctoring event says that the attempt is terminated.   *)
ToldTerminated == up /\ server.status = "terminated" /\ SubmitExam("automatic")

ServerSubmits ==
    /\ submit.stage = "sent"
    /\ server' = Submitted(submit.form)
    /\ submit' = [submit EXCEPT !.stage = "answered"]
    /\ strays' = Followed(strays)
    /\ UNCHANGED <<up, due, edits, page, backup, sent, acks, acked, raced>>

SubmitAnswered ==
    /\ submit.stage = "answered" /\ up
    /\ page' = [Unloaded EXCEPT !.at = "left"]
    /\ backup' = NoCopy
    /\ sent' = {} /\ acks' = {} /\ submit' = NoSubmission
    /\ UNCHANGED <<up, due, edits, strays, server, acked, raced>>

(* pendingSubmitReason = reason                                            *)
AfterFailure == [page EXCEPT !.owed = (submit.reason = "automatic")]

SubmitFails ==
    /\ submit.stage # "none" /\ ~up
    /\ page' = AfterFailure
    /\ submit' = NoSubmission
    /\ UNCHANGED <<up, due, edits, backup, sent, acks, server, acked, raced>>
    /\ \/ strays' = strays
       \/ strays' = Followed(strays \cup LeftBehindSubmit)

----------------------------------------------------------------------------
(* Heartbeats.                                                             *)

HeartbeatFails ==
    /\ Open /\ ~up
    /\ HandleOffline
    /\ UNCHANGED <<up, due, edits, sent, acks, submit, strays, server, acked,
                   raced>>

(* Mutant: an owed submission is sent when the connection comes back, not  *)
(* at every heartbeat that gets through.                                   *)
MustRetryOnReconnect == page.owed /\ ~page.online

MustRetry == page.owed

(* The form is read anew: retrySubmit sends what it holds by now.          *)
RetrySubmit ==
    /\ Open /\ up /\ MustRetry
    /\ page' = [page EXCEPT !.online = TRUE, !.owed = FALSE]
    /\ submit' = [stage |-> "sent", form |-> page.form, reason |-> "automatic",
                  retried |-> TRUE]
    /\ UNCHANGED <<up, due, edits, backup, sent, acks, strays, server, acked,
                   raced>>

HearFinished ==
    /\ Active /\ up /\ ~page.owed /\ ~InProgress
    /\ page' = [Unloaded EXCEPT !.at = "left"]
    /\ sent' = {} /\ acks' = {}
    /\ UNCHANGED <<up, due, edits, backup, submit, strays, server, acked,
                   raced>>

(* Back online: what was typed meanwhile is saved at once.                 *)
Reconnect ==
    /\ Open /\ up /\ ~page.owed /\ ~page.online
    /\ Active => InProgress
    /\ page' = [page EXCEPT !.online = TRUE]
    /\ IF Active THEN SendSave ELSE UNCHANGED <<backup, sent, raced>>
    /\ UNCHANGED <<up, due, edits, acks, submit, strays, server, acked>>

Heartbeat == HeartbeatFails \/ RetrySubmit \/ HearFinished \/ Reconnect

----------------------------------------------------------------------------
(* The rest of the world.                                                  *)

StrayArrives(r) ==
    /\ r \in strays
    /\ server' \in {server, IF r.kind = "save" THEN Saved(r.form)
                                               ELSE Submitted(r.form)}
    /\ strays' = Followed(strays \ {r})
    /\ UNCHANGED <<up, due, edits, page, backup, sent, acks, submit, acked,
                   raced>>

ConnectionChanges ==
    /\ up' = ~up
    /\ UNCHANGED <<due, edits, page, backup, sent, acks, submit, strays, server,
                   acked, raced>>

TimeRunsOut ==
    /\ ~due /\ due' = TRUE
    /\ UNCHANGED <<up, edits, page, backup, sent, acks, submit, strays, server,
                   acked, raced>>

(* By a proctor, or for violations (AttemptRecord).                        *)
Terminate ==
    /\ InProgress
    /\ server' = [server EXCEPT !.status = "terminated"]
    /\ strays' = Followed(strays)
    /\ UNCHANGED <<up, due, edits, page, backup, sent, acks, submit, acked,
                   raced>>

Next ==
    \/ Load \/ LoadTooLate \/ Crash
    \/ Edit \/ BackUp \/ SaveAnswersNow
    \/ \E v \in Version : ServerSaves(v) \/ SaveAnswered(v) \/ SaveFails(v)
    \/ ClickSubmit \/ TimeExpired \/ ToldTerminated
    \/ ServerSubmits \/ SubmitAnswered \/ SubmitFails
    \/ Heartbeat
    \/ \E r \in strays : StrayArrives(r)
    \/ ConnectionChanges \/ TimeRunsOut \/ Terminate

Spec == Init /\ [][Next]_vars

(* Timers of an open page fire, and what is sent arrives or fails.         *)
FairSpec ==
    /\ Spec
    /\ WF_vars(SaveAnswersNow) /\ WF_vars(BackUp) /\ WF_vars(TimeExpired)
    /\ WF_vars(Heartbeat)
    /\ \A v \in Version :
          /\ WF_vars(ServerSaves(v))
          /\ WF_vars(SaveAnswered(v) \/ SaveFails(v))
    /\ WF_vars(ServerSubmits) /\ WF_vars(SubmitAnswered \/ SubmitFails)
    /\ WF_vars(\E r \in strays : StrayArrives(r))

----------------------------------------------------------------------------

(* Answers the page was told are saved are never lost, unless requests     *)
(* race: a reload after a crash shows them, or newer ones, and so does the *)
(* graded attempt.                                                         *)
AckedSurvives ==
    ~raced =>
        /\ InProgress => acked <= Restored
        /\ server.status = "submitted" => acked <= server.graded

(* A student is sent to the result only when the attempt is over.          *)
LeftMeansFinished == page.at = "left" => ~InProgress

(* Once the connection holds, what is in the form of a running exam gets   *)
(* to the server, whatever was lost, repeated or reordered before.         *)
AnswersReachServer ==
    <>[](up /\ Active) => <>[](server.saved = page.form \/ ~InProgress)

(* An exam that ended by itself is submitted once the connection holds,    *)
(* however often it failed, if the student keeps the page open.            *)
TimedSubmitCompletes ==
    <>[]up => ((page.at = "ended" /\ (page.owed \/ submit.reason = "automatic"))
                   ~> (~InProgress \/ page.at = "closed"))

==============================================================================
