---------------------------- MODULE Exam_proofs ----------------------------
(***************************************************************************)
(* Theorems about the browser's side of an exam: the answers on their way  *)
(* (ExamPage), and after them the windows of one attempt (ExamSession).    *)
(*                                                                         *)
(* ExamPage, for any number of edits.  AckedSurvives is not inductive:     *)
(* what may still reach the server, and what the page would submit or      *)
(* restore, must be ordered by age as well (Running), and the order must   *)
(* be carried past the moment of grading (Graded).                         *)
(***************************************************************************)
EXTENDS ExamPage, ExamSession, TLAPS

USE MaxEditsAssumption

(* The initial state has the right types.                                  *)
LEMMA InitTypes == Init => TypeOK
<1> SUFFICES ASSUME Init PROVE TypeOK
  OBVIOUS
<1>1. page \in Page
  BY DEF Init, Page, Unloaded, Version
<1>2. submit \in Submission
  BY DEF Init, Submission, NoSubmission, Version
<1>3. server \in Attempt
  BY DEF Init, Attempt, Version
<1>4. edits \in Version /\ acked \in Version
  BY DEF Init, Version
<1> QED BY <1>1, <1>2, <1>3, <1>4 DEF Init, TypeOK

(* What the server makes of an autosave or a submission is an attempt.     *)
LEMMA ServerTypes ==
    ASSUME TypeOK, NEW v \in Version
    PROVE  Saved(v) \in Attempt /\ Submitted(v) \in Attempt
BY DEF TypeOK, Saved, Submitted, Attempt, InProgress, Version

(* A page comes up with a version, and goes back to one.                   *)
LEMMA PageTypes ==
    ASSUME TypeOK
    PROVE  /\ Restored \in Version
           /\ Unloaded \in Page
           /\ NoSubmission \in Submission
           /\ LeftBehindSubmit \subseteq Stray
           /\ LeftBehind \subseteq Stray
<1>1. Restored \in Version
  BY DEF TypeOK, Restored, Attempt, Version, NoCopy
<1>2. Unloaded \in Page /\ NoSubmission \in Submission
  BY DEF Unloaded, NoSubmission, Page, Submission, Version
<1>3. submit.form \in Version /\ sent \subseteq Version
  BY DEF TypeOK, Submission
<1>4. LeftBehindSubmit \subseteq Stray
  BY <1>3 DEF LeftBehindSubmit, Stray
<1>5. \A v \in sent : [kind |-> "save", form |-> v] \in Stray
  BY <1>3 DEF Stray
<1>6. LeftBehind \subseteq Stray
  BY <1>4, <1>5 DEF LeftBehind
<1> QED BY <1>1, <1>2, <1>4, <1>6

(* Every step keeps the types.                                             *)
LEMMA NextTypes == TypeOK /\ [Next]_vars => TypeOK'
<1> SUFFICES ASSUME TypeOK, [Next]_vars PROVE TypeOK'
  OBVIOUS
<1>f. page.form \in Version /\ submit.form \in Version /\ server \in Attempt
      /\ server.saved \in Version /\ page \in Page /\ submit \in Submission
  BY DEF TypeOK, Page, Submission, Attempt
<1>g. \A rs : rs \subseteq Stray => Followed(rs) \subseteq Stray
  BY DEF Followed
<1>h. \A r \in strays : r.form \in Version
  BY DEF TypeOK, Stray
<1>1. CASE Load
  <2>1. page' \in Page
    BY <1>1, PageTypes DEF Load, Page, Unloaded
  <2>2. strays' \subseteq Stray
    BY <1>1 DEF Load, StillValid, TypeOK
  <2> QED BY <1>1, <2>1, <2>2 DEF Load, TypeOK
<1>2. CASE LoadTooLate
  <2>1. page' \in Page
    BY <1>2, PageTypes DEF LoadTooLate, Page, Unloaded
  <2>2. server' \in Attempt
    BY <1>2, <1>f, ServerTypes DEF LoadTooLate
  <2>3. strays' \subseteq Stray
    BY <1>2, <1>g DEF LoadTooLate, TypeOK
  <2> QED BY <1>2, <2>1, <2>2, <2>3 DEF LoadTooLate, TypeOK
<1>3. CASE Crash
  <2>1. strays' \subseteq Stray
    BY <1>3, <1>g, PageTypes DEF Crash, TypeOK
  <2> QED BY <1>3, <2>1, PageTypes DEF Crash, TypeOK
<1>4. CASE Edit
  <2>1. edits' \in Version
    BY <1>4 DEF Edit, TypeOK, Version
  <2>2. page' \in Page
    BY <1>4, <2>1, <1>f DEF Edit, Page
  <2> QED BY <1>4, <2>1, <2>2 DEF Edit, TypeOK
<1>5. CASE BackUp
  <2>1. page' \in Page
    BY <1>5, <1>f DEF BackUp, Page
  <2> QED BY <1>5, <2>1, <1>f DEF BackUp, TypeOK
<1>6. CASE SaveAnswersNow
  <2>1. raced' \in BOOLEAN
    BY <1>6 DEF SaveAnswersNow, SendSave, TypeOK
  <2>2. backup' \in Version /\ sent' \subseteq Version
    BY <1>6, <1>f DEF SaveAnswersNow, SendSave, TypeOK
  <2> QED BY <1>6, <2>1, <2>2 DEF SaveAnswersNow, TypeOK
<1>7. ASSUME NEW v \in Version, ServerSaves(v) PROVE TypeOK'
  <2>1. server' \in Attempt
    BY <1>7, ServerTypes DEF ServerSaves
  <2> QED BY <1>7, <2>1 DEF ServerSaves, TypeOK
<1>8. ASSUME NEW v \in Version, SaveAnswered(v) PROVE TypeOK'
  BY <1>8 DEF SaveAnswered, TypeOK
<1>9. ASSUME NEW v \in Version, SaveFails(v) PROVE TypeOK'
  <2>1. page' \in Page /\ backup' \in Version \cup {NoCopy}
    BY <1>9, <1>f DEF SaveFails, HandleOffline, Page, TypeOK
  <2>2. [kind |-> "save", form |-> v] \in Stray
    BY DEF Stray
  <2>3. strays' \subseteq Stray
    BY <1>9, <1>g, <2>2 DEF SaveFails, TypeOK
  <2> QED BY <1>9, <2>1, <2>3 DEF SaveFails, TypeOK
<1>10. CASE ClickSubmit \/ TimeExpired \/ ToldTerminated
  <2>1. PICK reason \in {"clicked", "automatic"} : SubmitExam(reason)
    BY <1>10 DEF ClickSubmit, TimeExpired, ToldTerminated
  <2>2. page' \in Page
    BY <2>1, <1>f DEF SubmitExam, Page
  <2>3. submit' \in Submission
    BY <2>1, <1>f DEF SubmitExam, Submission
  <2> QED BY <2>1, <2>2, <2>3, <1>f DEF SubmitExam, TypeOK
<1>11. CASE ServerSubmits
  <2>1. server' \in Attempt
    BY <1>11, <1>f, ServerTypes DEF ServerSubmits
  <2>2. submit' \in Submission
    BY <1>11, <1>f DEF ServerSubmits, Submission
  <2>3. strays' \subseteq Stray
    BY <1>11, <1>g DEF ServerSubmits, TypeOK
  <2> QED BY <1>11, <2>1, <2>2, <2>3 DEF ServerSubmits, TypeOK
<1>12. CASE SubmitAnswered
  <2>1. page' \in Page
    BY <1>12, PageTypes DEF SubmitAnswered, Page, Unloaded
  <2> QED BY <1>12, <2>1, PageTypes DEF SubmitAnswered, TypeOK
<1>13. CASE SubmitFails
  <2>1. page' \in Page
    BY <1>13, <1>f DEF SubmitFails, AfterFailure, Page
  <2>2. strays' \subseteq Stray
    BY <1>13, <1>g, PageTypes DEF SubmitFails, TypeOK
  <2> QED BY <1>13, <2>1, <2>2, PageTypes DEF SubmitFails, TypeOK
<1>14. CASE HeartbeatFails
  <2>1. page' \in Page
    BY <1>14, <1>f DEF HeartbeatFails, HandleOffline, Page
  <2> QED BY <1>14, <2>1, <1>f DEF HeartbeatFails, HandleOffline, TypeOK
<1>15. CASE RetrySubmit
  <2>1. page' \in Page
    BY <1>15, <1>f DEF RetrySubmit, Page
  <2>2. submit' \in Submission
    BY <1>15, <1>f DEF RetrySubmit, Submission
  <2> QED BY <1>15, <2>1, <2>2 DEF RetrySubmit, TypeOK
<1>16. CASE HearFinished
  <2>1. page' \in Page
    BY <1>16, PageTypes DEF HearFinished, Page, Unloaded
  <2> QED BY <1>16, <2>1 DEF HearFinished, TypeOK
<1>17. CASE Reconnect
  <2>1. page' \in Page
    BY <1>17, <1>f DEF Reconnect, Page
  <2> QED BY <1>17, <2>1, <1>f DEF Reconnect, SendSave, TypeOK
<1>18. ASSUME NEW r \in strays, StrayArrives(r) PROVE TypeOK'
  <2>1. server' \in Attempt
    BY <1>18, <1>f, <1>h, ServerTypes DEF StrayArrives
  <2>2. strays' \subseteq Stray
    BY <1>18, <1>g DEF StrayArrives, TypeOK
  <2> QED BY <1>18, <2>1, <2>2 DEF StrayArrives, TypeOK
<1>19. CASE ConnectionChanges \/ TimeRunsOut
  BY <1>19 DEF ConnectionChanges, TimeRunsOut, TypeOK
<1>20. CASE Terminate
  <2>1. server' \in Attempt
    BY <1>20, <1>f DEF Terminate, Attempt
  <2>2. strays' \subseteq Stray
    BY <1>20, <1>g DEF Terminate, TypeOK
  <2> QED BY <1>20, <2>1, <2>2 DEF Terminate, TypeOK
<1>21. CASE UNCHANGED vars
  BY <1>21 DEF vars, TypeOK
<1> QED
  BY <1>1, <1>2, <1>3, <1>4, <1>5, <1>6, <1>7, <1>8, <1>9, <1>10, <1>11, <1>12,
     <1>13, <1>14, <1>15, <1>16, <1>17, <1>18, <1>19, <1>20, <1>21
  DEF Next, Heartbeat

----------------------------------------------------------------------------

(* Version v may still be autosaved.                                       *)
OnItsWay(v) == v \in sent \/ \E r \in strays : r.kind = "save" /\ r.form = v

(* Which requests go with which stage of the page.                         *)
Stages ==
    /\ page.at \in {"closed", "left"} => sent = {} /\ acks = {}
    /\ submit.stage # "none" \/ page.owed => page.at = "ended"
    /\ submit.stage = "answered" => ~InProgress
    /\ page.at = "left" => ~InProgress
    /\ ~InProgress => strays = {}

(* Nothing is newer than the last edit.                                    *)
Bounded ==
    /\ page.form <= edits /\ server.saved <= edits
    /\ backup # NoCopy => backup <= edits
    /\ \A v \in Version : OnItsWay(v) => v <= edits

(* Whatever the page would restore, save or submit is at least as new as v.*)
Behind(v) ==
    /\ backup # NoCopy => v <= backup
    /\ Open => v <= page.form
    /\ submit.stage = "sent" => v <= submit.form
    /\ \A r \in strays : r.kind # "save" => v <= r.form

(* While the exam runs: what was acknowledged, what is stored, what is on  *)
(* its way and what the page holds are in the order of their age.          *)
Running ==
    (InProgress /\ ~raced) =>
        /\ acked <= server.saved /\ \A v \in acks : v <= server.saved
        /\ Behind(server.saved)
        /\ \A v \in Version : OnItsWay(v) => server.saved <= v /\ Behind(v)
        /\ \A v, w \in Version : OnItsWay(v) /\ OnItsWay(w) => v = w
        /\ Active => \A r \in strays : r.kind = "save"

(* Once it is graded, nothing acknowledged, now or later, is newer.        *)
Graded ==
    (server.status = "submitted" /\ ~raced) =>
        /\ acked <= server.graded
        /\ \A v \in sent \cup acks : v <= server.graded
        /\ ~Active

IInv == TypeOK /\ Stages /\ Bounded /\ Running /\ Graded

(* Every step keeps the stages of page and requests in line.              *)
LEMMA StagesStep == TypeOK /\ Stages /\ [Next]_vars => Stages'
<1> SUFFICES ASSUME TypeOK, Stages, [Next]_vars PROVE Stages'
  OBVIOUS
<1> USE DEF Stages, InProgress, Open, Active, TypeOK, Page, Submission, Stray, Attempt, Version, NoCopy
<1>t. TypeOK'
  BY NextTypes DEF IInv
<1>1. CASE Load
  BY <1>1, <1>t DEF Load, StillValid, Unloaded, Restored
<1>2. CASE LoadTooLate
  BY <1>2, <1>t DEF LoadTooLate, Submitted, Unloaded, Followed
<1>3. CASE Crash
  BY <1>3, <1>t DEF Crash, Unloaded, NoSubmission, LeftBehind, LeftBehindSubmit, Followed
<1>4. CASE Edit
  BY <1>4, <1>t DEF Edit
<1>5. CASE BackUp
  BY <1>5, <1>t DEF BackUp
<1>6. CASE SaveAnswersNow
  BY <1>6, <1>t DEF SaveAnswersNow, SendSave, OnTheWay
<1>7. ASSUME NEW v \in Version, ServerSaves(v) PROVE Stages'
  BY <1>7, <1>t DEF ServerSaves, Saved
<1>8. ASSUME NEW v \in Version, SaveAnswered(v) PROVE Stages'
  BY <1>8, <1>t DEF SaveAnswered
<1>9. ASSUME NEW v \in Version, SaveFails(v) PROVE Stages'
  BY <1>9, <1>t DEF SaveFails, HandleOffline, Followed
<1>10. ASSUME NEW reason, SubmitExam(reason) PROVE Stages'
  BY <1>10, <1>t DEF SubmitExam
<1>11. CASE ServerSubmits
  BY <1>11, <1>t DEF ServerSubmits, Submitted, Followed
<1>12. CASE SubmitAnswered
  BY <1>12, <1>t DEF SubmitAnswered, Unloaded, NoSubmission
<1>13. CASE SubmitFails
  BY <1>13, <1>t DEF SubmitFails, AfterFailure, NoSubmission, LeftBehindSubmit, Followed
<1>14. CASE HeartbeatFails
  BY <1>14, <1>t DEF HeartbeatFails, HandleOffline
<1>15. CASE RetrySubmit
  BY <1>15, <1>t DEF RetrySubmit, MustRetry
<1>16. CASE HearFinished
  BY <1>16, <1>t DEF HearFinished, Unloaded
<1>17. CASE Reconnect
  BY <1>17, <1>t DEF Reconnect, SendSave, OnTheWay
<1>18. ASSUME NEW r \in strays, StrayArrives(r) PROVE Stages'
  BY <1>18, <1>t DEF StrayArrives, Saved, Submitted, Followed
<1>19. CASE ConnectionChanges \/ TimeRunsOut
  BY <1>19, <1>t DEF ConnectionChanges, TimeRunsOut
<1>20. CASE Terminate
  BY <1>20, <1>t DEF Terminate, Followed
<1>21. CASE UNCHANGED vars
  BY <1>21, <1>t DEF vars
<1> QED
  BY <1>1, <1>2, <1>3, <1>4, <1>5, <1>6, <1>7, <1>8, <1>9, <1>10, <1>11, <1>12, <1>13, <1>14, <1>15, <1>16, <1>17, <1>18, <1>19, <1>20, <1>21
  DEF Next, Heartbeat, ClickSubmit, TimeExpired, ToldTerminated

(* No step brings in a version from the future.                            *)
LEMMA BoundedStep == TypeOK /\ Stages /\ Bounded /\ [Next]_vars => Bounded'
<1> SUFFICES ASSUME TypeOK, Stages, Bounded, [Next]_vars PROVE Bounded'
  OBVIOUS
<1> USE DEF Bounded, Stages, OnItsWay, InProgress, Open, Active, TypeOK, Page, Submission, Stray, Attempt, Version, NoCopy
<1>t. TypeOK'
  BY NextTypes DEF IInv
<1>1. CASE Load
  BY <1>1, <1>t DEF Load, StillValid, Unloaded, Restored
<1>2. CASE LoadTooLate
  BY <1>2, <1>t DEF LoadTooLate, Submitted, Unloaded, Followed
<1>3. CASE Crash
  BY <1>3, <1>t DEF Crash, Unloaded, NoSubmission, LeftBehind, LeftBehindSubmit, Followed
<1>4. CASE Edit
  BY <1>4, <1>t DEF Edit
<1>5. CASE BackUp
  BY <1>5, <1>t DEF BackUp
<1>6. CASE SaveAnswersNow
  BY <1>6, <1>t DEF SaveAnswersNow, SendSave, OnTheWay
<1>7. ASSUME NEW v \in Version, ServerSaves(v) PROVE Bounded'
  BY <1>7, <1>t DEF ServerSaves, Saved
<1>8. ASSUME NEW v \in Version, SaveAnswered(v) PROVE Bounded'
  BY <1>8, <1>t DEF SaveAnswered
<1>9. ASSUME NEW v \in Version, SaveFails(v) PROVE Bounded'
  BY <1>9, <1>t DEF SaveFails, HandleOffline, Followed
<1>10. ASSUME NEW reason, SubmitExam(reason) PROVE Bounded'
  BY <1>10, <1>t DEF SubmitExam
<1>11. CASE ServerSubmits
  BY <1>11, <1>t DEF ServerSubmits, Submitted, Followed
<1>12. CASE SubmitAnswered
  BY <1>12, <1>t DEF SubmitAnswered, Unloaded, NoSubmission
<1>13. CASE SubmitFails
  BY <1>13, <1>t DEF SubmitFails, AfterFailure, NoSubmission, LeftBehindSubmit, Followed
<1>14. CASE HeartbeatFails
  BY <1>14, <1>t DEF HeartbeatFails, HandleOffline
<1>15. CASE RetrySubmit
  BY <1>15, <1>t DEF RetrySubmit, MustRetry
<1>16. CASE HearFinished
  BY <1>16, <1>t DEF HearFinished, Unloaded
<1>17. CASE Reconnect
  BY <1>17, <1>t DEF Reconnect, SendSave, OnTheWay
<1>18. ASSUME NEW r \in strays, StrayArrives(r) PROVE Bounded'
  BY <1>18, <1>t DEF StrayArrives, Saved, Submitted, Followed
<1>19. CASE ConnectionChanges \/ TimeRunsOut
  BY <1>19, <1>t DEF ConnectionChanges, TimeRunsOut
<1>20. CASE Terminate
  BY <1>20, <1>t DEF Terminate, Followed
<1>21. CASE UNCHANGED vars
  BY <1>21, <1>t DEF vars
<1> QED
  BY <1>1, <1>2, <1>3, <1>4, <1>5, <1>6, <1>7, <1>8, <1>9, <1>10, <1>11, <1>12, <1>13, <1>14, <1>15, <1>16, <1>17, <1>18, <1>19, <1>20, <1>21
  DEF Next, Heartbeat, ClickSubmit, TimeExpired, ToldTerminated

(* Every step keeps a graded attempt up to date.                           *)
LEMMA GradedStep == IInv /\ [Next]_vars => Graded'
<1> SUFFICES ASSUME IInv, [Next]_vars PROVE Graded'
  OBVIOUS
<1> USE DEF IInv, Bounded, Stages, Running, Graded, Behind, OnItsWay, InProgress, Open, Active, TypeOK, Page, Submission, Stray, Attempt, Version, NoCopy
<1>t. TypeOK'
  BY NextTypes DEF IInv
<1>1. CASE Load
  BY <1>1, <1>t DEF Load, StillValid, Unloaded, Restored
<1>2. CASE LoadTooLate
  BY <1>2, <1>t DEF LoadTooLate, Submitted, Unloaded, Followed
<1>3. CASE Crash
  BY <1>3, <1>t DEF Crash, Unloaded, NoSubmission, LeftBehind, LeftBehindSubmit, Followed
<1>4. CASE Edit
  BY <1>4, <1>t DEF Edit
<1>5. CASE BackUp
  BY <1>5, <1>t DEF BackUp
<1>6. CASE SaveAnswersNow
  BY <1>6, <1>t DEF SaveAnswersNow, SendSave, OnTheWay
<1>7. ASSUME NEW v \in Version, ServerSaves(v) PROVE Graded'
  BY <1>7, <1>t DEF ServerSaves, Saved
<1>8. ASSUME NEW v \in Version, SaveAnswered(v) PROVE Graded'
  BY <1>8, <1>t DEF SaveAnswered
<1>9. ASSUME NEW v \in Version, SaveFails(v) PROVE Graded'
  BY <1>9, <1>t DEF SaveFails, HandleOffline, Followed
<1>10. ASSUME NEW reason, SubmitExam(reason) PROVE Graded'
  BY <1>10, <1>t DEF SubmitExam
<1>11. CASE ServerSubmits
  BY <1>11, <1>t DEF ServerSubmits, Submitted, Followed
<1>12. CASE SubmitAnswered
  BY <1>12, <1>t DEF SubmitAnswered, Unloaded, NoSubmission
<1>13. CASE SubmitFails
  BY <1>13, <1>t DEF SubmitFails, AfterFailure, NoSubmission, LeftBehindSubmit, Followed
<1>14. CASE HeartbeatFails
  BY <1>14, <1>t DEF HeartbeatFails, HandleOffline
<1>15. CASE RetrySubmit
  BY <1>15, <1>t DEF RetrySubmit, MustRetry
<1>16. CASE HearFinished
  BY <1>16, <1>t DEF HearFinished, Unloaded
<1>17. CASE Reconnect
  BY <1>17, <1>t DEF Reconnect, SendSave, OnTheWay
<1>18. ASSUME NEW r \in strays, StrayArrives(r) PROVE Graded'
  BY <1>18, <1>t DEF StrayArrives, Saved, Submitted, Followed
<1>19. CASE ConnectionChanges \/ TimeRunsOut
  BY <1>19, <1>t DEF ConnectionChanges, TimeRunsOut
<1>20. CASE Terminate
  BY <1>20, <1>t DEF Terminate, Followed
<1>21. CASE UNCHANGED vars
  BY <1>21, <1>t DEF vars
<1> QED
  BY <1>1, <1>2, <1>3, <1>4, <1>5, <1>6, <1>7, <1>8, <1>9, <1>10, <1>11, <1>12, <1>13, <1>14, <1>15, <1>16, <1>17, <1>18, <1>19, <1>20, <1>21
  DEF Next, Heartbeat, ClickSubmit, TimeExpired, ToldTerminated

(* Every step keeps the order of age.                                      *)
LEMMA RunningStep == IInv /\ [Next]_vars => Running'
<1> SUFFICES ASSUME IInv, [Next]_vars PROVE Running'
  OBVIOUS
<1> USE DEF IInv, Bounded, Stages, Running, Behind, OnItsWay, InProgress, Open, Active, TypeOK, Page, Submission, Stray, Attempt, Version, NoCopy
<1>t. TypeOK'
  BY NextTypes DEF IInv
<1>1. CASE Load
  <2> SUFFICES ASSUME InProgress, ~raced' PROVE Running'
    BY <1>1 DEF Load
  <2>1. strays' = {} /\ sent' = {} /\ acks' = {} /\ submit'.stage = "none" /\ ~raced
    BY <1>1 DEF Load
  <2>2. page'.form = Restored /\ server.saved <= Restored
    BY <1>1, <2>1 DEF Load, Unloaded, Restored
  <2>3. \A v \in Version : ~OnItsWay(v)'
    BY <2>1
  <2>4. acked <= server.saved /\ (backup # NoCopy => server.saved <= backup)
    BY <2>1
  <2>5. Behind(server.saved)'
    BY <1>1, <2>1, <2>2, <2>4 DEF Load
  <2> QED BY <1>1, <2>1, <2>3, <2>4, <2>5 DEF Load
<1>2. CASE LoadTooLate
  BY <1>2, <1>t DEF LoadTooLate, Submitted, Unloaded, Followed
<1>3. CASE Crash
  BY <1>3, <1>t DEF Crash, Unloaded, NoSubmission, LeftBehind, LeftBehindSubmit, Followed
<1>4. CASE Edit
  BY <1>4, <1>t DEF Edit
<1>5. CASE BackUp
  BY <1>5, <1>t DEF BackUp
<1>6. CASE SaveAnswersNow
  BY <1>6, <1>t DEF SaveAnswersNow, SendSave, OnTheWay
<1>7. ASSUME NEW v \in Version, ServerSaves(v) PROVE Running'
  BY <1>7, <1>t DEF ServerSaves, Saved
<1>8. ASSUME NEW v \in Version, SaveAnswered(v) PROVE Running'
  BY <1>8, <1>t DEF SaveAnswered
<1>9. ASSUME NEW v \in Version, SaveFails(v) PROVE Running'
  BY <1>9, <1>t DEF SaveFails, HandleOffline, Followed
<1>10. ASSUME NEW reason, SubmitExam(reason) PROVE Running'
  BY <1>10, <1>t DEF SubmitExam
<1>11. CASE ServerSubmits
  BY <1>11, <1>t DEF ServerSubmits, Submitted, Followed
<1>12. CASE SubmitAnswered
  BY <1>12, <1>t DEF SubmitAnswered, Unloaded, NoSubmission
<1>13. CASE SubmitFails
  BY <1>13, <1>t DEF SubmitFails, AfterFailure, NoSubmission, LeftBehindSubmit, Followed
<1>14. CASE HeartbeatFails
  BY <1>14, <1>t DEF HeartbeatFails, HandleOffline
<1>15. CASE RetrySubmit
  BY <1>15, <1>t DEF RetrySubmit, MustRetry
<1>16. CASE HearFinished
  BY <1>16, <1>t DEF HearFinished, Unloaded
<1>17. CASE Reconnect
  BY <1>17, <1>t DEF Reconnect, SendSave, OnTheWay
<1>18. ASSUME NEW r \in strays, StrayArrives(r) PROVE Running'
  BY <1>18, <1>t DEF StrayArrives, Saved, Submitted, Followed
<1>19. CASE ConnectionChanges \/ TimeRunsOut
  BY <1>19, <1>t DEF ConnectionChanges, TimeRunsOut
<1>20. CASE Terminate
  BY <1>20, <1>t DEF Terminate, Followed
<1>21. CASE UNCHANGED vars
  BY <1>21, <1>t DEF vars
<1> QED
  BY <1>1, <1>2, <1>3, <1>4, <1>5, <1>6, <1>7, <1>8, <1>9, <1>10, <1>11, <1>12, <1>13, <1>14, <1>15, <1>16, <1>17, <1>18, <1>19, <1>20, <1>21
  DEF Next, Heartbeat, ClickSubmit, TimeExpired, ToldTerminated

(* The strengthened invariant holds throughout, whatever is lost, repeated *)
(* or reordered, and wherever the page crashes.                            *)
THEOREM Invariance == Spec => []IInv
<1>1. Init => IInv
  <2> SUFFICES ASSUME Init PROVE IInv
    OBVIOUS
  <2>1. TypeOK
    BY InitTypes
  <2>2. Stages /\ Bounded /\ Graded
    BY <2>1 DEF Init, Stages, Bounded, Graded, OnItsWay, Unloaded, NoSubmission,
                InProgress, NoCopy
  <2>3. Running
    BY <2>1 DEF Init, Running, Behind, OnItsWay, Unloaded, NoSubmission, Open,
                Active, NoCopy
  <2> QED BY <2>1, <2>2, <2>3 DEF IInv
<1>2. IInv /\ [Next]_vars => IInv'
  BY NextTypes, StagesStep, BoundedStep, GradedStep, RunningStep DEF IInv
<1> QED BY <1>1, <1>2, PTL DEF Spec

(* The page, its requests and the attempt keep their types.                *)
THEOREM TypeCorrect == Spec => []TypeOK
<1>1. IInv => TypeOK
  BY DEF IInv
<1> QED BY <1>1, Invariance, PTL

(* Answers the page was told are saved (saveAnswersNow clears its copy on  *)
(* the strength of it) survive every crash, reload, failure and retry.     *)
THEOREM Survival == Spec => []AckedSurvives
<1>1. IInv => AckedSurvives
  <2> SUFFICES ASSUME IInv, ~raced
               PROVE  /\ InProgress => acked <= Restored
                      /\ server.status = "submitted" => acked <= server.graded
    BY DEF AckedSurvives
  <2>1. server.status = "submitted" => acked <= server.graded
    BY DEF IInv, Graded
  <2>2. ASSUME InProgress PROVE acked <= Restored
    <3>1. acked <= server.saved /\ (backup # NoCopy => server.saved <= backup)
      BY <2>2 DEF IInv, Running, Behind
    <3> QED BY <3>1 DEF IInv, TypeOK, Restored, Attempt, Version, NoCopy
  <2> QED BY <2>1, <2>2
<1> QED BY <1>1, Invariance, PTL

(* submitExam, retrySubmit and the heartbeat redirect the student to the   *)
(* result only when the attempt is over.                                   *)
THEOREM HonestRedirect == Spec => []LeftMeansFinished
<1>1. IInv => LeftMeansFinished
  BY DEF IInv, Stages, LeftMeansFinished
<1> QED BY <1>1, Invariance, PTL

----------------------------------------------------------------------------
(***************************************************************************)
(* Exclusive possession of an attempt, for any number of windows and       *)
(* browsers.  The invariant follows a claim that nothing overlaps from its *)
(* load, through its commit, to the page.                                  *)
(***************************************************************************)

USE NobodyAssumption

Clear(w, stage) == tab[w].at = stage /\ ~tab[w].overlapped

(* What was the browser's own when it was loaded still is.                 *)
OwnStaysOwn ==
    \A w \in Window :
        Clear(w, "claiming") /\ tab[w].standing = "own"
            => row.owner = tab[w].browser

(* Between the commit and the rendering of a claim that nothing overlaps,  *)
(* the row names its browser, and no other such claim or page is around.   *)
AloneUntilRendered ==
    \A w \in Window : Clear(w, "rendering") =>
        /\ row.owner = tab[w].browser
        /\ \A v \in Window \ {w} :
              ~Clear(v, "rendering")
              /\ ~(Clear(v, "open") /\ tab[v].token = "latest")

SessionIInv == SessionTypeOK /\ OwnStaysOwn /\ AloneUntilRendered /\ SingleDriver

----------------------------------------------------------------------------

LEMMA InitHolds == SessionInit => SessionIInv
<1> SUFFICES ASSUME SessionInit  PROVE SessionIInv  OBVIOUS
<1>1. SessionTypeOK
  BY DEF SessionInit, SessionTypeOK, Row, Tab, Closed, Tokens, Standings, Beacons
<1>2. \A w \in Window : tab[w].at = "closed"  BY DEF SessionInit, Closed
<1>3. OwnStaysOwn /\ AloneUntilRendered /\ SingleDriver
  BY <1>2 DEF OwnStaysOwn, AloneUntilRendered, SingleDriver, Undisturbed, Clear
<1> QED  BY <1>1, <1>3 DEF SessionIInv

(* A row's standing with a browser is one of the four, and "own" says who  *)
(* the owner is.                                                           *)
LEMMA StandingOK ==
    ASSUME SessionTypeOK, NEW b \in Browser
    PROVE  /\ Standing(b) \in Standings
           /\ Standing(b) = "own" => row.owner = b
BY DEF SessionTypeOK, Row, Standing, Standings

LEMMA StepKeepsType ==
    ASSUME SessionTypeOK, [SessionNext]_sessionVars
    PROVE  SessionTypeOK'
<1> USE DEF SessionTypeOK
<1>1. ASSUME NEW w \in Window, NEW b \in Browser, OpenPage(w, b)  PROVE SessionTypeOK'
  <2>1. Standing(b) \in Standings  BY StandingOK
  <2> QED  BY <1>1, <2>1 DEF OpenPage, Tab, Closed, Tokens
<1>2. ASSUME NEW w \in Window, ClaimSession(w)  PROVE SessionTypeOK'
  <2>1. over' \in BOOLEAN  BY <1>2 DEF ClaimSession, MayEndExam
  <2>2. row' \in Row  BY <1>2 DEF ClaimSession, Row, Tab, OwnerAfter
  <2>3. tab' \in [Window -> Tab]
    <3> SUFFICES ASSUME NEW v \in Window  PROVE tab'[v] \in Tab
        BY <1>2 DEF ClaimSession
    <3>1. CASE v = w  BY <1>2, <3>1 DEF ClaimSession, Tab
    <3>2. CASE v # w  BY <1>2, <3>2 DEF ClaimSession, Tab, Outdated, Tokens
    <3> QED  BY <3>1, <3>2
  <2> QED  BY <1>2, <2>1, <2>2, <2>3 DEF ClaimSession, Beacons
<1>3. ASSUME NEW w \in Window, RenderPage(w)  PROVE SessionTypeOK'
  <2>1. RenderedToken \in Tokens  BY DEF RenderedToken, Tokens
  <2>2. [tab[w] EXCEPT !.at = "open", !.standing = "free",
                        !.token = RenderedToken] \in Tab
    BY <2>1 DEF Tab, Standings
  <2>3. tab' = [tab EXCEPT ![w] = [tab[w] EXCEPT !.at = "open",
                     !.standing = "free", !.token = RenderedToken]]
    BY <1>3 DEF RenderPage
  <2>4. tab' \in [Window -> Tab]  BY <2>2, <2>3
  <2> QED  BY <1>3, <2>4 DEF RenderPage
<1>4. ASSUME NEW w \in Window,
             RefuseClaim(w) \/ CrashPage(w) \/ HearOfConflict(w)
             \/ HearOfEnd(w) \/ ClosePage(w)
      PROVE  SessionTypeOK'
  <2>1. Closed \in Tab /\ [Closed EXCEPT !.at = "frozen"] \in Tab
    BY DEF Closed, Tab, Tokens, Standings
  <2>2. tab' \in [Window -> Tab]
    BY <1>4, <2>1 DEF RefuseClaim, CrashPage, HearOfConflict, HearOfEnd, ClosePage
  <2> QED
    BY <1>4, <2>2 DEF RefuseClaim, CrashPage, HearOfConflict, HearOfEnd, ClosePage,
                      SendBeacon, MayEndExam, Beacons
<1>5. ASSUME NEW w \in Window,
             BeginCall(w) \/ CommitCall(w) \/ StayOnPage(w) \/ ReadBeacon(w)
             \/ CommitRelease(w) \/ LoseBeacon(w)
      PROVE  SessionTypeOK'
  BY <1>5 DEF BeginCall, CommitCall, StayOnPage, SendBeacon, ReadBeacon,
              CommitRelease, LoseBeacon, MayEndExam, Row, Beacons
<1>6. CASE Silence \/ EndExam  BY <1>6 DEF Silence, EndExam, Row
<1>7. CASE UNCHANGED sessionVars  BY <1>7 DEF sessionVars
<1> QED  BY <1>1, <1>2, <1>3, <1>4, <1>5, <1>6, <1>7 DEF SessionNext, Opens, Loads, Beats

----------------------------------------------------------------------------

LEMMA StepKeepsPossession ==
    ASSUME SessionIInv, SessionTypeOK', [SessionNext]_sessionVars
    PROVE  OwnStaysOwn' /\ AloneUntilRendered' /\ SingleDriver'
<1> DEFINE Possession == OwnStaysOwn /\ AloneUntilRendered /\ SingleDriver
<1> USE DEF SessionIInv, SessionTypeOK
<1>1. ASSUME NEW w \in Window, NEW b \in Browser, OpenPage(w, b)
      PROVE  Possession'
  <2>1. /\ row' = row
        /\ tab'[w].at = "claiming" /\ tab'[w].browser = b
        /\ tab'[w].standing = Standing(b)
        /\ \A v \in Window \ {w} : tab'[v] = tab[v]
    BY <1>1 DEF OpenPage, Tab, Closed
  <2>2. Standing(b) = "own" => row.owner = b  BY StandingOK
  <2>3. OwnStaysOwn'  BY <2>1, <2>2 DEF OwnStaysOwn, Clear
  <2>4. AloneUntilRendered'  BY <2>1 DEF AloneUntilRendered, Clear
  <2>5. SingleDriver'  BY <2>1 DEF SingleDriver, Undisturbed
  <2> QED  BY <2>3, <2>4, <2>5
<1>2. ASSUME NEW w \in Window, ClaimSession(w)  PROVE Possession'
  <2>1. /\ tab'[w].at = "rendering"
        /\ tab'[w].browser = tab[w].browser
        /\ tab'[w].overlapped = tab[w].overlapped
    <3>1. tab'[w] = [tab[w] EXCEPT !.at = "rendering"]  BY <1>2 DEF ClaimSession
    <3> QED  BY <3>1 DEF Tab
  <2>2. \A v \in Window \ {w} :
            /\ tab'[v].at = tab[v].at
            /\ tab'[v].token # "latest"
            /\ tab'[v].at \in {"claiming", "rendering"} => tab'[v].overlapped
    <3> SUFFICES ASSUME NEW v \in Window \ {w}
                 PROVE  /\ tab'[v].at = tab[v].at
                        /\ tab'[v].token # "latest"
                        /\ tab'[v].at \in {"claiming", "rendering"}
                               => tab'[v].overlapped
        OBVIOUS
    <3>1. tab'[v] = [tab[v] EXCEPT
              !.token = Outdated(w, tab[v].token),
              !.overlapped = tab[v].overlapped
                                \/ tab[v].at \in {"claiming", "rendering"}]
        BY <1>2 DEF ClaimSession
    <3> QED  BY <3>1 DEF Tab, Outdated
  <2>3. ~tab[w].overlapped => row'.owner = tab[w].browser
    BY <1>2 DEF ClaimSession, OwnerAfter, OwnStaysOwn, Clear
  <2>4. OwnStaysOwn'  BY <2>1, <2>2 DEF OwnStaysOwn, Clear
  <2>5. AloneUntilRendered'  BY <2>1, <2>2, <2>3 DEF AloneUntilRendered, Clear
  <2>6. SingleDriver'  BY <2>1, <2>2 DEF SingleDriver, Undisturbed
  <2> QED  BY <2>4, <2>5, <2>6
<1>3. ASSUME NEW w \in Window, RenderPage(w)  PROVE Possession'
  <2>1. /\ row' = row
        /\ tab[w].at = "rendering"
        /\ tab'[w].at = "open" /\ tab'[w].browser = tab[w].browser
        /\ tab'[w].overlapped = tab[w].overlapped
        /\ \A v \in Window \ {w} : tab'[v] = tab[v]
    BY <1>3 DEF RenderPage, Tab
  <2>2. OwnStaysOwn'  BY <2>1 DEF OwnStaysOwn, Clear
  <2>3. AloneUntilRendered'
    <3> SUFFICES ASSUME NEW v \in Window, Clear(v, "rendering")'
                 PROVE  /\ row'.owner = tab'[v].browser
                        /\ \A u \in Window \ {v} :
                              ~Clear(u, "rendering")'
                              /\ ~(Clear(u, "open")' /\ tab'[u].token = "latest")
        BY DEF AloneUntilRendered
    <3>1. v # w /\ Clear(v, "rendering")  BY <2>1 DEF Clear
    <3>2. tab[w].overlapped  BY <2>1, <3>1 DEF AloneUntilRendered, Clear
    <3> QED  BY <2>1, <3>1, <3>2 DEF AloneUntilRendered, Clear
  <2>4. SingleDriver'
        BY <2>1 DEF SingleDriver, Undisturbed, AloneUntilRendered, Clear
  <2> QED  BY <2>2, <2>3, <2>4
<1>4. ASSUME NEW w \in Window,
             RefuseClaim(w) \/ CrashPage(w) \/ HearOfConflict(w)
             \/ HearOfEnd(w) \/ ClosePage(w)
      PROVE  Possession'
  <2>1. /\ row' = row
        /\ tab'[w].at \in {"closed", "frozen"}
        /\ \A v \in Window \ {w} : tab'[v] = tab[v]
    BY <1>4 DEF RefuseClaim, CrashPage, HearOfConflict, HearOfEnd, ClosePage,
                Tab, Closed
  <2>2. OwnStaysOwn'  BY <2>1 DEF OwnStaysOwn, Clear
  <2>3. AloneUntilRendered'  BY <2>1 DEF AloneUntilRendered, Clear
  <2>4. SingleDriver'  BY <2>1 DEF SingleDriver, Undisturbed
  <2> QED  BY <2>2, <2>3, <2>4
<1>5. ASSUME tab' = tab, row'.owner = row.owner  PROVE Possession'
  BY <1>5 DEF OwnStaysOwn, AloneUntilRendered, SingleDriver, Undisturbed, Clear
<1>6. ASSUME NEW w \in Window,
             BeginCall(w) \/ CommitCall(w) \/ StayOnPage(w) \/ ReadBeacon(w)
             \/ CommitRelease(w) \/ LoseBeacon(w)
      PROVE  tab' = tab /\ row'.owner = row.owner
  BY <1>6 DEF BeginCall, CommitCall, StayOnPage, ReadBeacon, CommitRelease,
              LoseBeacon, Row
<1>7. ASSUME Silence \/ EndExam \/ UNCHANGED sessionVars
      PROVE  tab' = tab /\ row'.owner = row.owner
  BY <1>7 DEF Silence, EndExam, sessionVars, Row
<1> QED  BY <1>1, <1>2, <1>3, <1>4, <1>5, <1>6, <1>7 DEF SessionNext, Opens, Loads, Beats

(* The inductive invariant holds throughout.                               *)
THEOREM SessionInvariance == SessionSpec => []SessionIInv
<1>1. SessionIInv /\ [SessionNext]_sessionVars => SessionIInv'
  <2> SUFFICES ASSUME SessionIInv, [SessionNext]_sessionVars  PROVE SessionIInv'  OBVIOUS
  <2>1. SessionTypeOK'  BY StepKeepsType DEF SessionIInv
  <2> QED  BY <2>1, StepKeepsPossession DEF SessionIInv
<1> QED  BY InitHolds, <1>1, PTL DEF SessionSpec

(* The session columns, the pages and the calls keep their types.          *)
THEOREM SessionTypeCorrect == SessionSpec => []SessionTypeOK
<1>1. SessionIInv => SessionTypeOK  BY DEF SessionIInv
<1> QED  BY <1>1, SessionInvariance, PTL

(* Claims that nothing overlaps give exclusive possession, with any number *)
(* of windows and browsers.                                                *)
THEOREM Possession == SessionSpec => []SingleDriver
<1>1. SessionIInv => SingleDriver  BY DEF SessionIInv
<1> QED  BY <1>1, SessionInvariance, PTL

==============================================================================
