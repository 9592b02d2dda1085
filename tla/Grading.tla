------------------------------ MODULE Grading ------------------------------
(***************************************************************************)
(* The score of one attempt and what is made of it: submission, grading by *)
(* hand, edits of the questions and the regrade they may ask for, the      *)
(* notice that the result is final, the certificate, and the conclusion of *)
(* a reviewer (admin.py, models.recompute_attempt_score, notifications.py, *)
(* certificates.py, student.py).                                           *)
(*                                                                         *)
(* Each call loads the rows once: recompute_attempt_score queries the      *)
(* answers again, but the session hands back the objects it has, with the  *)
(* values they were loaded with.  The score is then written if it differs  *)
(* from the loaded score, and so is every other column.                    *)
(***************************************************************************)
EXTENDS Integers, FiniteSets, FiniteSetsExt

CONSTANTS
    Call,        \* the staff, and the student, at work at the same time
    Question,    \* the questions this attempt has answers to
    Version,     \* the forms a question may take, see below
    First,       \* First[q]: the form of question q to begin with
    Typed,       \* the numbers a grader may type in
    MaxWorth,    \* the largest marks of a version
    Negative,    \* tests.negative_marks_per_wrong
    Passing,     \* tests.passing_marks
    Nothing,     \* SQL NULL: not graded, not scored, no review
    Deleted,     \* a question that was deleted
    MaxCalls     \* bound: calls made

(* A version is graded by hand or by its key; match says whether the key   *)
(* accepts the answer this student gave.                                   *)
ASSUME VersionAssumption ==
    /\ Version \subseteq [manual : BOOLEAN, worth : 0 .. MaxWorth, match : BOOLEAN]
    /\ First \in [Question -> Version]
    /\ Deleted \notin Version
ASSUME NumberAssumption ==
    /\ MaxWorth \in Nat /\ Negative \in Nat /\ Passing \in Int
    /\ Typed \subseteq Int /\ Nothing \notin Int /\ MaxCalls \in Nat

VARIABLES
    question,    \* the rows of questions
    submitted,   \* whether the attempt is submitted; only then it has answers
    manual,      \* answers.manual_score
    score,       \* attempts.score
    certificate, \* whether the attempt has a row in certificates
    review,      \* the row of attempt_reviews
    call,        \* what each call has loaded
    ghost        \* what the properties remember; no code reads it

gradingVars == <<question, submitted, manual, score, certificate, review, call, ghost>>

Decision == {"cleared", "violation_confirmed"}
Review == [decision : Decision, reviewer : Call]
Free == [op |-> "idle"]
Questions == [Question -> Version \cup {Deleted}]
Grades == [Question -> 0 .. MaxWorth \cup {Nothing}]
Loaded ==
    [op : {"submit", "regrade"}, question : Questions, manual : Grades,
     score : Int \cup {Nothing}]
    \cup [op : {"grade"}, question : Questions, manual : Grades,
          score : Int \cup {Nothing}, answered : BOOLEAN, pending : BOOLEAN]
    \cup [op : {"edited", "certify"}]
    \cup [op : {"notify"}, question : Questions, manual : Grades]
    \cup [op : {"review"}, review : Review \cup {Nothing}, decision : Decision]

(* ghost.calls counts the calls made, for the bound; finals counts how     *)
(* often the grading became complete, notices the result notices sent,     *)
(* lapses the edits that were not followed by a regrade, overlaps the      *)
(* commits over rows that changed since they were loaded; said holds the   *)
(* decision each reviewer sent last.                                       *)
GradingTypeOK ==
    /\ question \in Questions
    /\ submitted \in BOOLEAN
    /\ manual \in Grades
    /\ score \in Int \cup {Nothing}
    /\ certificate \in BOOLEAN
    /\ review \in Review \cup {Nothing}
    /\ call \in [Call -> {Free} \cup Loaded]
    /\ ghost \in [calls : 0 .. MaxCalls, finals : Nat, notices : Nat, lapses : Nat,
                  overlaps : Nat, said : [Call -> Decision \cup {Nothing}]]

GradingInit ==
    /\ question = First
    /\ submitted = FALSE
    /\ manual = [q \in Question |-> Nothing]
    /\ score = Nothing
    /\ certificate = FALSE
    /\ review = Nothing
    /\ call = [c \in Call |-> Free]
    /\ ghost = [calls |-> 0, finals |-> 0, notices |-> 0, lapses |-> 0,
                overlaps |-> 0, said |-> [c \in Call |-> Nothing]]

----------------------------------------------------------------------------

(* The answer to a deleted question dangles: every recomputation, result   *)
(* page and certificate of the attempt raises an error from then on.       *)
Sound(qs) == \A q \in Question : qs[q] # Deleted

(* recompute_attempt_score and score_for: the marks a grader gave, the     *)
(* marks of a matching answer, or the penalty for a wrong one.             *)
Earned(v, grade) ==
    CASE v.manual /\ grade = Nothing -> 0
      [] v.manual /\ grade # Nothing -> grade
      [] ~v.manual /\ v.match        -> v.worth
      [] OTHER                       -> 0 - Negative

Total(qs, gs) == MapThenSumSet(LAMBDA q : Earned(qs[q], gs[q]), Question)

(* _pending_grading: an answer to be graded by hand has no grade.          *)
Pending(qs, gs) ==
    \E q \in Question : qs[q] # Deleted /\ qs[q].manual /\ gs[q] = Nothing

Clamped(value, v) ==
    IF value < 0 THEN 0 ELSE IF value > v.worth THEN v.worth ELSE value

(* Whether what a call loaded is no longer what the rows hold.             *)
Stale(l) == l.question # question \/ l.manual # manual \/ l.score # score

(* Only a column whose value differs from the loaded one is written.       *)
Written(new, loaded, current) == IF new = loaded THEN current ELSE new

(* How the rows are left, and whether that completes the grading.          *)
Rows(qs, gs, sub, g) ==
    /\ question' = qs /\ manual' = gs /\ submitted' = sub
    /\ ghost' = [g EXCEPT !.finals =
          IF sub /\ ~Pending(qs, gs) /\ ~(submitted /\ ~Pending(question, manual))
          THEN @ + 1 ELSE @]

Overlapped(g, b) == IF b THEN [g EXCEPT !.overlaps = @ + 1] ELSE g

Called == [ghost EXCEPT !.calls = @ + 1]

Goto(c, l) == call' = [call EXCEPT ![c] = l]

Begin(c, l) ==
    /\ call[c] = Free /\ ghost.calls < MaxCalls
    /\ ghost' = Called
    /\ Goto(c, l)
    /\ UNCHANGED <<question, submitted, manual, score, certificate, review>>

----------------------------------------------------------------------------

(* _finalize_attempt: the answers and the score, from the questions as     *)
(* loaded; then the result is announced if nothing is left to grade.       *)
LoadSubmission(c) ==
    /\ ~submitted /\ Sound(question)
    /\ Begin(c, [op |-> "submit", question |-> question, manual |-> manual,
                 score |-> score])

CommitSubmission(c) ==
    LET l == call[c] IN
    /\ l.op = "submit" /\ ~submitted
    /\ score' = Written(Total(l.question, l.manual), l.score, score)
    /\ Rows(question, manual, TRUE,
            Overlapped(ghost, l.question # question \/ l.score # score))
    /\ Goto(c, [op |-> "notify", question |-> question, manual |-> manual])
    /\ UNCHANGED <<certificate, review>>

(* grade_attempt: the grades typed in for some answers, the score from the *)
(* loaded answers with these grades.  No status is looked at: an attempt   *)
(* in progress has no answers yet.                                         *)
LoadGrade(c) ==
    Begin(c, [op |-> "grade", question |-> question, manual |-> manual, score |-> score,
              answered |-> submitted, pending |-> submitted /\ Pending(question, manual)])

HandGraded(l) == {q \in Question : l.answered /\ l.question[q] # Deleted /\ l.question[q].manual}

Entered(l) ==
    {[q \in Question |-> IF q \in given THEN Clamped(value, l.question[q]) ELSE l.manual[q]] :
        given \in SUBSET HandGraded(l), value \in Typed}

GradesSaved(l, new) ==
    Rows(question, [q \in Question |-> Written(new[q], l.manual[q], manual[q])], submitted,
         Overlapped(ghost, Stale(l) \/ l.answered # submitted))

GradedScore(l, new) == IF l.answered THEN Total(l.question, new) ELSE 0

(* If the attempt was submitted in the meantime, the recomputation may, as *)
(* the database has it, find the answers that the call had not loaded.     *)
CommitGrade(c) ==
    LET l == call[c] IN
    /\ l.op = "grade"
    /\ \E new \in Entered(l) :
          /\ \/ /\ l.answered => Sound(question) /\ Sound(l.question)
                /\ score' = Written(GradedScore(l, new), l.score, score)
             \/ /\ ~l.answered /\ submitted /\ Sound(question)
                /\ score' = Written(Total(question, manual), l.score, score)
          /\ GradesSaved(l, new)
    /\ Goto(c, IF l.pending
               THEN [op |-> "notify", question |-> question, manual |-> manual'] ELSE Free)
    /\ UNCHANGED <<certificate, review>>

(* The recomputation raises an error, and the commit that logs the error   *)
(* writes the grades as well (log_error rolls nothing back).               *)
GradeFails(c) ==
    LET l == call[c] IN
    /\ l.op = "grade" /\ l.answered
    /\ ~Sound(question)
    /\ \E new \in Entered(l) : GradesSaved(l, new)
    /\ Goto(c, Free)
    /\ UNCHANGED <<score, certificate, review>>

(* Mutant: the notice does not look at the answers again.                  *)
FinalNow(qs, gs) == TRUE

Final(qs, gs) == ~Pending(qs, gs)

(* notify_exam_completed_and_maybe_published, after a submission, and      *)
(* notify_result_published_if_now_complete, after grades where some were   *)
(* missing before: on rows read again after the commit.                    *)
Notify(c) ==
    LET l == call[c] IN
    /\ l.op = "notify"
    /\ LET g == Overlapped(ghost, l.question # question \/ l.manual # manual) IN
       ghost' = IF Sound(question) /\ Final(question, manual)
                THEN [g EXCEPT !.notices = @ + 1] ELSE g
    /\ call' = [call EXCEPT ![c] = Free]
    /\ UNCHANGED <<question, submitted, manual, score, certificate, review>>

----------------------------------------------------------------------------

(* edit_question commits the new version; a second commit regrades, if the *)
(* key or the marks changed and the box is ticked.                         *)
Edit(c, q, v) ==
    /\ call[c] = Free /\ ghost.calls < MaxCalls
    /\ question[q] \notin {v, Deleted}
    /\ LET scoring == v.match # question[q].match \/ v.worth # question[q].worth
           qs == [question EXCEPT ![q] = v]
           ok == Sound(qs) /\ submitted
       IN
       \/ /\ scoring
          /\ call' = [call EXCEPT ![c] = [op |-> "edited"]]
          /\ Rows(qs, manual, submitted, Called)
       \/ /\ UNCHANGED call
          /\ Rows(qs, manual, submitted,
                  IF ok /\ Total(qs, manual) # Total(question, manual)
                  THEN [Called EXCEPT !.lapses = @ + 1] ELSE Called)
    /\ UNCHANGED <<score, certificate, review>>

(* Mutant: attempts with ungraded answers are passed over by the regrade.  *)
OnlyGradedOnes == submitted /\ ~Pending(question, manual)

(* Every attempt with an answer to the question, unless in progress.       *)
Regraded == submitted

LoadRegrade(c) ==
    /\ call[c].op = "edited"
    /\ call' = [call EXCEPT ![c] =
          IF Regraded /\ Sound(question)
          THEN [op |-> "regrade", question |-> question, manual |-> manual,
                score |-> score]
          ELSE Free]
    /\ UNCHANGED <<question, submitted, manual, score, certificate, review, ghost>>

CommitRegrade(c) ==
    LET l == call[c] IN
    /\ l.op = "regrade"
    /\ score' = Written(Total(l.question, l.manual), l.score, score)
    /\ ghost' = Overlapped(ghost, Stale(l))
    /\ call' = [call EXCEPT ![c] = Free]
    /\ UNCHANGED <<question, submitted, manual, certificate, review>>

(* delete_question does not ask whether the question has been answered.    *)
(* (A database that enforces foreign keys refuses; SQLite does not.)       *)
DeleteQuestion(q) ==
    /\ question[q] # Deleted /\ ghost.calls < MaxCalls
    /\ Rows([question EXCEPT ![q] = Deleted], manual, submitted, Called)
    /\ UNCHANGED <<score, certificate, review, call>>

----------------------------------------------------------------------------

(* is_eligible, for download_certificate, result and verify_certificate;   *)
(* get_or_create inserts a row if there is none.                           *)
Eligible ==
    /\ submitted /\ Sound(question) /\ score # Nothing
    /\ Final(question, manual)
    /\ score >= Passing

LoadDownload(c) ==
    /\ Eligible /\ ~certificate
    /\ Begin(c, [op |-> "certify"])

CommitDownload(c) ==
    /\ call[c].op = "certify"
    /\ certificate' = TRUE
    /\ call' = [call EXCEPT ![c] = Free]
    /\ UNCHANGED <<question, submitted, manual, score, review, ghost>>

(* review_attempt: the row is inserted, or its changed columns updated.    *)
LoadReview(c, d) ==
    /\ submitted
    /\ Begin(c, [op |-> "review", review |-> review, decision |-> d])

(* Mutant: a changed decision keeps the name of the first reviewer.        *)
FirstSigns(l, c) ==
    IF review = Nothing THEN [decision |-> l.decision, reviewer |-> c]
    ELSE [review EXCEPT !.decision = l.decision]

Concluded(l, c) ==
    IF review = Nothing THEN [decision |-> l.decision, reviewer |-> c]
    ELSE [decision |-> Written(l.decision, l.review.decision, review.decision),
          reviewer |-> Written(c, l.review.reviewer, review.reviewer)]

CommitReview(c) ==
    LET l == call[c] IN
    /\ l.op = "review"
    /\ l.review = Nothing <=> review = Nothing  \* else the insert is refused
    /\ review' = Concluded(l, c)
    /\ ghost' = Overlapped([ghost EXCEPT !.said[c] = l.decision], l.review # review)
    /\ call' = [call EXCEPT ![c] = Free]
    /\ UNCHANGED <<question, submitted, manual, score, certificate>>

(* A call fails or its process dies: before its commit nothing is written, *)
(* after it a notice is never sent, or an edit stays without its regrade.  *)
GiveUp(c) ==
    /\ call[c] # Free
    /\ IF call[c].op \in {"edited", "regrade"}
       THEN ghost' = [ghost EXCEPT !.lapses = @ + 1]
       ELSE UNCHANGED ghost
    /\ call' = [call EXCEPT ![c] = Free]
    /\ UNCHANGED <<question, submitted, manual, score, certificate, review>>

GradingNext ==
    \/ \E c \in Call :
          \/ LoadSubmission(c) \/ CommitSubmission(c)
          \/ LoadGrade(c) \/ CommitGrade(c) \/ GradeFails(c) \/ Notify(c) \/ LoadRegrade(c)
          \/ CommitRegrade(c) \/ LoadDownload(c) \/ CommitDownload(c)
          \/ CommitReview(c) \/ GiveUp(c)
          \/ \E q \in Question, v \in Version : Edit(c, q, v)
          \/ \E d \in Decision : LoadReview(c, d)
    \/ \E q \in Question : DeleteQuestion(q)

GradingSpec == GradingInit /\ [][GradingNext]_gradingVars

----------------------------------------------------------------------------

Regrading == {c \in Call : call[c].op \in {"edited", "regrade"}}

(* As long as no two calls overlapped and every edit that changes what the *)
(* answers are worth was regraded, the score of a submitted attempt is the *)
(* total of its answers (recompute_attempt_score), whatever was graded,    *)
(* graded again or edited, and in which order.                             *)
ScoreIsTotal ==
    submitted /\ Sound(question) /\ Regrading = {}
        /\ ghost.overlaps = 0 /\ ghost.lapses = 0
    => score = Total(question, manual)

(* The student is told that the result is final once for each time the     *)
(* grading becomes complete, and never before it is; only calls that       *)
(* overlapped tell it twice.  No certificate is issued before that time.   *)
(* (notify_result_published_if_now_complete, certificates.is_eligible.)    *)
PublishedWhenFinal ==
    /\ ghost.notices <= ghost.finals + ghost.overlaps
    /\ certificate => ghost.finals > 0

(* The reviewer named in the review is one who came to its decision        *)
(* (review_attempt), unless two reviews overlapped: the columns of the row *)
(* are written one by one.                                                 *)
SignedByDecider ==
    review # Nothing /\ ghost.overlaps = 0
        => ghost.said[review.reviewer] = review.decision

============================================================================
