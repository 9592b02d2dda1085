---------------------------- MODULE Entitlement ----------------------------
(***************************************************************************)
(* What one student may do on one test: the eligibility row with its extra *)
(* time and extra attempts, the attempts that were started, the appeals    *)
(* against their outcome, and the student's requests for extra time.       *)
(* (student.py: start_test, request_accommodation, appeal_attempt;         *)
(* admin.py: assign, unassign, update_eligibility, resolve_appeal,         *)
(* approve and deny of a request, and the life of the test itself.)  No    *)
(* code relates the rows of two students, so one student is enough.        *)
(*                                                                         *)
(* Almost every operation reads rows, decides, and commits what it made of *)
(* them.  Nothing locks a row in between, so a call loads (Load...) and    *)
(* commits (Commit...) in two steps, with other calls in between.  An      *)
(* operation whose commit does not depend on what it read is one step.     *)
(***************************************************************************)
EXTENDS Integers, Sequences, FiniteSets

CONSTANTS
    Call,         \* the request handlers that may work at the same time
    Request,      \* the accommodation requests the student may make
    Minutes,      \* Minutes[r]: the extra minutes request r asks for
    MaxAttempts,  \* tests.max_attempts
    StaffTimes, StaffExtras, \* the values staff type into the two fields
    NoRow,        \* no eligibility row
    MaxLen,       \* bound: attempts started
    MaxExtra,     \* bound: extra attempts granted
    MaxOverlaps   \* bound: overlapping commits after which nothing begins

ASSUME CallAssumption == NoRow \notin [time : Nat, attempts : Nat]
ASSUME MinutesAssumption == Minutes \in [Request -> Nat]
ASSUME NumberAssumption ==
    /\ MaxAttempts \in Nat \ {0} /\ MaxLen \in Nat /\ MaxExtra \in Nat /\ MaxOverlaps \in Nat
    /\ StaffTimes \subseteq Nat /\ StaffExtras \subseteq Nat

VARIABLES
    test,       \* "offered" when published, in its window, not in the trash
    row,        \* the row of test_eligibility
    attempts,   \* attempts in the order they were started
    appeal,     \* the appeal of each attempt
    request,    \* the rows of accommodation_requests
    call,       \* what each handler has loaded
    ghost       \* what the properties remember; no code reads it

vars == <<test, row, attempts, appeal, request, call, ghost>>

Row == [time : Nat, attempts : Nat]
AttemptState == {"running", "clean", "contestable"}
AppealState == {"none", "pending", "granted", "denied"}
RequestState == {"unused", "pending", "approved", "denied"}
Idle == [op |-> "idle"]
Loaded ==
    [op : {"start"}, on : Nat]
    \cup [op : {"ask"}]
    \cup [op : {"appeal"}, on : Nat \ {0}]
    \cup [op : {"grant"}, on : Nat \ {0}, row : Row \cup {NoRow}]
    \cup [op : {"request"}, on : Request]
    \cup [op : {"approve"}, on : Request, row : Row]
    \cup [op : {"set"}, row : Row, new : Row]

(* ghost.peak is the largest number of attempts ever allowed; owed and     *)
(* promised are the extra attempts and minutes the decisions add up to     *)
(* when each is taken by itself; the other three count the commits that    *)
(* went over rows changed since they were loaded.                          *)
Ghost == [peak : Nat, owed : Nat, promised : Nat,
          doubleStarts : Nat, doubleAsks : Nat, staleWrites : Nat]

TypeOK ==
    /\ test \in {"offered", "withheld", "trashed", "erased"}
    /\ row \in Row \cup {NoRow}
    /\ attempts \in Seq(AttemptState)
    /\ appeal \in Seq(AppealState)
    /\ Len(appeal) = Len(attempts)
    /\ request \in [Request -> RequestState]
    /\ call \in [Call -> {Idle} \cup Loaded]
    /\ ghost \in Ghost

Init ==
    /\ test = "withheld"
    /\ row = NoRow
    /\ attempts = <<>> /\ appeal = <<>>
    /\ request = [r \in Request |-> "unused"]
    /\ call = [c \in Call |-> Idle]
    /\ ghost = [peak |-> 0, owed |-> 0, promised |-> 0,
                doubleStarts |-> 0, doubleAsks |-> 0, staleWrites |-> 0]

Larger(a, b) == IF a > b THEN a ELSE b
Count(b) == IF b THEN 1 ELSE 0

(* A handler takes up a call, and is done with it.                         *)
Begin(c, l) ==
    /\ call[c] = Idle
    /\ ghost.doubleStarts + ghost.doubleAsks + ghost.staleWrites < MaxOverlaps
    /\ call' = [call EXCEPT ![c] = l]
Done(c) == call' = [call EXCEPT ![c] = Idle]

(* The row as the commit leaves it, with what the ghost makes of it.       *)
Store(new, g) ==
    /\ row' = new
    /\ ghost' = IF new = NoRow THEN g
                ELSE [g EXCEPT !.peak = Larger(@, MaxAttempts + new.attempts)]

----------------------------------------------------------------------------

(* start_test: with completed attempts below the allowance, and the latest *)
(* attempt not in progress (else it is resumed), a new one is created.     *)
Allowed == MaxAttempts + row.attempts
Completed == {i \in DOMAIN attempts : attempts[i] # "running"}
Resumable == attempts # <<>> /\ attempts[Len(attempts)] = "running"

(* Mutant: the allowance is compared with one attempt too few.             *)
MayStartOneMore == Cardinality(Completed) <= Allowed /\ ~Resumable

(* Mutant: an attempt in progress is not looked for.                       *)
MayStartBeside == Cardinality(Completed) < Allowed

MayStart == Cardinality(Completed) < Allowed /\ ~Resumable

LoadStart(c) ==
    /\ test = "offered" /\ row # NoRow
    /\ MayStart
    /\ Begin(c, [op |-> "start", on |-> Len(attempts)])
    /\ UNCHANGED <<test, row, attempts, appeal, request, ghost>>

(* The attempt is inserted whatever has happened to the test, the row and  *)
(* the other attempts in the meantime.  (SQLite, the default database,     *)
(* takes it for an erased test too; the others refuse: GiveUp.)            *)
CommitStart(c) ==
    /\ call[c].op = "start"
    /\ Len(attempts) < MaxLen
    /\ attempts' = Append(attempts, "running")
    /\ appeal' = Append(appeal, "none")
    /\ ghost' = [ghost EXCEPT !.doubleStarts =
                    @ + Count(Len(attempts) # call[c].on \/ test = "erased")]
    /\ Done(c)
    /\ UNCHANGED <<test, row, request>>

(* Submission or termination (the AttemptRecord module): what comes of it  *)
(* can be contested if the proctoring acted on the attempt.                *)
FinishAttempt(i) ==
    /\ attempts[i] = "running"
    /\ \E end \in {"clean", "contestable"} :
          attempts' = [attempts EXCEPT ![i] = end]
    /\ UNCHANGED <<test, row, appeal, request, call, ghost>>

(* appeal_attempt, within APPEAL_WINDOW_DAYS; one row per attempt is       *)
(* ensured by the database.  Later the window is over.                     *)
Contest(i) ==
    /\ attempts[i] = "contestable" /\ appeal[i] = "none"
    /\ appeal' = [appeal EXCEPT ![i] = "pending"]
    /\ UNCHANGED <<test, row, attempts, request, call, ghost>>

WindowCloses(i) ==
    /\ attempts[i] = "contestable"
    /\ attempts' = [attempts EXCEPT ![i] = "clean"]
    /\ UNCHANGED <<test, row, appeal, request, call, ghost>>

(* request_accommodation: only with a row, and only if none is pending.    *)
MayAsk == \A r \in Request : request[r] # "pending"

LoadAsk(c) ==
    /\ row # NoRow /\ MayAsk
    /\ Begin(c, [op |-> "ask"])
    /\ UNCHANGED <<test, row, attempts, appeal, request, ghost>>

CommitAsk(c, r) ==
    /\ call[c].op = "ask"
    /\ request[r] = "unused"
    /\ request' = [request EXCEPT ![r] = "pending"]
    /\ ghost' = [ghost EXCEPT !.doubleAsks =
                    @ + Count(\E q \in Request : request[q] = "pending")]
    /\ Done(c)
    /\ UNCHANGED <<test, row, attempts, appeal>>

----------------------------------------------------------------------------

(* resolve_appeal loads the appeal and refuses a decided one; then a grant *)
(* loads the row as well.                                                  *)
LoadAppeal(c, i) ==
    /\ appeal[i] = "pending"
    /\ Begin(c, [op |-> "appeal", on |-> i])
    /\ UNCHANGED <<test, row, attempts, appeal, request, ghost>>

LoadGrant(c) ==
    /\ call[c].op = "appeal"
    /\ call' = [call EXCEPT ![c] = [op |-> "grant", on |-> @.on, row |-> row]]
    /\ UNCHANGED <<test, row, attempts, appeal, request, ghost>>

(* One more than was loaded.  Without a row one is inserted (which the     *)
(* database refuses if there is one by then: GiveUp), and an update of a   *)
(* row that was removed fails as well.                                     *)
CommitGrant(c) ==
    LET l == call[c] IN
    /\ l.op = "grant" /\ l.on \in DOMAIN appeal
    /\ l.row = NoRow <=> row = NoRow
    /\ appeal' = [appeal EXCEPT ![l.on] = "granted"]
    /\ LET fresh == appeal[l.on] = "pending"
           g == [ghost EXCEPT !.owed = @ + Count(fresh)]
       IN  IF row = NoRow
           THEN Store([time |-> 0, attempts |-> 1],
                      [g EXCEPT !.staleWrites = @ + Count(~fresh)])
           ELSE /\ l.row.attempts < MaxExtra
                /\ Store([row EXCEPT !.attempts = l.row.attempts + 1],
                         [g EXCEPT !.staleWrites =
                            @ + Count(~fresh \/ row.attempts # l.row.attempts)])
    /\ Done(c)
    /\ UNCHANGED <<test, attempts, request>>

CommitDenial(c) ==
    /\ call[c].op = "appeal" /\ call[c].on \in DOMAIN appeal
    /\ appeal' = [appeal EXCEPT ![call[c].on] = "denied"]
    /\ ghost' = [ghost EXCEPT !.staleWrites = @ + Count(appeal[call[c].on] # "pending")]
    /\ Done(c)
    /\ UNCHANGED <<test, row, attempts, request>>

(* The same two reads when a request is approved.                          *)
LoadRequest(c, r) ==
    /\ test # "erased" /\ request[r] = "pending"
    /\ Begin(c, [op |-> "request", on |-> r])
    /\ UNCHANGED <<test, row, attempts, appeal, request, ghost>>

LoadApproval(c) ==
    /\ call[c].op = "request" /\ row # NoRow
    /\ call' = [call EXCEPT ![c] = [op |-> "approve", on |-> @.on, row |-> row]]
    /\ UNCHANGED <<test, row, attempts, appeal, request, ghost>>

(* Without a row Python compares a column default that is not there yet,   *)
(* and the call fails.  The commit that logs the error inserts the row the *)
(* call had begun, and the request stays pending (log_error rolls nothing  *)
(* back): the student is eligible.                                         *)
ApprovalFails(c) ==
    /\ call[c].op = "request" /\ row = NoRow
    /\ Store([time |-> 0, attempts |-> 0], ghost)
    /\ Done(c)
    /\ UNCHANGED <<test, attempts, appeal, request>>

(* The larger of the loaded time and the requested one; a column that did  *)
(* not change since it was loaded is not written at all.                   *)
(* Mutant: the whole row that was loaded is written back.                  *)
ApprovedOverAll(l) == [l.row EXCEPT !.time = Larger(@, Minutes[l.on])]

Approved(l) == IF Minutes[l.on] > l.row.time
               THEN [row EXCEPT !.time = Minutes[l.on]] ELSE row

CommitApproval(c) ==
    LET l == call[c] IN
    /\ l.op = "approve" /\ row # NoRow
    /\ request' = [request EXCEPT ![l.on] = "approved"]
    /\ LET fresh == request[l.on] = "pending" IN
       Store(Approved(l),
             [ghost EXCEPT
                !.promised = IF fresh THEN Larger(@, Minutes[l.on]) ELSE @,
                !.staleWrites = @ + Count(~fresh \/ row.time # l.row.time)])
    /\ Done(c)
    /\ UNCHANGED <<test, attempts, appeal>>

CommitRefusal(c) ==
    /\ call[c].op = "request"
    /\ request' = [request EXCEPT ![call[c].on] = "denied"]
    /\ ghost' = [ghost EXCEPT !.staleWrites =
                    @ + Count(request[call[c].on] # "pending")]
    /\ Done(c)
    /\ UNCHANGED <<test, row, attempts, appeal>>

(* update_eligibility: both fields are set, and again only the columns     *)
(* that differ from the loaded ones are written.                           *)
LoadSet(c, t, n) ==
    /\ row # NoRow
    /\ Begin(c, [op |-> "set", row |-> row, new |-> [time |-> t, attempts |-> n]])
    /\ UNCHANGED <<test, row, attempts, appeal, request, ghost>>

CommitSet(c) ==
    LET l == call[c]
        Col(f) == IF l.new[f] = l.row[f] THEN row[f] ELSE l.new[f]
    IN
    /\ l.op = "set" /\ row # NoRow
    /\ Store([time |-> Col("time"), attempts |-> Col("attempts")],
             [ghost EXCEPT !.owed = l.new.attempts, !.promised = l.new.time,
                           !.staleWrites = @ + Count(row # l.row)])
    /\ Done(c)
    /\ UNCHANGED <<test, attempts, appeal, request>>

(* assign_students and assign_cohort insert a row where there is none;     *)
(* unassign_student removes it.                                            *)
Assign(t, n) ==
    /\ test # "erased" /\ row = NoRow
    /\ Store([time |-> t, attempts |-> n], [ghost EXCEPT !.owed = n, !.promised = t])
    /\ UNCHANGED <<test, attempts, appeal, request, call>>

(* enroll_students, the roster call of an LMS: not for a test in the trash. *)
Enroll(t, n) == test # "trashed" /\ Assign(t, n)

Unassign ==
    /\ row # NoRow
    /\ Store(NoRow, [ghost EXCEPT !.owed = 0, !.promised = 0])
    /\ UNCHANGED <<test, attempts, appeal, request, call>>

(* toggle_test and the test's window, delete_test, restore_test.           *)
SetTest ==
    /\ test # "erased"
    /\ test' \in {"offered", "withheld", "trashed"} \ {test}
    /\ UNCHANGED <<row, attempts, appeal, request, call, ghost>>

(* delete_test_permanently: out of the trash, with the row and the         *)
(* attempts; an appeal does not cascade, and its NOT NULL column makes the *)
(* delete fail.                                                            *)
Erase ==
    /\ test = "trashed"
    /\ \A i \in DOMAIN appeal : appeal[i] = "none"
    /\ test' = "erased"
    /\ attempts' = <<>> /\ appeal' = <<>>
    /\ Store(NoRow, [ghost EXCEPT !.owed = 0, !.promised = 0])
    /\ UNCHANGED <<request, call>>

(* A call fails or its process dies before the commit: nothing is written. *)
GiveUp(c) ==
    /\ call[c] # Idle
    /\ Done(c)
    /\ UNCHANGED <<test, row, attempts, appeal, request, ghost>>

Student ==
    \/ \E c \in Call : LoadStart(c) \/ CommitStart(c) \/ LoadAsk(c)
    \/ \E c \in Call, r \in Request : CommitAsk(c, r)
    \/ \E i \in DOMAIN attempts : FinishAttempt(i) \/ Contest(i) \/ WindowCloses(i)

Staff ==
    \/ \E c \in Call, i \in DOMAIN appeal : LoadAppeal(c, i)
    \/ \E c \in Call, r \in Request : LoadRequest(c, r)
    \/ \E c \in Call : \/ LoadGrant(c) \/ CommitGrant(c) \/ CommitDenial(c)
                       \/ LoadApproval(c) \/ CommitApproval(c) \/ ApprovalFails(c)
                       \/ CommitRefusal(c) \/ CommitSet(c) \/ GiveUp(c)
    \/ \E t \in StaffTimes, n \in StaffExtras :
          Assign(t, n) \/ Enroll(t, n) \/ \E c \in Call : LoadSet(c, t, n)
    \/ Unassign \/ SetTest \/ Erase

Next == Student \/ Staff

Spec == Init /\ [][Next]_vars

----------------------------------------------------------------------------

Running == {i \in DOMAIN attempts : attempts[i] = "running"}
Pending == {r \in Request : request[r] = "pending"}

(* A student never gets more attempts at a test than the largest allowance *)
(* staff ever gave (start_test), however often the allowance was lowered,  *)
(* the row removed or the test withdrawn in between; only two starts that  *)
(* overlapped can add one, and no more than one for each such overlap.     *)
SeatsAreEarned == Len(attempts) <= ghost.peak + ghost.doubleStarts

(* One attempt in progress at a time, and one accommodation request        *)
(* pending at a time, for each of which the code relies on a read before   *)
(* the insert: every further one is the work of two calls that overlapped. *)
OnlyOverlapsDouble ==
    /\ Cardinality(Running) <= 1 + ghost.doubleStarts
    /\ Cardinality(Pending) <= 1 + ghost.doubleAsks

(* As long as no two decisions overlapped on the same row and column, the  *)
(* row says what the decisions add up to: the extra attempts staff typed   *)
(* in and one for each appeal granted since, and at least the minutes of   *)
(* every request approved since.  An approval that overlaps a grant loses  *)
(* neither.                                                                *)
DecisionsAddUp ==
    row # NoRow /\ ghost.staleWrites = 0 =>
        row.attempts = ghost.owed /\ row.time >= ghost.promised

============================================================================
