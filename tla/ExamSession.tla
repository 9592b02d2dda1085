----------------------------- MODULE ExamSession -----------------------------
(***************************************************************************)
(* Which page drives an attempt (app/exam_sessions.py).  Loading the exam  *)
(* page claims the attempt: a new token goes into its row and into the     *)
(* page, and a later call with another token is told that it has been      *)
(* superseded.  The row also names the browser that holds it, and only     *)
(* that browser may claim again while the claim is alive.  Claims are      *)
(* decided on a loaded row and committed later, the page is rendered from  *)
(* yet another load, and the beacon of a closing page may come at any time.*)
(*                                                                         *)
(* All the code asks of a token is whether it is the one in the row.  A    *)
(* page therefore holds the last token minted ("latest"), an earlier one   *)
(* ("older"), or none.  Calls and beacons that change nothing here, because*)
(* they carry an older token or none, are not followed.                    *)
(***************************************************************************)
EXTENDS Naturals

CONSTANTS
    Window,     \* windows the student may have the exam page in
    Persistent, \* the window in which the student keeps trying to get in
    Browser,    \* browsers (login cookies) of the student
    Nobody      \* SQL NULL: no owner yet

ASSUME NobodyAssumption == Nobody \notin Browser
ASSUME PersistentAssumption == Persistent \in Window

VARIABLES
    row,        \* the session columns of the attempt
    tab,        \* what each window shows, and the claim it has under way
    call,       \* whether an accepted autosave or heartbeat is at the server
    beacon,     \* the release beacon of each window, on its way
    over        \* the attempt is no longer in progress

sessionVars == <<row, tab, call, beacon, over>>

(* claimed: session_token holds the last token minted, and not NULL.       *)
(* live: session_last_seen_at is no older than the staleness window.       *)
Row == [claimed : BOOLEAN, owner : Browser \cup {Nobody}, live : BOOLEAN]

Tokens == {"none", "latest", "older"}

(* How the row a claim was decided on looks from a browser: its own,       *)
(* nobody's, another's that has gone stale, another's that is alive.       *)
Standings == {"own", "free", "stale", "held"}

(* overlapped: another claim was committed between this one's load and its *)
(* rendering.                                                              *)
Tab == [at : {"closed", "claiming", "rendering", "open", "frozen"},
        browser : Browser \cup {Nobody},
        standing : Standings,
        token : Tokens,
        overlapped : BOOLEAN]

(* A matched beacon has found its token in the row and is about to commit. *)
Beacons == {"none", "sent", "matched"}

Closed == [at |-> "closed", browser |-> Nobody, standing |-> "free",
           token |-> "none", overlapped |-> FALSE]

SessionTypeOK ==
    /\ row \in Row
    /\ tab \in [Window -> Tab]
    /\ call \in [Window -> BOOLEAN]
    /\ beacon \in [Window -> Beacons]
    /\ over \in BOOLEAN

SessionInit ==
    /\ row = [claimed |-> FALSE, owner |-> Nobody, live |-> FALSE]
    /\ tab = [w \in Window |-> Closed]
    /\ call = [w \in Window |-> FALSE]
    /\ beacon = [w \in Window |-> "none"]
    /\ over = FALSE

----------------------------------------------------------------------------
(* Loading the page (student.start_test).                                  *)

(* Mutant: a claim lasts until it is released.                             *)
StandingForEver(b) ==
    IF row.owner = b THEN "own" ELSE IF row.claimed THEN "held" ELSE "free"

Standing(b) ==
    CASE row.owner = b -> "own"
      [] row.owner # b /\ ~row.claimed -> "free"
      [] row.owner # b /\ row.claimed /\ ~row.live -> "stale"
      [] row.owner # b /\ row.claimed /\ row.live -> "held"

(* The request loads the attempt.  A page that was frozen, or closed, is   *)
(* loaded anew, in whichever browser the student takes.                    *)
OpenPage(w, b) ==
    /\ tab[w].at \in {"closed", "frozen"}
    /\ ~over
    /\ tab' = [tab EXCEPT ![w] =
                  [Closed EXCEPT !.at = "claiming", !.browser = b,
                                 !.standing = Standing(b)]]
    /\ UNCHANGED <<row, call, beacon, over>>

(* Recording a warning or a violation may end the exam: whether it does is *)
(* up to the test's policy and the counts (AttemptRecord).                 *)
MayEndExam == over' \in {over, TRUE}

(* Mutant: a browser that holds the attempt goes on with its old token.    *)
OutdatedByOthers(w, token) ==
    IF token = "latest" /\ tab[w].standing # "own" THEN "older" ELSE token

(* What becomes of a token somewhere when window w's claim mints a new one.*)
Outdated(w, token) == IF token = "latest" THEN "older" ELSE token

(* The column is written only if it differs from the one loaded.           *)
OwnerAfter(w) ==
    IF tab[w].standing = "own" THEN row.owner ELSE tab[w].browser

(* claim_session commits.  Taking over another browser's unreleased claim  *)
(* is noted as a warning.  Beacons on their way will no longer match.      *)
ClaimSession(w) ==
    /\ tab[w].at = "claiming"
    /\ tab[w].standing # "held"
    /\ row' = [claimed |-> TRUE, owner |-> OwnerAfter(w), live |-> TRUE]
    /\ tab' = [v \in Window |->
          IF v = w THEN [tab[w] EXCEPT !.at = "rendering"]
          ELSE [tab[v] EXCEPT
                   !.token = Outdated(w, @),
                   !.overlapped = @ \/ tab[v].at \in {"claiming", "rendering"}]]
    /\ beacon' = [v \in Window |-> IF beacon[v] = "sent" THEN "none" ELSE beacon[v]]
    /\ IF tab[w].standing = "stale" THEN MayEndExam ELSE over' = over
    /\ UNCHANGED call

(* record_blocked_concurrent_session: a violation, and the blocking page.  *)
RefuseClaim(w) ==
    /\ tab[w].at = "claiming"
    /\ tab[w].standing = "held"
    /\ tab' = [tab EXCEPT ![w] = Closed]
    /\ MayEndExam
    /\ UNCHANGED <<row, call, beacon>>

RenderedToken == IF row.claimed THEN "latest" ELSE "none"

(* The commit expired the loaded row, so the template reads it again: the  *)
(* page gets whatever token is in it by now.                               *)
RenderPage(w) ==
    /\ tab[w].at = "rendering"
    /\ tab' = [tab EXCEPT ![w].at = "open", ![w].standing = "free",
                          ![w].token = RenderedToken]
    /\ UNCHANGED <<row, call, beacon, over>>

----------------------------------------------------------------------------
(* The calls of an open page (autosave_answers, heartbeat).                *)

Superseded(w) == row.claimed /\ tab[w].token = "older"

(* validate_session_token on the loaded row: a token that matches refreshes*)
(* session_last_seen_at.  The page sends one call at a time.               *)
BeginCall(w) ==
    /\ tab[w].at = "open" /\ ~call[w]
    /\ ~over /\ row.claimed /\ tab[w].token = "latest"
    /\ call' = [call EXCEPT ![w] = TRUE]
    /\ UNCHANGED <<row, tab, beacon, over>>

(* The allowlist check of a heartbeat may record a violation.              *)
CommitCall(w) ==
    /\ call[w]
    /\ row' = [row EXCEPT !.live = TRUE]
    /\ call' = [call EXCEPT ![w] = FALSE]
    /\ MayEndExam
    /\ UNCHANGED <<tab, beacon>>

(* Mutant: the page takes the conflict for a lost connection.              *)
HearOfConflictAsOutage(w) ==
    /\ tab[w].at = "open" /\ ~call[w]
    /\ ~over /\ Superseded(w)
    /\ UNCHANGED sessionVars

(* 409, or session_conflict: the page freezes behind an overlay.           *)
HearOfConflict(w) ==
    /\ tab[w].at = "open" /\ ~call[w]
    /\ ~over /\ Superseded(w)
    /\ tab' = [tab EXCEPT ![w] = [Closed EXCEPT !.at = "frozen"]]
    /\ UNCHANGED <<row, call, beacon, over>>

(* A heartbeat finds the exam over, and the page moves on to the result.   *)
HearOfEnd(w) ==
    /\ tab[w].at = "open" /\ over
    /\ tab' = [tab EXCEPT ![w] = Closed]
    /\ UNCHANGED <<row, call, beacon, over>>

----------------------------------------------------------------------------
(* Leaving the page.                                                       *)

SendBeacon(w) ==
    /\ tab[w].at = "open" /\ tab[w].token = "latest"
    /\ beacon[w] = "none"
    /\ beacon' = [beacon EXCEPT ![w] = "sent"]

ClosePage(w) ==
    /\ SendBeacon(w)
    /\ tab' = [tab EXCEPT ![w] = Closed]
    /\ UNCHANGED <<row, call, over>>

(* beforeunload sends the beacon before the student answers "Stay".        *)
StayOnPage(w) ==
    /\ SendBeacon(w)
    /\ UNCHANGED <<row, tab, call, over>>

(* The browser, or the device, dies; or its beacon is lost or useless.     *)
(* A request about to be refused is refused whether its page lives or not. *)
CrashPage(w) ==
    /\ tab[w].at \in {"claiming", "rendering", "open"}
    /\ tab[w].standing # "held"
    /\ tab' = [tab EXCEPT ![w] = Closed]
    /\ UNCHANGED <<row, call, beacon, over>>

(* release_session: compare the token in the loaded row, then commit NULL. *)
ReadBeacon(w) ==
    /\ beacon[w] = "sent"
    /\ beacon' = [beacon EXCEPT ![w] =
           IF ~over /\ row.claimed THEN "matched" ELSE "none"]
    /\ UNCHANGED <<row, tab, call, over>>

CommitRelease(w) ==
    /\ beacon[w] = "matched"
    /\ row' = [row EXCEPT !.claimed = FALSE]
    /\ beacon' = [beacon EXCEPT ![w] = "none"]
    /\ UNCHANGED <<tab, call, over>>

LoseBeacon(w) ==
    /\ beacon[w] # "none"
    /\ beacon' = [beacon EXCEPT ![w] = "none"]
    /\ UNCHANGED <<row, tab, call, over>>

(* The staleness window passes without a call of the holder: it is gone,   *)
(* offline, or its tab is suspended.                                       *)
Silence ==
    /\ row.live
    /\ row' = [row EXCEPT !.live = FALSE]
    /\ UNCHANGED <<tab, call, beacon, over>>

(* Submitted, terminated or out of time by another request.                *)
EndExam ==
    /\ ~over /\ over' = TRUE
    /\ UNCHANGED <<row, tab, call, beacon>>

Opens(w) == \E b \in Browser : OpenPage(w, b)
Loads(w) == ClaimSession(w) \/ RefuseClaim(w) \/ RenderPage(w)
Beats(w) == BeginCall(w) \/ HearOfConflict(w) \/ HearOfEnd(w)

SessionNext ==
    \/ \E w \in Window :
         \/ Opens(w) \/ Loads(w)
         \/ Beats(w) \/ CommitCall(w)
         \/ ClosePage(w) \/ StayOnPage(w) \/ CrashPage(w)
         \/ ReadBeacon(w) \/ CommitRelease(w) \/ LoseBeacon(w)
    \/ Silence
    \/ EndExam

SessionSpec == SessionInit /\ [][SessionNext]_sessionVars

(* Requests are answered, open pages keep sending heartbeats, time passes, *)
(* and the student keeps trying in one window, with any of the browsers.   *)
(* Nothing makes the student close a page, or open another.                *)
SessionFairSpec ==
    /\ SessionSpec
    /\ WF_sessionVars(Silence)
    /\ WF_sessionVars(Opens(Persistent))
    /\ \A w \in Window :
          WF_sessionVars(Loads(w)) /\ WF_sessionVars(Beats(w)) /\ WF_sessionVars(CommitCall(w))

----------------------------------------------------------------------------

(* Claims that no other claim overlapped give exclusive possession: at     *)
(* most one of their pages has the token in the row, and that page is in   *)
(* the browser the row names as its owner.                                 *)
Undisturbed == {w \in Window : tab[w].at = "open" /\ ~tab[w].overlapped}

SingleDriver ==
    \A w \in Undisturbed : tab[w].token = "latest" =>
        /\ row.owner = tab[w].browser
        /\ \A v \in Undisturbed : tab[v].token = "latest" => v = w

(* A page that has been superseded finds out, unless the claim that        *)
(* superseded it is given up first.                                        *)
SupersededPageLearns ==
    \A w \in Window :
        (tab[w].at = "open" /\ Superseded(w))
            ~> (tab[w].at # "open" \/ ~row.claimed \/ over)

(* Nobody is locked out by a device that is gone: once all other pages     *)
(* stay closed and the student's own stops crashing, one who keeps trying  *)
(* gets in again and again.                                                *)
Gone(w) == tab[w].at = "closed" /\ ~call[w]

NobodyIsLockedOut ==
    (/\ <>[](\A w \in Window \ {Persistent} : Gone(w))
     /\ <>[][~CrashPage(Persistent)]_sessionVars)
    => []<>(over \/ tab[Persistent].at = "open")

==============================================================================
