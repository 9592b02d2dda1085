------------------------------ MODULE Accounts ------------------------------
(***************************************************************************)
(* One account: registration, the codes e-mailed for it, passwords and the *)
(* lock on wrong ones, the second factor with its backup codes, and the    *)
(* login sessions (auth.py, otp.py, twofa.py, security.py, profile.py).    *)
(*                                                                         *)
(* A browser has one request in progress at a time; a request reads rows,  *)
(* and commits what it made of them in a later step.  What a browser       *)
(* knows of a half finished flow is in its session cookie, which the       *)
(* response of the request sets.                                           *)
(***************************************************************************)
EXTENDS Integers, Sequences, FiniteSets, FiniteSetsExt

CONSTANTS
    Browser,     \* the browsers that use the account
    Absent,      \* no such account
    MaxFailures, \* MAX_FAILED_ATTEMPTS
    Lock,        \* LOCKOUT_MINUTES
    MaxTries,    \* OTP_MAX_ATTEMPTS
    Ttl,         \* OTP_TTL_MINUTES
    Window,      \* is_redeemable: minutes a verified code may be used
    Cooldown,    \* OTP_RESEND_COOLDOWN_SECONDS
    BackupCodes, \* how many backup codes are generated
    Horizon,     \* bound: the time
    MaxCalls     \* bound: requests made

ASSUME AbsentAssumption == Absent \notin [verified : BOOLEAN, active : BOOLEAN,
    failures : Nat, until : Nat, totp : BOOLEAN, backup : SUBSET Nat]
ASSUME NumberAssumption ==
    /\ MaxFailures \in Nat \ {0} /\ MaxTries \in Nat \ {0}
    /\ {Lock, Ttl, Window, Cooldown, BackupCodes, Horizon, MaxCalls} \subseteq Nat

VARIABLES
    clock,     \* the time
    user,      \* the row of users
    codes,     \* the rows of email_otps, oldest first
    sessions,  \* the rows of login_sessions, oldest first
    browser,   \* the session cookie of each browser
    call,      \* what the request of each browser has loaded
    ghost      \* what the properties remember; no code reads it

vars == <<clock, user, codes, sessions, browser, call, ghost>>

Purpose == {"verify", "reset"}
Never == 0 - 1
User == [verified : BOOLEAN, active : BOOLEAN, failures : 0 .. MaxFailures - 1,
         until : Nat, totp : BOOLEAN, backup : SUBSET Nat]
Code == [purpose : Purpose, made : Nat, tries : Nat, consumed : Int, redeemed : BOOLEAN]
Cookie == [login : BOOLEAN, session : Nat, second : BOOLEAN, code : Nat]
Idle == [op |-> "idle"]
Loaded ==
    [op : {"mail"}, purpose : Purpose]
    \cup [op : {"issue"}, purpose : Purpose, old : SUBSET Nat]
    \cup [op : {"verify"}, code : Nat, tries : Nat]
    \cup [op : {"reset"}, code : Nat, user : User]
    \cup [op : {"password", "second"}, user : User]
    \cup [op : {"verified"}]
    \cup [op : {"enter"}, second : BOOLEAN]
    \cup [op : {"entering"}, second : BOOLEAN, old : SUBSET Nat]

(* ghost: wrong counts the wrong passwords in a row; guesses, resets and   *)
(* uses count the wrong guesses and the resets of each code and the logins *)
(* with each backup code; overlaps the commits over rows that had changed, *)
(* lost the guesses that a stale counter no longer counts; purges the rows *)
(* of ended sessions that were deleted, untracked the logins that came     *)
(* about without a row.                                                    *)
TypeOK ==
    /\ clock \in 0 .. Horizon
    /\ user \in User \cup {Absent}
    /\ codes \in Seq(Code)
    /\ sessions \in Seq({"active", "ended", "purged"})
    /\ browser \in [Browser -> Cookie]
    /\ call \in [Browser -> {Idle} \cup Loaded]
    /\ ghost \in [calls : 0 .. MaxCalls, overlaps : Nat, lost : Nat,
                  purges : Nat, untracked : Nat, wrong : Nat,
                  guesses : Seq(Nat), resets : Seq(Nat), uses : Seq(Nat)]

Fresh == [verified |-> FALSE, active |-> TRUE, failures |-> 0, until |-> 0,
          totp |-> FALSE, backup |-> {}]
NoCookie == [login |-> FALSE, session |-> 0, second |-> FALSE, code |-> 0]
Zeros(n) == [i \in 1 .. n |-> 0]

(* No account yet, or one that is verified, with or without a second       *)
(* factor, and used by nobody.                                             *)
Init ==
    /\ clock = 0
    /\ user \in {Absent, [Fresh EXCEPT !.verified = TRUE],
                 [Fresh EXCEPT !.verified = TRUE, !.totp = TRUE, !.backup = 1 .. BackupCodes]}
    /\ codes = <<>> /\ sessions = <<>>
    /\ browser = [b \in Browser |-> NoCookie]
    /\ call = [b \in Browser |-> Idle]
    /\ ghost = [calls |-> 0, overlaps |-> 0, lost |-> 0, purges |-> 0, untracked |-> 0,
                wrong |-> 0,
                guesses |-> <<>>, resets |-> <<>>, uses |-> Zeros(BackupCodes)]

(* A browser whose session has ended: enforce_single_session logs it out   *)
(* at the head of its next request (Replaced), before anything else.       *)
Stale(b) ==
    /\ browser[b].login /\ user.active
    /\ browser[b].session # 0 /\ sessions[browser[b].session] = "ended"

----------------------------------------------------------------------------

Begin(b, l) ==
    /\ user # Absent /\ ~Stale(b)
    /\ call[b] = Idle /\ ghost.calls < MaxCalls
    /\ call' = [call EXCEPT ![b] = l]
    /\ ghost' = [ghost EXCEPT !.calls = @ + 1]
    /\ UNCHANGED <<clock, user, codes, sessions, browser>>

Goto(b, l) == call' = [call EXCEPT ![b] = l]

(* The response sets the cookie, unless it is lost on its way.             *)
Answer(b, cookie) ==
    \/ browser' = [browser EXCEPT ![b] = cookie]
    \/ UNCHANGED browser

(* A commit over rows that are not as they were loaded, and one that sets  *)
(* a counter back because others have counted since it was loaded.         *)
Overlapped(g, b) == IF b THEN [g EXCEPT !.overlaps = @ + 1] ELSE g
SetBack(g, now, loaded) ==
    IF now > loaded THEN [g EXCEPT !.lost = @ + (now - loaded)] ELSE g

(* Only a column whose value differs from the loaded one is written.       *)
Written(new, loaded, current) == IF new = loaded THEN current ELSE new

Newest(p) == {i \in DOMAIN codes : codes[i].purpose = p}
Open(p) == {i \in Newest(p) : codes[i].consumed = Never}

(* Mutant: a session that has ended goes on.                               *)
StaysLoggedIn(b) == browser[b].login /\ user.active

(* load_user and enforce_single_session: a browser is logged in as long as *)
(* the account is active and its login session is not known to have ended. *)
(* (A session row that retention has deleted is not known at all, and a    *)
(* login without a session is let through.)                                *)
LoggedIn(b) == browser[b].login /\ user.active /\ ~Stale(b)

(* register: the account is committed before its first code is issued; an  *)
(* account without one asks for it again (resend_verification).            *)
Register(b) ==
    /\ user = Absent /\ call[b] = Idle /\ ghost.calls < MaxCalls
    /\ user' = Fresh
    /\ Goto(b, [op |-> "mail", purpose |-> "verify"])
    /\ ghost' = [ghost EXCEPT !.calls = @ + 1]
    /\ UNCHANGED <<clock, codes, sessions, browser>>

(* import_users: an account that is verified from the start.               *)
ImportUser ==
    /\ user = Absent /\ ghost.calls < MaxCalls
    /\ user' = [Fresh EXCEPT !.verified = TRUE]
    /\ ghost' = [ghost EXCEPT !.calls = @ + 1]
    /\ UNCHANGED <<clock, codes, sessions, browser, call>>

(* seconds_until_resend.                                                   *)
MayResend(p) == \A i \in Newest(p) : clock >= codes[i].made + Cooldown

(* resend_verification.                                                    *)
AskForCode(b) ==
    /\ Begin(b, [op |-> "mail", purpose |-> "verify"])
    /\ ~user.verified /\ MayResend("verify")

(* forgot_password and resend_reset_code.                                  *)
AskForReset(b) ==
    /\ Begin(b, [op |-> "mail", purpose |-> "reset"])
    /\ ~LoggedIn(b) /\ MayResend("reset")

(* forgot_password, too soon after another code: the browser starts over   *)
(* without a new one.                                                      *)
StartOver(b) ==
    /\ user # Absent /\ call[b] = Idle /\ ~Stale(b)
    /\ ~LoggedIn(b) /\ ~MayResend("reset")
    /\ browser' = [browser EXCEPT ![b].code = 0]
    /\ UNCHANGED <<clock, user, codes, sessions, call, ghost>>

(* issue_otp: the open codes it has found are superseded by a new one.     *)
LoadIssue(b) ==
    /\ call[b].op = "mail"
    /\ call' = [call EXCEPT ![b] =
                  [op |-> "issue", purpose |-> @.purpose, old |-> Open(@.purpose)]]
    /\ UNCHANGED <<clock, user, codes, sessions, browser, ghost>>

Superseded(old) ==
    [i \in DOMAIN codes |-> IF i \in old
        THEN [codes[i] EXCEPT !.consumed = clock, !.redeemed = TRUE] ELSE codes[i]]

CommitIssue(b) ==
    LET l == call[b] IN
    /\ l.op = "issue"
    /\ codes' = Append(Superseded(l.old),
                       [purpose |-> l.purpose, made |-> clock, tries |-> 0,
                        consumed |-> Never, redeemed |-> FALSE])
    /\ browser' = IF l.purpose = "reset" THEN [browser EXCEPT ![b].code = 0] ELSE browser
    /\ Goto(b, Idle)
    /\ ghost' = [Overlapped(ghost, Open(l.purpose) # l.old)
                    EXCEPT !.guesses = Append(@, 0), !.resets = Append(@, 0)]
    /\ UNCHANGED <<clock, user, sessions>>

(* is_redeemable: verified, not used yet, and within the window.           *)
Redeemable(i) ==
    /\ i \in DOMAIN codes
    /\ codes[i].consumed # Never /\ ~codes[i].redeemed
    /\ clock - codes[i].consumed <= Window

(* Mutant: one guess more than OTP_MAX_ATTEMPTS.                           *)
MayGuessOnceMore(i) == codes[i].tries <= MaxTries

MayGuess(i) == codes[i].tries < MaxTries

(* verify_otp, from verify_email or reset_password: the newest open code   *)
(* counts, unless it has expired or was guessed at too often.              *)
LoadVerify(b, p) ==
    /\ user # Absent
    /\ p = "reset" => ~LoggedIn(b) /\ ~Redeemable(browser[b].code)
    /\ Open(p) # {}
    /\ LET i == Max(Open(p)) IN
       /\ clock <= codes[i].made + Ttl
       /\ MayGuess(i)
       /\ Begin(b, [op |-> "verify", code |-> i, tries |-> codes[i].tries])

WrongCode(b) ==
    LET l == call[b] IN
    /\ l.op = "verify"
    /\ codes' = [codes EXCEPT ![l.code].tries = l.tries + 1]
    /\ Goto(b, Idle)
    /\ ghost' = [SetBack(ghost, codes[l.code].tries, l.tries)
                    EXCEPT !.guesses[l.code] = @ + 1]
    /\ UNCHANGED <<clock, user, sessions, browser>>

(* The code is used up; then the account is verified in a second commit,   *)
(* or the browser may go on to set a password.                             *)
RightCode(b) ==
    LET l == call[b] IN
    /\ l.op = "verify"
    /\ codes' = [codes EXCEPT ![l.code].consumed = clock]
    /\ IF codes[l.code].purpose = "reset"
       THEN browser' = [browser EXCEPT ![b].code = l.code] /\ Goto(b, Idle)
       ELSE UNCHANGED browser /\ Goto(b, [op |-> "verified"])
    /\ ghost' = Overlapped(ghost, codes[l.code].consumed # Never)
    /\ UNCHANGED <<clock, user, sessions>>

MarkVerified(b) ==
    /\ call[b].op = "verified"
    /\ user' = [user EXCEPT !.verified = TRUE]
    /\ Goto(b, Idle)
    /\ UNCHANGED <<clock, codes, sessions, browser, ghost>>

(* reset_password, second step: password, counter, lock and code at once.  *)
LoadReset(b) ==
    /\ Redeemable(browser[b].code)
    /\ Begin(b, [op |-> "reset", code |-> browser[b].code, user |-> user])
    /\ ~LoggedIn(b)

Unlocked(l) == [user EXCEPT !.failures = Written(0, l.user.failures, @),
                            !.until = Written(0, l.user.until, @)]

(* Mutant: a code that has set a password is not marked.                   *)
NotRedeemed(i) == codes

Redeemed(i) == [codes EXCEPT ![i].redeemed = TRUE]

CommitReset(b) ==
    LET l == call[b] IN
    /\ l.op = "reset"
    /\ user' = Unlocked(l)
    /\ codes' = Redeemed(l.code)
    /\ Answer(b, [browser[b] EXCEPT !.code = 0])
    /\ Goto(b, Idle)
    /\ ghost' = [Overlapped(ghost, codes[l.code].redeemed)
                    EXCEPT !.resets[l.code] = @ + 1, !.wrong = 0]
    /\ UNCHANGED <<clock, sessions>>

----------------------------------------------------------------------------

(* login, past the captcha: no lock, and the account is active.            *)
LoadPassword(b) ==
    /\ Begin(b, [op |-> "password", user |-> user])
    /\ ~LoggedIn(b) /\ user.active /\ user.until <= clock

Failed(l) ==
    IF l.user.failures + 1 < MaxFailures
    THEN [user EXCEPT !.failures = l.user.failures + 1]
    ELSE [user EXCEPT !.failures = Written(0, l.user.failures, @), !.until = clock + Lock]

WrongPassword(b) ==
    LET l == call[b] IN
    /\ l.op = "password"
    /\ user' = Failed(l)
    /\ Goto(b, Idle)
    /\ ghost' = [SetBack(ghost, user.failures, l.user.failures) EXCEPT !.wrong =
                    IF l.user.failures + 1 < MaxFailures THEN @ + 1 ELSE 0]
    /\ UNCHANGED <<clock, codes, sessions, browser>>

Vouched(b, totp) ==
    IF totp THEN Answer(b, [browser[b] EXCEPT !.second = TRUE]) /\ Goto(b, Idle)
    ELSE Goto(b, [op |-> "enter", second |-> browser[b].second]) /\ UNCHANGED browser

(* The counter is cleared; a verified account goes on to its second factor *)
(* (as the row says after the commit) or gets its session, to which the    *)
(* cookie's mark of an unfinished second factor makes no difference.       *)
RightPassword(b) ==
    LET l == call[b] IN
    /\ l.op = "password"
    /\ ghost' = [ghost EXCEPT !.wrong = 0]
    /\ \/ /\ ~l.user.verified
          /\ user' = [user EXCEPT !.failures = Written(0, l.user.failures, @)]
          /\ Goto(b, Idle) /\ UNCHANGED browser
       \/ /\ l.user.verified
          /\ user' = Unlocked(l)
          /\ Vouched(b, user.totp)
    /\ UNCHANGED <<clock, codes, sessions>>

(* _complete_sso_login: the identity provider vouches for the address, an  *)
(* unknown one gets an account; only the lock is looked at.                *)
SsoLogin(b) ==
    /\ call[b] = Idle /\ ghost.calls < MaxCalls
    /\ user # Absent => user.until <= clock /\ ~Stale(b)
    /\ user' = IF user = Absent THEN [Fresh EXCEPT !.verified = TRUE] ELSE user
    /\ Vouched(b, user'.totp)
    /\ ghost' = [ghost EXCEPT !.calls = @ + 1]
    /\ UNCHANGED <<clock, codes, sessions>>

(* login_verify_2fa: a code of the authenticator, or a backup code, which  *)
(* is taken out of the list that was loaded.  An account without a second  *)
(* factor is sent back to the first step.                                  *)
NoSecond(b) ==
    /\ browser[b].second /\ ~user.totp /\ call[b] = Idle /\ ~Stale(b)
    /\ browser' = [browser EXCEPT ![b].second = FALSE]
    /\ UNCHANGED <<clock, user, codes, sessions, call, ghost>>

LoadSecond(b) ==
    /\ browser[b].second /\ user.totp
    /\ Begin(b, [op |-> "second", user |-> user])

AuthenticatorCode(b) ==
    /\ call[b].op = "second"
    /\ Goto(b, [op |-> "enter", second |-> FALSE])
    /\ UNCHANGED <<clock, user, codes, sessions, browser, ghost>>

BackupCode(b) ==
    LET l == call[b] IN
    /\ l.op = "second"
    /\ \E k \in l.user.backup :
          /\ user' = [user EXCEPT !.backup = l.user.backup \ {k}]
          /\ ghost' = [Overlapped(ghost, user.backup # l.user.backup)
                          EXCEPT !.uses[k] = @ + 1]
    /\ Goto(b, [op |-> "enter", second |-> FALSE])
    /\ UNCHANGED <<clock, codes, sessions, browser>>

(* login_user writes the login into the cookie, which goes out with the    *)
(* response; then register_login ends the active sessions it has found and *)
(* begins a new one.                                                       *)
Active == {i \in DOMAIN sessions : sessions[i] = "active"}

LoadEnter(b) ==
    /\ call[b].op = "enter"
    /\ call' = [call EXCEPT ![b] =
                  [op |-> "entering", second |-> @.second, old |-> Active]]
    /\ UNCHANGED <<clock, user, codes, sessions, browser, ghost>>

EndOthers(old) ==
    [i \in DOMAIN sessions |-> IF i \in old THEN "ended" ELSE sessions[i]]

CommitEnter(b) ==
    LET l == call[b] IN
    /\ l.op = "entering"
    /\ sessions' = Append(EndOthers(l.old), "active")
    /\ Answer(b, [browser[b] EXCEPT !.login = TRUE, !.session = Len(sessions) + 1,
                                    !.second = l.second])
    /\ Goto(b, Idle)
    /\ ghost' = Overlapped(ghost, Active # l.old)
    /\ UNCHANGED <<clock, user, codes>>

(* The database refuses it: the error page carries the cookie with the     *)
(* login, and with the session it had before, if any.                      *)
EnterRefused(b) ==
    LET l == call[b] IN
    /\ l.op \in {"enter", "entering"}
    /\ browser' = [browser EXCEPT ![b].login = TRUE, ![b].second = l.second]
    /\ Goto(b, Idle)
    /\ ghost' = [ghost EXCEPT !.untracked = IF browser[b].session = 0 THEN @ + 1 ELSE @]
    /\ UNCHANGED <<clock, user, codes, sessions>>

(* enforce_single_session, before any request of a browser that was        *)
(* replaced; logout; cookies that are deleted or expire.                   *)
Replaced(b) ==
    /\ call[b] = Idle /\ Stale(b)
    /\ browser' = [browser EXCEPT ![b].login = FALSE, ![b].session = 0]
    /\ UNCHANGED <<clock, user, codes, sessions, call, ghost>>

(* end_session: a row that is not active any more is left as it is.        *)
SessionEnded(b) ==
    [i \in DOMAIN sessions |->
        IF i = browser[b].session /\ sessions[i] = "active" THEN "ended" ELSE sessions[i]]

Logout(b) ==
    /\ call[b] = Idle /\ LoggedIn(b)
    /\ sessions' = SessionEnded(b)
    /\ browser' = [browser EXCEPT ![b].login = FALSE, ![b].session = 0]
    /\ UNCHANGED <<clock, user, codes, call, ghost>>

ClearCookies(b) ==
    /\ call[b] = Idle
    /\ browser' = [browser EXCEPT ![b] = NoCookie]
    /\ UNCHANGED <<clock, user, codes, sessions, call, ghost>>

(* setup_2fa and regenerate_backup_codes make a new list; disable_2fa.     *)
SecondFactor(b) ==
    /\ call[b] = Idle /\ LoggedIn(b) /\ ghost.calls < MaxCalls
    /\ \/ /\ user' = [user EXCEPT !.totp = TRUE,
                        !.backup = Len(ghost.uses) + 1 .. Len(ghost.uses) + BackupCodes]
          /\ ghost' = [ghost EXCEPT !.calls = @ + 1, !.uses = @ \o Zeros(BackupCodes)]
       \/ /\ user.totp
          /\ user' = [user EXCEPT !.totp = FALSE, !.backup = {}]
          /\ ghost' = [ghost EXCEPT !.calls = @ + 1]
    /\ UNCHANGED <<clock, codes, sessions, browser, call>>

(* toggle_user_status; _purge_login_sessions of retention.                 *)
ToggleStatus ==
    /\ user # Absent /\ ghost.calls < MaxCalls
    /\ user' = [user EXCEPT !.active = ~@]
    /\ ghost' = [ghost EXCEPT !.calls = @ + 1]
    /\ UNCHANGED <<clock, codes, sessions, browser, call>>

PurgeSessions ==
    /\ \E i \in DOMAIN sessions : sessions[i] = "ended"
    /\ sessions' = [i \in DOMAIN sessions |->
                       IF sessions[i] = "ended" THEN "purged" ELSE sessions[i]]
    /\ ghost' = [ghost EXCEPT !.purges =
                    @ + Cardinality({i \in DOMAIN sessions : sessions[i] = "ended"})]
    /\ UNCHANGED <<clock, user, codes, browser, call>>

(* The process of a request dies, or the request fails before there is a   *)
(* login: what is not committed is lost.                                   *)
GiveUp(b) ==
    /\ call[b] # Idle
    /\ Goto(b, Idle)
    /\ UNCHANGED <<clock, user, codes, sessions, browser, ghost>>

Tick ==
    /\ clock < Horizon
    /\ clock' = clock + 1
    /\ UNCHANGED <<user, codes, sessions, browser, call, ghost>>

Next ==
    \/ Tick \/ ImportUser \/ ToggleStatus \/ PurgeSessions
    \/ \E b \in Browser :
          \/ Register(b) \/ LoadIssue(b) \/ CommitIssue(b)
          \/ WrongCode(b) \/ RightCode(b) \/ MarkVerified(b)
          \/ LoadReset(b) \/ CommitReset(b)
          \/ LoadPassword(b) \/ WrongPassword(b) \/ RightPassword(b)
          \/ SsoLogin(b) \/ LoadSecond(b) \/ AuthenticatorCode(b) \/ BackupCode(b)
          \/ NoSecond(b) \/ LoadEnter(b) \/ CommitEnter(b) \/ EnterRefused(b)
          \/ Replaced(b) \/ Logout(b) \/ ClearCookies(b) \/ SecondFactor(b) \/ GiveUp(b)
          \/ AskForCode(b) \/ AskForReset(b) \/ StartOver(b)
          \/ \E p \in Purpose : LoadVerify(b, p)

Spec == Init /\ [][Next]_vars

----------------------------------------------------------------------------

(* A code is guessed at no more often than OTP_MAX_ATTEMPTS, and the       *)
(* number of wrong passwords in a row is no larger than the counter that   *)
(* brings the lock: but for the guesses that were lost because a request   *)
(* wrote a number it had loaded before them (verify_otp, login).           *)
GuessesAreCounted ==
    /\ \A i \in DOMAIN codes : ghost.guesses[i] <= MaxTries + ghost.lost
    /\ user # Absent => ghost.wrong <= user.failures + ghost.lost

(* One code of each purpose is open at a time, a verified code sets one    *)
(* password, and a backup code logs in once; every further one is the work *)
(* of overlapping requests (issue_otp, redeem, consume_backup_code).       *)
CodesWorkOnce ==
    /\ \A p \in Purpose : Cardinality(Open(p)) <= 1 + ghost.overlaps
    /\ \A i \in DOMAIN codes : ghost.resets[i] <= 1 + ghost.overlaps
    /\ \A k \in DOMAIN ghost.uses : ghost.uses[k] <= 1 + ghost.overlaps

(* "at most one session per account is ever actually usable at a time"     *)
(* (LoginSession), but for logins that overlapped, for the browsers that   *)
(* had not noticed the end of their session when its row was purged, and   *)
(* for the logins whose session could not be stored (register_login).      *)
OneUsableSession ==
    user # Absent =>
        Cardinality({b \in Browser : LoggedIn(b)})
            <= 1 + ghost.overlaps + ghost.purges + ghost.untracked

============================================================================
