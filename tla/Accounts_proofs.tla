--------------------------- MODULE Accounts_proofs ---------------------------
(***************************************************************************)
(* Theorems about an account (Accounts), for any number of browsers,       *)
(* requests, codes and logins and any limits and times.                    *)
(***************************************************************************)
EXTENDS Accounts, FiniteSetTheorems, SequenceTheorems, TLAPS

(* What a request has loaded points at what is there.                      *)
CallsSound ==
    \A b \in Browser :
        /\ call[b] # Idle => user # Absent
        /\ call[b].op = "verify" => call[b].code \in DOMAIN codes /\ call[b].tries < MaxTries
        /\ call[b].op = "reset" => call[b].code \in DOMAIN codes
        /\ call[b].op = "second" => call[b].user.backup \subseteq DOMAIN ghost.uses

(* A wrong guess is in the counter of its code, or was lost; a reset is in *)
(* the mark of its code, or overlapped another.                            *)
CodesCounted ==
    /\ Len(ghost.guesses) = Len(codes) /\ Len(ghost.resets) = Len(codes)
    /\ \A i \in DOMAIN codes :
          /\ codes[i].tries <= MaxTries
          /\ ghost.guesses[i] <= codes[i].tries + ghost.lost
          /\ ghost.resets[i] <= (IF codes[i].redeemed THEN 1 ELSE 0) + ghost.overlaps

OneOpen == \A p \in Purpose : Cardinality(Open(p)) <= 1 + ghost.overlaps

(* A wrong password is in the counter of the account, or was lost.         *)
PasswordsCounted ==
    IF user = Absent THEN ghost.wrong = 0 ELSE ghost.wrong <= user.failures + ghost.lost

(* A backup code that is still listed has been used by overlaps only.      *)
BackupOnce ==
    /\ user # Absent => /\ user.backup \subseteq DOMAIN ghost.uses
                        /\ \A k \in user.backup : ghost.uses[k] <= ghost.overlaps
    /\ \A k \in DOMAIN ghost.uses : ghost.uses[k] <= 1 + ghost.overlaps

(* No two browsers have the same session; sessions are active together     *)
(* only if logins overlapped, and forgotten only if they were purged.      *)
Purged == {i \in DOMAIN sessions : sessions[i] = "purged"}

SessionsCounted ==
    /\ \A b \in Browser : browser[b].session \in 0 .. Len(sessions)
    /\ \A b, c \in Browser : b # c => browser[b].session = 0
                                      \/ browser[b].session # browser[c].session
    /\ Cardinality(Active) <= 1 + ghost.overlaps
    /\ Cardinality(Purged) <= ghost.purges
    /\ user = Absent => sessions = <<>>

IInv ==
    /\ TypeOK /\ CallsSound /\ CodesCounted /\ OneOpen
    /\ PasswordsCounted /\ BackupOnce /\ SessionsCounted

(* Without an account nobody is logged in, and every login without a       *)
(* session came about when the session could not be stored.                *)
Untracked == {b \in Browser : browser[b].login /\ browser[b].session = 0}

Logins ==
    /\ user = Absent => \A b \in Browser : ~browser[b].login
    /\ IsFiniteSet(Untracked) /\ Cardinality(Untracked) <= ghost.untracked

-----------------------------------------------------------------------------
(* What the types say.                                                     *)

Ghost == [calls : 0 .. MaxCalls, overlaps : Nat, lost : Nat, purges : Nat,
          untracked : Nat, wrong : Nat, guesses : Seq(Nat), resets : Seq(Nat), uses : Seq(Nat)]

LEMMA Rows ==
    ASSUME TypeOK
    PROVE  /\ codes \in Seq(Code) /\ Len(codes) \in Nat /\ DOMAIN codes = 1 .. Len(codes)
           /\ \A i \in DOMAIN codes : codes[i] \in Code
           /\ sessions \in Seq({"active", "ended", "purged"}) /\ Len(sessions) \in Nat
           /\ DOMAIN sessions = 1 .. Len(sessions)
           /\ \A i \in DOMAIN sessions : sessions[i] \in {"active", "ended", "purged"}
<1>1. codes \in Seq(Code) /\ sessions \in Seq({"active", "ended", "purged"})
    BY DEF TypeOK
<1>2. Len(codes) \in Nat /\ DOMAIN codes = 1 .. Len(codes)
      /\ Len(sessions) \in Nat /\ DOMAIN sessions = 1 .. Len(sessions)
    BY <1>1, LenProperties
<1>3. \A i \in 1 .. Len(codes) : codes[i] \in Code
    BY <1>1, ElementOfSeq
<1>4. \A i \in 1 .. Len(sessions) : sessions[i] \in {"active", "ended", "purged"}
    BY <1>1, ElementOfSeq
<1> QED
    BY <1>1, <1>2, <1>3, <1>4

LEMMA Scalars ==
    ASSUME TypeOK
    PROVE  /\ clock \in Nat /\ clock # Never
           /\ user # Absent => user \in User
           /\ browser \in [Browser -> Cookie]
           /\ call \in [Browser -> {Idle} \cup Loaded]
<1>1. Horizon \in Nat
    BY NumberAssumption
<1> QED
    BY <1>1 DEF TypeOK, Never

LEMMA Counters ==
    ASSUME TypeOK
    PROVE  /\ ghost \in Ghost /\ ghost.calls \in 0 .. MaxCalls /\ MaxCalls \in Nat
           /\ ghost.overlaps \in Nat /\ ghost.lost \in Nat /\ ghost.purges \in Nat
           /\ ghost.untracked \in Nat /\ ghost.wrong \in Nat
           /\ ghost.guesses \in Seq(Nat) /\ ghost.resets \in Seq(Nat) /\ ghost.uses \in Seq(Nat)
           /\ ghost = [calls |-> ghost.calls, overlaps |-> ghost.overlaps, lost |-> ghost.lost,
                       purges |-> ghost.purges, untracked |-> ghost.untracked,
                       wrong |-> ghost.wrong, guesses |-> ghost.guesses,
                       resets |-> ghost.resets, uses |-> ghost.uses]
BY NumberAssumption DEF TypeOK, Ghost

(* Each row of the ghost can be written.                                   *)
LEMMA GhostWritten ==
    ASSUME NEW g \in Ghost, NEW n \in Nat, NEW s \in Seq(Nat), NEW t \in Seq(Nat)
    PROVE  /\ [g EXCEPT !.overlaps = n] \in Ghost
           /\ [g EXCEPT !.lost = n] \in Ghost
           /\ [g EXCEPT !.purges = n] \in Ghost
           /\ [g EXCEPT !.untracked = n] \in Ghost
           /\ [g EXCEPT !.wrong = n] \in Ghost
           /\ [g EXCEPT !.guesses = s] \in Ghost
           /\ [g EXCEPT !.guesses = s, !.resets = t] \in Ghost
           /\ [g EXCEPT !.resets = t, !.wrong = 0] \in Ghost
           /\ [g EXCEPT !.uses = s] \in Ghost
           /\ g.calls < MaxCalls => /\ [g EXCEPT !.calls = @ + 1] \in Ghost
                                    /\ [g EXCEPT !.calls = @ + 1, !.uses = s] \in Ghost
<1>1. MaxCalls \in Nat
    BY NumberAssumption
<1>2. g.calls < MaxCalls => g.calls + 1 \in 0 .. MaxCalls
    BY <1>1 DEF Ghost
<1> QED
    BY <1>2 DEF Ghost

(* What a request in progress holds.                                       *)
LEMMA Holds ==
    ASSUME TypeOK, NEW b \in Browser
    PROVE  /\ call[b].op # "idle" => call[b] # Idle
           /\ call[b].op = "mail" => call[b].purpose \in Purpose
           /\ call[b].op = "issue" => call[b].purpose \in Purpose /\ call[b].old \subseteq Nat
           /\ call[b].op = "verify" => call[b].code \in Nat /\ call[b].tries \in Nat
           /\ call[b].op = "reset" => call[b].code \in Nat /\ call[b].user \in User
           /\ call[b].op \in {"password", "second"} => call[b].user \in User
           /\ call[b].op \in {"enter", "entering"} => call[b].second \in BOOLEAN
           /\ call[b].op = "entering" => call[b].old \subseteq Nat
<1>1. call[b] \in {Idle} \cup Loaded
    BY Scalars
<1> QED
    BY <1>1 DEF Idle, Loaded

LEMMA CallSet ==
    ASSUME TypeOK, NEW b \in Browser, NEW l \in {Idle} \cup Loaded, call' = [call EXCEPT ![b] = l]
    PROVE  /\ call' \in [Browser -> {Idle} \cup Loaded]
           /\ call'[b] = l /\ \A c \in Browser \ {b} : call'[c] = call[c]
BY Scalars

(* One code is written, or all that were found are superseded and a new    *)
(* one is made.                                                            *)
LEMMA CodeWritten ==
    ASSUME TypeOK, NEW i \in DOMAIN codes, NEW row \in Code,
           codes' = [codes EXCEPT ![i] = row]
    PROVE  /\ codes' \in Seq(Code) /\ Len(codes') = Len(codes) /\ DOMAIN codes' = DOMAIN codes
           /\ \A j \in DOMAIN codes : codes'[j] = IF j = i THEN row ELSE codes[j]
<1>1. codes \in Seq(Code) /\ DOMAIN codes = 1 .. Len(codes)
    BY Rows
<1>2. codes' \in Seq(Code) /\ Len(codes') = Len(codes)
      /\ \A j \in 1 .. Len(codes) : codes'[j] = IF j = i THEN row ELSE codes[j]
    BY <1>1, ExceptSeq
<1>3. DOMAIN codes' = 1 .. Len(codes')
    BY <1>2, LenProperties
<1> QED
    BY <1>1, <1>2, <1>3

LEMMA Supersedes ==
    ASSUME TypeOK, NEW old
    PROVE  /\ Superseded(old) \in Seq(Code) /\ Len(Superseded(old)) = Len(codes)
           /\ \A i \in DOMAIN codes :
                 /\ Superseded(old)[i].purpose = codes[i].purpose
                 /\ Superseded(old)[i].tries = codes[i].tries
                 /\ Superseded(old)[i].consumed = IF i \in old THEN clock ELSE codes[i].consumed
                 /\ codes[i].redeemed => Superseded(old)[i].redeemed
<1>1. \A i \in DOMAIN codes : codes[i] \in Code /\ clock \in Int
    BY Rows, Scalars
<1>2. \A i \in DOMAIN codes : Superseded(old)[i] \in Code
    BY <1>1 DEF Superseded, Code
<1>3. Superseded(old) \in Seq(Code) /\ Len(Superseded(old)) = Len(codes)
    <2>1. Len(codes) \in Nat /\ DOMAIN codes = 1 .. Len(codes)
        BY Rows
    <2>2. Superseded(old) \in [1 .. Len(codes) -> Code]
        BY <1>2, <2>1 DEF Superseded
    <2> QED
        BY <2>1, <2>2
<1>4. ASSUME NEW i \in DOMAIN codes
      PROVE  /\ Superseded(old)[i].purpose = codes[i].purpose
             /\ Superseded(old)[i].tries = codes[i].tries
             /\ Superseded(old)[i].consumed = IF i \in old THEN clock ELSE codes[i].consumed
             /\ codes[i].redeemed => Superseded(old)[i].redeemed
    <2>1. CASE i \in old
        <3>1. Superseded(old)[i] = [codes[i] EXCEPT !.consumed = clock, !.redeemed = TRUE]
            BY <2>1 DEF Superseded
        <3> QED
            BY <1>1, <2>1, <3>1 DEF Code
    <2>2. CASE i \notin old
        BY <2>2 DEF Superseded
    <2> QED
        BY <2>1, <2>2
<1> QED
    BY <1>3, <1>4

(* The open codes of a purpose are finitely many.                          *)
LEMMA OpenFinite ==
    ASSUME TypeOK, NEW p
    PROVE  IsFiniteSet(Open(p)) /\ Cardinality(Open(p)) \in Nat /\ Open(p) \subseteq DOMAIN codes
<1>1. Open(p) \in SUBSET (1 .. Len(codes)) /\ IsFiniteSet(1 .. Len(codes))
    BY Rows, FS_Interval DEF Open, Newest
<1> QED
    BY <1>1, Rows, FS_Subset, FS_CardinalityType

(* A set of numbers below a bound has a greatest one: the one above which  *)
(* there are fewest.                                                       *)
LEMMA Greatest ==
    ASSUME NEW n \in Nat, NEW S, S \subseteq 0 .. n, S # {}
    PROVE  Max(S) \in S /\ \A y \in S : y <= Max(S)
<1> DEFINE Above(x) == {y \in S : x < y}
           T == {Above(x) : x \in S}
<1>1. IsFiniteSet(S)
    <2>1. IsFiniteSet(0 .. n) /\ S \in SUBSET (0 .. n)
        BY FS_Interval
    <2> QED
        BY <2>1, FS_Subset
<1>2. T \subseteq FiniteSubsetsOf(S) /\ T # {}
    <2>1. T \subseteq SUBSET S /\ T # {}
        OBVIOUS
    <2>2. FiniteSubsetsOf(S) = SUBSET S
        BY <1>1, FS_FiniteSubsetsOfFinite
    <2> QED
        BY <2>1, <2>2
<1>3. PICK t \in T : \A u \in T : ~(<<u, t>> \in StrictSubsetOrdering(S))
    <2> HIDE DEF T
    <2>1. IsWellFoundedOn(StrictSubsetOrdering(S), FiniteSubsetsOf(S))
        BY FS_StrictSubsetOrderingWellFounded
    <2> QED
        BY <1>2, <2>1, WFMin
<1>4. PICK x \in S : t = Above(x)
    OBVIOUS
<1>5. \A y \in S : y <= x
    <2> SUFFICES ASSUME NEW y \in S, x < y
                 PROVE  FALSE
        OBVIOUS
    <2>1. Above(y) \subseteq Above(x) /\ y \in Above(x) /\ y \notin Above(y)
        <3>1. \A z \in S : z \in Int
            OBVIOUS
        <3>2. \A z \in S : y < z => x < z
            BY <3>1
        <3>3. ~(y < y)
            BY <3>1
        <3> QED
            BY <3>2, <3>3
    <2>2. <<Above(y), Above(x)>> \in StrictSubsetOrdering(S)
        BY <2>1 DEF StrictSubsetOrdering
    <2> QED
        BY <1>3, <1>4, <2>2, Above(y) \in T
<1> QED
    BY <1>4, <1>5 DEF Max

-----------------------------------------------------------------------------
(* What a step leaves alone stays true; the counters only grow.            *)
Grows == /\ ghost' \in Ghost
         /\ ghost'.overlaps >= ghost.overlaps /\ ghost'.lost >= ghost.lost
         /\ ghost'.purges >= ghost.purges

LEMMA Grown ==
    ASSUME TypeOK, Grows
    PROVE  /\ ghost'.overlaps \in Nat /\ ghost'.lost \in Nat /\ ghost'.purges \in Nat
           /\ ghost'.guesses \in Seq(Nat) /\ ghost'.resets \in Seq(Nat) /\ ghost'.uses \in Seq(Nat)
           /\ ghost'.wrong \in Nat
BY DEF Grows, Ghost

LEMMA Larger ==
    ASSUME TypeOK, Grows
    PROVE  /\ ghost.overlaps \in Nat /\ ghost'.overlaps \in Nat /\ ghost.overlaps <= ghost'.overlaps
           /\ ghost.lost \in Nat /\ ghost'.lost \in Nat /\ ghost.lost <= ghost'.lost
           /\ ghost.purges \in Nat /\ ghost'.purges \in Nat /\ ghost.purges <= ghost'.purges
BY Counters, Grown DEF Grows

LEMMA CallsKept ==
    ASSUME CallsSound, NEW b \in Browser, NEW l,
           call'[b] = l, \A c \in Browser \ {b} : call'[c] = call[c],
           DOMAIN codes \subseteq DOMAIN codes', DOMAIN ghost.uses \subseteq DOMAIN ghost'.uses,
           user # Absent => user' # Absent,
           l # Idle => user' # Absent,
           l.op = "verify" => l.code \in DOMAIN codes' /\ l.tries < MaxTries,
           l.op = "reset" => l.code \in DOMAIN codes',
           l.op = "second" => l.user.backup \subseteq DOMAIN ghost'.uses
    PROVE  CallsSound'
<1>1. ASSUME NEW c \in Browser
      PROVE  /\ call'[c] # Idle => user' # Absent
             /\ call'[c].op = "verify" => call'[c].code \in DOMAIN codes' /\ call'[c].tries < MaxTries
             /\ call'[c].op = "reset" => call'[c].code \in DOMAIN codes'
             /\ call'[c].op = "second" => call'[c].user.backup \subseteq DOMAIN ghost'.uses
    <2>1. CASE c = b
        BY <2>1
    <2>2. CASE c # b
        BY <2>2 DEF CallsSound
    <2> QED
        BY <2>1, <2>2
<1> QED
    BY <1>1 DEF CallsSound

LEMMA CodesKept ==
    ASSUME TypeOK, CodesCounted, OneOpen, Grows, codes' = codes,
           ghost'.guesses = ghost.guesses, ghost'.resets = ghost.resets
    PROVE  CodesCounted' /\ OneOpen'
<1>1. \A i \in DOMAIN codes : ghost.guesses[i] \in Nat /\ ghost.resets[i] \in Nat /\ codes[i].tries \in Nat
    <2>1. \A i \in DOMAIN codes : i \in 1 .. Len(ghost.guesses) /\ i \in 1 .. Len(ghost.resets)
        BY Rows DEF CodesCounted
    <2>2. \A i \in DOMAIN codes : codes[i].tries \in Nat
        BY Rows DEF Code
    <2> QED
        BY <2>1, <2>2, Counters, ElementOfSeq
<1>2. CodesCounted'
    <2>1. ASSUME NEW i \in DOMAIN codes
          PROVE  /\ ghost.guesses[i] <= codes[i].tries + ghost'.lost
                 /\ ghost.resets[i] <= (IF codes[i].redeemed THEN 1 ELSE 0) + ghost'.overlaps
        <3>1. /\ ghost.guesses[i] <= codes[i].tries + ghost.lost
              /\ ghost.resets[i] <= (IF codes[i].redeemed THEN 1 ELSE 0) + ghost.overlaps
            BY DEF CodesCounted
        <3> QED
            BY <1>1, <3>1, Larger
    <2> QED
        BY <2>1 DEF CodesCounted
<1>3. ASSUME NEW p \in Purpose
      PROVE  Cardinality(Open(p)') <= 1 + ghost'.overlaps
    <2>1. Open(p)' = Open(p)
        BY DEF Open, Newest
    <2>2. Cardinality(Open(p)) <= 1 + ghost.overlaps /\ Cardinality(Open(p)) \in Nat
        BY OpenFinite DEF OneOpen
    <2> QED
        BY <2>1, <2>2, Larger
<1> QED
    BY <1>2, <1>3 DEF OneOpen

LEMMA PasswordsKept ==
    ASSUME TypeOK, PasswordsCounted, Grows, user' = user, ghost'.wrong = ghost.wrong
    PROVE  PasswordsCounted'
<1>1. user # Absent => user.failures \in Nat
    BY Scalars, NumberAssumption DEF User
<1>2. ghost.wrong \in Nat
    BY Counters
<1> QED
    BY <1>1, <1>2, Larger DEF PasswordsCounted

LEMMA Usages ==
    ASSUME TypeOK
    PROVE  \A k \in DOMAIN ghost.uses : ghost.uses[k] \in Nat
BY Counters

LEMMA BackupKept ==
    ASSUME TypeOK, BackupOnce, Grows, ghost'.uses = ghost.uses,
           user' # Absent => user'.backup = {} \/ (user # Absent /\ user'.backup = user.backup)
    PROVE  BackupOnce'
<1>1. ASSUME NEW k \in DOMAIN ghost.uses
      PROVE  /\ ghost.uses[k] <= ghost.overlaps => ghost.uses[k] <= ghost'.overlaps
             /\ ghost.uses[k] <= 1 + ghost'.overlaps
    BY Usages, Larger DEF BackupOnce
<1>2. ASSUME user' # Absent
      PROVE  /\ user'.backup \subseteq DOMAIN ghost.uses
             /\ \A k \in user'.backup : ghost.uses[k] <= ghost'.overlaps
    BY <1>1, <1>2 DEF BackupOnce
<1> QED
    BY <1>1, <1>2 DEF BackupOnce

LEMMA SessionSets ==
    ASSUME TypeOK
    PROVE  /\ Active \subseteq DOMAIN sessions /\ Purged \subseteq DOMAIN sessions
           /\ IsFiniteSet(Active) /\ Cardinality(Active) \in Nat
           /\ IsFiniteSet(Purged) /\ Cardinality(Purged) \in Nat
           /\ IsFiniteSet(DOMAIN sessions)
<1>1. Active \in SUBSET (1 .. Len(sessions)) /\ Purged \in SUBSET (1 .. Len(sessions))
      /\ IsFiniteSet(1 .. Len(sessions)) /\ DOMAIN sessions = 1 .. Len(sessions)
    <2>1. DOMAIN sessions = 1 .. Len(sessions) /\ IsFiniteSet(1 .. Len(sessions))
        BY Rows, FS_Interval
    <2> QED
        BY <2>1 DEF Active, Purged
<1> QED
    BY <1>1, FS_Subset, FS_CardinalityType

LEMMA SessionsKept ==
    ASSUME TypeOK, SessionsCounted, Grows, sessions' = sessions, user # Absent => user' # Absent,
           \A b \in Browser : browser'[b].session \in {browser[b].session, 0}
    PROVE  SessionsCounted'
<1>1. Active' = Active /\ Purged' = Purged
    BY DEF Active, Purged
<1>2. Cardinality(Active) <= 1 + ghost'.overlaps /\ Cardinality(Purged) <= ghost'.purges
    BY SessionSets, Larger DEF SessionsCounted
<1>3. \A b \in Browser : browser'[b].session \in 0 .. Len(sessions)
    BY Rows DEF SessionsCounted
<1>4. \A b, c \in Browser : b # c => browser'[b].session = 0
                                     \/ browser'[b].session # browser'[c].session
    BY DEF SessionsCounted
<1> QED
    BY <1>1, <1>2, <1>3, <1>4 DEF SessionsCounted

-----------------------------------------------------------------------------
(* The steps that only move a request, a cookie or the clock.              *)
Quiet(b) ==
    \/ AskForCode(b) \/ AskForReset(b)
    \/ \E p \in Purpose : LoadVerify(b, p)
    \/ LoadReset(b) \/ LoadPassword(b) \/ LoadSecond(b) \/ LoadIssue(b) \/ LoadEnter(b)
    \/ GiveUp(b) \/ EnterRefused(b) \/ AuthenticatorCode(b)

Leaving(b) == NoSecond(b) \/ Replaced(b) \/ StartOver(b) \/ ClearCookies(b)

LEMMA QuietLeaves ==
    ASSUME TypeOK, \/ \E b \in Browser : Quiet(b) \/ Leaving(b)
                   \/ Tick \/ UNCHANGED vars
    PROVE  /\ codes' = codes /\ sessions' = sessions /\ user' = user /\ Grows
           /\ ghost'.guesses = ghost.guesses /\ ghost'.resets = ghost.resets
           /\ ghost'.uses = ghost.uses /\ ghost'.wrong = ghost.wrong
           /\ \A c \in Browser : browser'[c].session \in {browser[c].session, 0}
           /\ browser' \in [Browser -> Cookie]
           /\ clock' \in 0 .. Horizon
<1>1. /\ codes' = codes /\ sessions' = sessions /\ user' = user
      /\ \/ ghost' = ghost
         \/ ghost.calls < MaxCalls /\ ghost' = [ghost EXCEPT !.calls = @ + 1]
         \/ \E b \in Browser :
               ghost' = [ghost EXCEPT !.untracked = IF browser[b].session = 0 THEN @ + 1 ELSE @]
    BY DEF Quiet, Leaving, AskForCode, AskForReset, LoadVerify, LoadReset, LoadPassword, LoadSecond, Begin, LoadIssue,
           LoadEnter, EnterRefused, GiveUp, AuthenticatorCode, NoSecond, Replaced, StartOver, ClearCookies,
           Tick, vars
<1>2. /\ Grows
      /\ ghost'.guesses = ghost.guesses /\ ghost'.resets = ghost.resets
      /\ ghost'.uses = ghost.uses /\ ghost'.wrong = ghost.wrong
    <2>1. CASE ghost' = ghost
        BY <2>1, Counters DEF Grows
    <2>2. CASE ghost.calls < MaxCalls /\ ghost' = [ghost EXCEPT !.calls = @ + 1]
        <3>1. ghost' \in Ghost
            BY <2>2, Counters, GhostWritten
        <3> QED
            BY <2>2, <3>1, Counters DEF Grows
    <2>3. ASSUME NEW n \in Nat, ghost' = [ghost EXCEPT !.untracked = n]
          PROVE  /\ Grows
                 /\ ghost'.guesses = ghost.guesses /\ ghost'.resets = ghost.resets
                 /\ ghost'.uses = ghost.uses /\ ghost'.wrong = ghost.wrong
        <3>1. ghost \in Ghost /\ ghost.guesses \in Seq(Nat)
            BY Counters
        <3>2. ghost' \in Ghost
            BY <2>3, <3>1, GhostWritten
        <3> QED
            BY <2>3, <3>2, Counters DEF Grows
    <2>4. ASSUME NEW b \in Browser,
                 ghost' = [ghost EXCEPT !.untracked = IF browser[b].session = 0 THEN @ + 1 ELSE @]
          PROVE  \E n \in Nat : ghost' = [ghost EXCEPT !.untracked = n]
        <3>1. (IF browser[b].session = 0 THEN ghost.untracked + 1 ELSE ghost.untracked) \in Nat
            BY Counters
        <3>2. ghost' = [ghost EXCEPT !.untracked = IF browser[b].session = 0 THEN ghost.untracked + 1 ELSE ghost.untracked]
            BY <2>4
        <3> QED
            BY <3>1, <3>2
    <2> QED
        BY <1>1, <2>1, <2>2, <2>3, <2>4
<1>3. /\ \A c \in Browser : browser'[c].session \in {browser[c].session, 0}
      /\ browser' \in [Browser -> Cookie]
    <2>1. \/ browser' = browser
          \/ \E b \in Browser :
                \/ browser' = [browser EXCEPT ![b] = [browser[b] EXCEPT !.second = FALSE]]
                \/ browser' = [browser EXCEPT ![b] = [browser[b] EXCEPT !.login = FALSE, !.session = 0]]
                \/ \E x \in BOOLEAN :
                      browser' = [browser EXCEPT ![b] = [browser[b] EXCEPT !.login = TRUE, !.second = x]]
                \/ browser' = [browser EXCEPT ![b] = [browser[b] EXCEPT !.code = 0]]
                \/ browser' = [browser EXCEPT ![b] = NoCookie]
        <3>1. ASSUME NEW b \in Browser, EnterRefused(b)
              PROVE  \E x \in BOOLEAN :
                      browser' = [browser EXCEPT ![b] = [browser[b] EXCEPT !.login = TRUE, !.second = x]]
            <4>1. call[b].second \in BOOLEAN
                BY <3>1, Holds DEF EnterRefused
            <4>2. browser' = [browser EXCEPT ![b] = [browser[b] EXCEPT !.login = TRUE, !.second = call[b].second]]
                BY <3>1 DEF EnterRefused
            <4> QED
                BY <4>1, <4>2
        <3>2. ASSUME NEW b \in Browser, NoSecond(b) \/ Replaced(b) \/ StartOver(b) \/ ClearCookies(b)
              PROVE  \/ browser' = [browser EXCEPT ![b] = [browser[b] EXCEPT !.second = FALSE]]
                     \/ browser' = [browser EXCEPT ![b] = [browser[b] EXCEPT !.login = FALSE, !.session = 0]]
                     \/ browser' = [browser EXCEPT ![b] = [browser[b] EXCEPT !.code = 0]]
                     \/ browser' = [browser EXCEPT ![b] = NoCookie]
            BY <3>2 DEF NoSecond, Replaced, StartOver, ClearCookies
        <3>3. ASSUME NEW b \in Browser, Quiet(b), ~EnterRefused(b)
              PROVE  browser' = browser
            BY <3>3 DEF Quiet, AskForCode, AskForReset, LoadVerify, LoadReset, LoadPassword, LoadSecond,
                   Begin, LoadIssue, LoadEnter, GiveUp, AuthenticatorCode
        <3>4. Tick \/ UNCHANGED vars => browser' = browser
            BY DEF Tick, vars
        <3> QED
            BY <3>1, <3>2, <3>3, <3>4 DEF Leaving
    <2> QED
        <3>1. browser \in [Browser -> Cookie]
            BY Scalars
        <3>2. CASE browser' = browser
            BY <3>1, <3>2 DEF Cookie
        <3>3. ASSUME NEW b \in Browser, NEW k \in Cookie, browser' = [browser EXCEPT ![b] = k],
                     k.session \in {browser[b].session, 0}
              PROVE  /\ \A c \in Browser : browser'[c].session \in {browser[c].session, 0}
                     /\ browser' \in [Browser -> Cookie]
            BY <3>1, <3>3
        <3>4. \A b \in Browser :
                 /\ [browser[b] EXCEPT !.second = FALSE] \in Cookie
                 /\ [browser[b] EXCEPT !.second = FALSE].session = browser[b].session
                 /\ [browser[b] EXCEPT !.code = 0] \in Cookie
                 /\ [browser[b] EXCEPT !.code = 0].session = browser[b].session
                 /\ [browser[b] EXCEPT !.login = FALSE, !.session = 0] \in Cookie
                 /\ [browser[b] EXCEPT !.login = FALSE, !.session = 0].session = 0
                 /\ \A x \in BOOLEAN :
                       /\ [browser[b] EXCEPT !.login = TRUE, !.second = x] \in Cookie
                       /\ [browser[b] EXCEPT !.login = TRUE, !.second = x].session = browser[b].session
                 /\ NoCookie \in Cookie /\ NoCookie.session = 0
            BY <3>1 DEF Cookie, NoCookie
        <3> QED
            BY <2>1, <3>2, <3>3, <3>4
<1>4. clock' \in 0 .. Horizon
    <2>1. clock' = clock \/ (clock < Horizon /\ clock' = clock + 1)
        BY DEF Quiet, Leaving, AskForCode, AskForReset, LoadVerify, LoadReset, LoadPassword, LoadSecond, Begin, LoadIssue,
               LoadEnter, EnterRefused, GiveUp, AuthenticatorCode, NoSecond, Replaced, StartOver, ClearCookies,
           Tick, vars
    <2>2. Horizon \in Nat
        BY NumberAssumption
    <2> QED
        BY SMTT(30), <2>1, <2>2 DEF TypeOK
<1> QED
    BY <1>1, <1>2, <1>3, <1>4

(* What a request loads is there.                                          *)
Fits(l) ==
    /\ l # Idle => user # Absent
    /\ l.op = "verify" => l.code \in DOMAIN codes /\ l.tries < MaxTries
    /\ l.op = "reset" => l.code \in DOMAIN codes
    /\ l.op = "second" => l.user.backup \subseteq DOMAIN ghost.uses

LEMMA QuietLoads ==
    ASSUME TypeOK, CallsSound, BackupOnce, NEW b \in Browser, Quiet(b)
    PROVE  \E l \in {Idle} \cup Loaded : Fits(l) /\ call' = [call EXCEPT ![b] = l]
<1>1. CASE AskForCode(b) \/ AskForReset(b)
    <2>1. PICK p \in Purpose :
             user # Absent /\ call' = [call EXCEPT ![b] = [op |-> "mail", purpose |-> p]]
        BY <1>1 DEF AskForCode, AskForReset, Begin, Purpose
    <2> DEFINE l == [op |-> "mail", purpose |-> p]
    <2>2. l \in Loaded /\ Fits(l)
        BY <2>1 DEF Loaded, Fits
    <2> QED
        BY <2>1, <2>2
<1>2. ASSUME NEW p \in Purpose, LoadVerify(b, p)
      PROVE  \E l \in {Idle} \cup Loaded : Fits(l) /\ call' = [call EXCEPT ![b] = l]
    <2> DEFINE i == Max(Open(p))
               l == [op |-> "verify", code |-> i, tries |-> codes[i].tries]
    <2>1. i \in DOMAIN codes
        <3>1. Open(p) # {} /\ Open(p) \subseteq 0 .. Len(codes) /\ Len(codes) \in Nat
            BY <1>2, OpenFinite, Rows DEF LoadVerify
        <3> QED
            BY <3>1, Greatest, OpenFinite
    <2>2. codes[i].tries < MaxTries /\ user # Absent /\ call' = [call EXCEPT ![b] = l]
        BY <1>2 DEF LoadVerify, MayGuess, Begin
    <2>3. codes[i].tries \in Nat /\ i \in Nat
        BY <2>1, Rows DEF Code
    <2> HIDE DEF i
    <2>4. l \in Loaded /\ Fits(l)
        BY <2>1, <2>2, <2>3 DEF Loaded, Fits
    <2> QED
        BY <2>2, <2>4
<1>3. CASE LoadReset(b)
    <2> DEFINE l == [op |-> "reset", code |-> browser[b].code, user |-> user]
    <2>1. browser[b].code \in DOMAIN codes /\ user # Absent /\ call' = [call EXCEPT ![b] = l]
        BY <1>3 DEF LoadReset, Redeemable, Begin
    <2>2. l \in Loaded /\ Fits(l)
        BY <2>1, Rows, Scalars DEF Loaded, Fits
    <2> QED
        BY <2>1, <2>2
<1>4. CASE LoadPassword(b)
    <2> DEFINE l == [op |-> "password", user |-> user]
    <2>1. user # Absent /\ call' = [call EXCEPT ![b] = l]
        BY <1>4 DEF LoadPassword, Begin
    <2>2. l \in Loaded /\ Fits(l)
        BY <2>1, Scalars DEF Loaded, Fits
    <2> QED
        BY <2>1, <2>2
<1>5. CASE LoadSecond(b)
    <2> DEFINE l == [op |-> "second", user |-> user]
    <2>1. user # Absent /\ call' = [call EXCEPT ![b] = l]
        BY <1>5 DEF LoadSecond, Begin
    <2>2. user.backup \subseteq DOMAIN ghost.uses
        BY <2>1 DEF BackupOnce
    <2>3. l \in Loaded /\ Fits(l)
        BY <2>1, <2>2, Scalars DEF Loaded, Fits
    <2> QED
        BY <2>1, <2>3
<1>6. CASE LoadIssue(b)
    <2> DEFINE l == [op |-> "issue", purpose |-> call[b].purpose, old |-> Open(call[b].purpose)]
    <2>1. call[b].op = "mail" /\ call' = [call EXCEPT ![b] = l]
        BY <1>6 DEF LoadIssue
    <2>2. user # Absent /\ call[b].purpose \in Purpose
        BY <2>1, Holds DEF CallsSound
    <2>3. Open(call[b].purpose) \subseteq Nat
        BY OpenFinite, Rows
    <2>4. l \in Loaded /\ Fits(l)
        BY <2>2, <2>3 DEF Loaded, Fits
    <2> QED
        BY <2>1, <2>4
<1>7. CASE LoadEnter(b)
    <2> DEFINE l == [op |-> "entering", second |-> call[b].second, old |-> Active]
    <2>1. call[b].op = "enter" /\ call' = [call EXCEPT ![b] = l]
        BY <1>7 DEF LoadEnter, Goto
    <2>2. user # Absent /\ Active \subseteq Nat /\ call[b].second \in BOOLEAN
        BY <2>1, Holds, SessionSets, Rows DEF CallsSound
    <2>3. l \in Loaded /\ Fits(l)
        BY <2>2 DEF Loaded, Fits
    <2> QED
        BY <2>1, <2>3
<1>8. CASE GiveUp(b) \/ EnterRefused(b)
    <2>1. call' = [call EXCEPT ![b] = Idle]
        BY <1>8 DEF GiveUp, EnterRefused, Goto
    <2>2. Fits(Idle)
        BY DEF Fits, Idle
    <2> QED
        BY <2>1, <2>2
<1>9. CASE AuthenticatorCode(b)
    <2> DEFINE l == [op |-> "enter", second |-> FALSE]
    <2>1. call[b].op = "second" /\ call' = [call EXCEPT ![b] = l]
        BY <1>9 DEF AuthenticatorCode, Goto
    <2>2. user # Absent
        BY <2>1, Holds DEF CallsSound
    <2>3. l \in Loaded /\ Fits(l)
        BY <2>2 DEF Loaded, Fits
    <2> QED
        BY <2>1, <2>3
<1> QED
    BY <1>1, <1>2, <1>3, <1>4, <1>5, <1>6, <1>7, <1>8, <1>9 DEF Quiet

LEMMA QuietStep ==
    ASSUME IInv, \/ \E b \in Browser : Quiet(b) \/ Leaving(b)
                 \/ Tick \/ UNCHANGED vars
    PROVE  IInv'
<1>1. TypeOK /\ CallsSound /\ CodesCounted /\ OneOpen /\ PasswordsCounted /\ BackupOnce
      /\ SessionsCounted
    BY DEF IInv
<1>2. /\ codes' = codes /\ sessions' = sessions /\ user' = user /\ Grows
      /\ ghost'.guesses = ghost.guesses /\ ghost'.resets = ghost.resets
      /\ ghost'.uses = ghost.uses /\ ghost'.wrong = ghost.wrong
      /\ \A c \in Browser : browser'[c].session \in {browser[c].session, 0}
      /\ browser' \in [Browser -> Cookie]
      /\ clock' \in 0 .. Horizon
    BY <1>1, QuietLeaves
<1>3. CodesCounted' /\ OneOpen' /\ BackupOnce' /\ SessionsCounted'
    BY <1>1, <1>2, CodesKept, BackupKept, SessionsKept
<1>4. PasswordsCounted'
    BY <1>1, <1>2, PasswordsKept
<1>5. call' \in [Browser -> {Idle} \cup Loaded] /\ CallsSound'
    <2>1. CASE call' = call
        BY <1>1, <1>2, <2>1, Scalars DEF CallsSound
    <2>2. ASSUME NEW b \in Browser, Quiet(b)
          PROVE  call' \in [Browser -> {Idle} \cup Loaded] /\ CallsSound'
        <3>1. PICK l \in {Idle} \cup Loaded : Fits(l) /\ call' = [call EXCEPT ![b] = l]
            BY <1>1, <2>2, QuietLoads
        <3>2. /\ call' \in [Browser -> {Idle} \cup Loaded]
              /\ call'[b] = l /\ \A c \in Browser \ {b} : call'[c] = call[c]
            BY <1>1, <3>1, CallSet
        <3> QED
            BY <1>1, <1>2, <3>1, <3>2, CallsKept DEF Fits
    <2> QED
        BY <2>1, <2>2 DEF Leaving, NoSecond, Replaced, StartOver, ClearCookies, Tick, vars
<1>6. TypeOK'
    BY <1>1, <1>2, <1>5 DEF TypeOK, Grows, Ghost
<1> QED
    BY <1>3, <1>4, <1>5, <1>6 DEF IInv

-----------------------------------------------------------------------------
(* The codes.                                                              *)

(* A request that ends, or goes on without anything it has loaded.         *)
LEMMA CallsMoved ==
    ASSUME TypeOK, CallsSound, NEW b \in Browser, NEW l \in {Idle} \cup Loaded,
           call' = [call EXCEPT ![b] = l], l.op \notin {"verify", "reset", "second"},
           DOMAIN codes \subseteq DOMAIN codes', DOMAIN ghost.uses \subseteq DOMAIN ghost'.uses,
           user # Absent => user' # Absent, l # Idle => user' # Absent
    PROVE  CallsSound' /\ call' \in [Browser -> {Idle} \cup Loaded]
<1>1. /\ call' \in [Browser -> {Idle} \cup Loaded]
      /\ call'[b] = l /\ \A c \in Browser \ {b} : call'[c] = call[c]
    BY CallSet
<1> QED
    BY <1>1, CallsKept

LEMMA Endings ==
    /\ Idle \in {Idle} \cup Loaded /\ Idle.op \notin {"verify", "reset", "second"}
    /\ \A x \in BOOLEAN : [op |-> "enter", second |-> x] \in {Idle} \cup Loaded
    /\ [op |-> "verified"] \in {Idle} \cup Loaded
    /\ \A p \in Purpose : [op |-> "mail", purpose |-> p] \in {Idle} \cup Loaded
BY DEF Idle, Loaded

LEMMA CodeNumbers ==
    ASSUME TypeOK, CodesCounted, NEW i \in DOMAIN codes
    PROVE  /\ ghost.guesses[i] \in Nat /\ ghost.resets[i] \in Nat
           /\ codes[i].tries \in Nat /\ codes[i].consumed \in Int /\ codes[i].redeemed \in BOOLEAN
           /\ codes[i].tries <= MaxTries
           /\ ghost.guesses[i] <= codes[i].tries + ghost.lost
           /\ ghost.resets[i] <= (IF codes[i].redeemed THEN 1 ELSE 0) + ghost.overlaps
           /\ i \in 1 .. Len(ghost.guesses) /\ i \in 1 .. Len(ghost.resets)
<1>1. i \in 1 .. Len(ghost.guesses) /\ i \in 1 .. Len(ghost.resets)
    BY Rows DEF CodesCounted
<1>2. ghost.guesses[i] \in Nat /\ ghost.resets[i] \in Nat
    BY <1>1, Counters, ElementOfSeq
<1>3. codes[i].tries \in Nat /\ codes[i].consumed \in Int /\ codes[i].redeemed \in BOOLEAN
    BY Rows DEF Code
<1> QED
    BY <1>1, <1>2, <1>3 DEF CodesCounted

(* Fewer codes are open than before.                                       *)
LEMMA FewerOpen ==
    ASSUME TypeOK, OneOpen, Grows, \A p \in Purpose : Open(p)' \subseteq Open(p)
    PROVE  OneOpen'
<1>1. ASSUME NEW p \in Purpose
      PROVE  Cardinality(Open(p)') <= 1 + ghost'.overlaps
    <2>1. Open(p)' \in SUBSET Open(p) /\ IsFiniteSet(Open(p)) /\ Cardinality(Open(p)) \in Nat
        BY OpenFinite
    <2>2. /\ IsFiniteSet(Open(p)') /\ Cardinality(Open(p)') <= Cardinality(Open(p))
          /\ Cardinality(Open(p)') \in Nat
        BY <2>1, FS_Subset, FS_CardinalityType
    <2>3. Cardinality(Open(p)) <= 1 + ghost.overlaps
        BY DEF OneOpen
    <2> QED
        BY <2>1, <2>2, <2>3, Larger
<1> QED
    BY <1>1 DEF OneOpen

(* What a new code changes.                                                *)
LEMMA Issued ==
    ASSUME TypeOK, CodesCounted, NEW b \in Browser, CommitIssue(b)
    PROVE  LET n == Len(codes) + 1 IN
           /\ codes' \in Seq(Code) /\ Len(codes') = n
           /\ DOMAIN codes' = DOMAIN codes \cup {n} /\ n \notin DOMAIN codes
           /\ \A i \in DOMAIN codes :
                 /\ codes'[i].purpose = codes[i].purpose
                 /\ codes'[i].tries = codes[i].tries
                 /\ codes'[i].consumed = IF i \in call[b].old THEN clock ELSE codes[i].consumed
                 /\ codes[i].redeemed => codes'[i].redeemed
           /\ codes'[n] = [purpose |-> call[b].purpose, made |-> clock, tries |-> 0,
                           consumed |-> Never, redeemed |-> FALSE]
           /\ Len(ghost'.guesses) = n /\ Len(ghost'.resets) = n
           /\ \A i \in DOMAIN codes : ghost'.guesses[i] = ghost.guesses[i]
                                      /\ ghost'.resets[i] = ghost.resets[i]
           /\ ghost'.guesses[n] = 0 /\ ghost'.resets[n] = 0
           /\ Grows /\ ghost'.uses = ghost.uses /\ ghost'.wrong = ghost.wrong
           /\ Open(call[b].purpose) # call[b].old => ghost'.overlaps = ghost.overlaps + 1
<1> DEFINE n == Len(codes) + 1
           old == call[b].old
           new == [purpose |-> call[b].purpose, made |-> clock, tries |-> 0,
                   consumed |-> Never, redeemed |-> FALSE]
<1>1. call[b].op = "issue" /\ codes' = Append(Superseded(old), new)
    BY DEF CommitIssue
<1>2. new \in Code
    BY <1>1, Holds, Scalars DEF Code, Never
<1>3. DOMAIN codes = 1 .. Len(codes) /\ Len(codes) \in Nat
    BY Rows
<1>4. Superseded(old) \in Seq(Code) /\ Len(Superseded(old)) = Len(codes)
    BY Supersedes
<1> HIDE DEF new
<1>5. /\ codes' \in Seq(Code) /\ Len(codes') = n
      /\ \A i \in DOMAIN codes : codes'[i] = Superseded(old)[i]
      /\ codes'[n] = new
    BY <1>1, <1>2, <1>3, <1>4, AppendProperties
<1>6. DOMAIN codes' = DOMAIN codes \cup {n} /\ n \notin DOMAIN codes
    <2>1. DOMAIN codes' = 1 .. n
        BY <1>5, LenProperties
    <2> QED
        BY <1>3, <2>1
<1>7. \A i \in DOMAIN codes :
          /\ codes'[i].purpose = codes[i].purpose
          /\ codes'[i].tries = codes[i].tries
          /\ codes'[i].consumed = IF i \in old THEN clock ELSE codes[i].consumed
          /\ codes[i].redeemed => codes'[i].redeemed
    BY <1>5, Supersedes
<1>8. /\ Append(ghost.guesses, 0) \in Seq(Nat) /\ Append(ghost.resets, 0) \in Seq(Nat)
      /\ Len(ghost.guesses) = Len(codes) /\ Len(ghost.resets) = Len(codes)
    BY Counters, AppendProperties DEF CodesCounted
<1>9. /\ ghost'.guesses = Append(ghost.guesses, 0) /\ ghost'.resets = Append(ghost.resets, 0)
      /\ Grows /\ ghost'.uses = ghost.uses /\ ghost'.wrong = ghost.wrong
      /\ Open(call[b].purpose) # old => ghost'.overlaps = ghost.overlaps + 1
    <2>1. CASE Open(call[b].purpose) # old
        <3> DEFINE g == [ghost EXCEPT !.overlaps = @ + 1]
        <3>1. g \in Ghost /\ g.overlaps = ghost.overlaps + 1 /\ g.uses = ghost.uses
              /\ g.wrong = ghost.wrong /\ g.lost = ghost.lost /\ g.purges = ghost.purges
              /\ g.guesses = ghost.guesses /\ g.resets = ghost.resets
            <4>1. ghost.overlaps + 1 \in Nat /\ ghost \in Ghost /\ <<>> \in Seq(Nat)
                BY Counters
            <4>2. g \in Ghost
                BY <4>1, GhostWritten
            <4> QED
                BY <4>2, Counters
        <3>2. ghost' = [g EXCEPT !.guesses = Append(ghost.guesses, 0),
                                 !.resets = Append(ghost.resets, 0)]
            BY <2>1, <3>1 DEF CommitIssue, Overlapped
        <3>4. /\ ghost'.guesses = Append(ghost.guesses, 0) /\ ghost'.resets = Append(ghost.resets, 0)
              /\ ghost'.uses = ghost.uses /\ ghost'.wrong = ghost.wrong
              /\ ghost'.overlaps = ghost.overlaps + 1
              /\ ghost'.lost = ghost.lost /\ ghost'.purges = ghost.purges
            BY <3>2, Counters
        <3> HIDE DEF g
        <3>3. ghost' \in Ghost
            <4>1. 0 \in Nat
                OBVIOUS
            <4> QED
                BY <1>8, <3>1, <3>2, <4>1, GhostWritten
        <3> QED
            BY SMTT(30), <3>3, <3>4, Counters DEF Grows
    <2>2. CASE Open(call[b].purpose) = old
        <3>1. ghost' = [ghost EXCEPT !.guesses = Append(ghost.guesses, 0),
                                     !.resets = Append(ghost.resets, 0)]
            BY <2>2 DEF CommitIssue, Overlapped
        <3>2. ghost' \in Ghost
            BY <1>8, <3>1, Counters, GhostWritten
        <3> QED
            BY <2>2, <3>1, <3>2, Counters DEF Grows
    <2> QED
        BY <2>1, <2>2
<1>10. /\ Len(ghost'.guesses) = n /\ Len(ghost'.resets) = n
       /\ \A i \in DOMAIN codes : ghost'.guesses[i] = ghost.guesses[i]
                                  /\ ghost'.resets[i] = ghost.resets[i]
       /\ ghost'.guesses[n] = 0 /\ ghost'.resets[n] = 0
    <2>1. \A q \in Seq(Nat) : /\ Len(Append(q, 0)) = Len(q) + 1
                              /\ \A i \in 1 .. Len(q) : Append(q, 0)[i] = q[i]
                              /\ Append(q, 0)[Len(q) + 1] = 0
        BY AppendProperties
    <2>2. ghost.guesses \in Seq(Nat) /\ ghost.resets \in Seq(Nat)
        BY Counters
    <2> QED
        BY <1>3, <1>8, <1>9, <2>1, <2>2
<1> QED
    BY <1>5, <1>6, <1>7, <1>9, <1>10 DEF new

LEMMA IssueStep ==
    ASSUME IInv, NEW b \in Browser, CommitIssue(b)
    PROVE  IInv'
<1> DEFINE n == Len(codes) + 1
<1>1. TypeOK /\ CallsSound /\ CodesCounted /\ OneOpen /\ PasswordsCounted /\ BackupOnce
      /\ SessionsCounted
    BY DEF IInv
<1>2. /\ codes' \in Seq(Code) /\ Len(codes') = n
      /\ DOMAIN codes' = DOMAIN codes \cup {n} /\ n \notin DOMAIN codes
      /\ \A i \in DOMAIN codes :
            /\ codes'[i].purpose = codes[i].purpose
            /\ codes'[i].tries = codes[i].tries
            /\ codes'[i].consumed = IF i \in call[b].old THEN clock ELSE codes[i].consumed
            /\ codes[i].redeemed => codes'[i].redeemed
      /\ codes'[n] = [purpose |-> call[b].purpose, made |-> clock, tries |-> 0,
                      consumed |-> Never, redeemed |-> FALSE]
    BY <1>1, Issued
<1>3. /\ Len(ghost'.guesses) = n /\ Len(ghost'.resets) = n
      /\ \A i \in DOMAIN codes : ghost'.guesses[i] = ghost.guesses[i]
                                 /\ ghost'.resets[i] = ghost.resets[i]
      /\ ghost'.guesses[n] = 0 /\ ghost'.resets[n] = 0
      /\ Grows /\ ghost'.uses = ghost.uses /\ ghost'.wrong = ghost.wrong
      /\ Open(call[b].purpose) # call[b].old => ghost'.overlaps = ghost.overlaps + 1
    BY <1>1, Issued
<1>4. clock' = clock /\ user' = user /\ sessions' = sessions /\ call' = [call EXCEPT ![b] = Idle]
    BY DEF CommitIssue, Goto
<1>5. /\ \A c \in Browser : browser'[c].session \in {browser[c].session, 0}
      /\ browser' \in [Browser -> Cookie]
    <2>1. browser \in [Browser -> Cookie]
        BY <1>1, Scalars
    <2>2. CASE browser' = browser
        BY <2>1, <2>2
    <2>3. CASE browser' = [browser EXCEPT ![b].code = 0]
        <3>1. [browser[b] EXCEPT !.code = 0] \in Cookie
              /\ [browser[b] EXCEPT !.code = 0].session = browser[b].session
            BY <2>1 DEF Cookie
        <3>2. browser' = [browser EXCEPT ![b] = [browser[b] EXCEPT !.code = 0]]
            BY <2>3
        <3> QED
            BY <2>1, <3>1, <3>2
    <2> QED
        BY <2>2, <2>3 DEF CommitIssue
<1>6. CodesCounted'
    <2>1. ASSUME NEW i \in DOMAIN codes'
          PROVE  /\ codes'[i].tries <= MaxTries
                 /\ ghost'.guesses[i] <= codes'[i].tries + ghost'.lost
                 /\ ghost'.resets[i] <= (IF codes'[i].redeemed THEN 1 ELSE 0) + ghost'.overlaps
        <3>1. CASE i \in DOMAIN codes
            <4>1. codes'[i].tries = codes[i].tries /\ (codes[i].redeemed => codes'[i].redeemed)
                  /\ ghost'.guesses[i] = ghost.guesses[i] /\ ghost'.resets[i] = ghost.resets[i]
                BY <1>2, <1>3, <3>1
            <4>2. /\ ghost.guesses[i] \in Nat /\ ghost.resets[i] \in Nat /\ codes[i].tries \in Nat
                  /\ codes[i].tries <= MaxTries
                  /\ ghost.guesses[i] <= codes[i].tries + ghost.lost
                  /\ ghost.resets[i] <= (IF codes[i].redeemed THEN 1 ELSE 0) + ghost.overlaps
                BY <1>1, <3>1, CodeNumbers
            <4>3. ghost.resets[i] <= (IF codes'[i].redeemed THEN 1 ELSE 0) + ghost.overlaps
                <5> ghost.overlaps \in Nat
                    BY <1>1, Counters
                <5>1. CASE codes'[i].redeemed
                    BY <4>2, <5>1
                <5>2. CASE ~codes'[i].redeemed
                    <6>1. ~codes[i].redeemed
                        BY <4>1, <5>2
                    <6> QED
                        BY <4>2, <5>2, <6>1
                <5> QED
                    BY <5>1, <5>2
            <4>4. Grows /\ TypeOK
                BY <1>1, <1>3
            <4>5. codes'[i].tries <= MaxTries
                BY <4>1, <4>2
            <4>6. ghost'.guesses[i] <= codes'[i].tries + ghost'.lost
                BY <4>1, <4>2, <4>4, Larger
            <4>7. ghost'.resets[i] <= (IF codes'[i].redeemed THEN 1 ELSE 0) + ghost'.overlaps
                BY <4>1, <4>2, <4>3, <4>4, Larger
            <4> QED
                BY <4>5, <4>6, <4>7
        <3>2. CASE i = n
            <4>1. codes'[n].tries = 0 /\ ~codes'[n].redeemed /\ ghost'.guesses[n] = 0 /\ ghost'.resets[n] = 0
                BY <1>2, <1>3
            <4>2. MaxTries \in Nat /\ ghost'.lost \in Nat /\ ghost'.overlaps \in Nat
                BY <1>1, <1>3, Larger, NumberAssumption
            <4> QED
                BY <3>2, <4>1, <4>2
        <3> QED
            BY <1>2, <2>1, <3>1, <3>2
    <2> QED
        BY <1>2, <1>3, <2>1 DEF CodesCounted
<1>7. OneOpen'
    <2>1. ASSUME NEW p \in Purpose
          PROVE  Cardinality(Open(p)') <= 1 + ghost'.overlaps
        <3>1. /\ IsFiniteSet(Open(p)) /\ Cardinality(Open(p)) \in Nat
              /\ Cardinality(Open(p)) <= 1 + ghost.overlaps
            BY <1>1, OpenFinite DEF OneOpen
        <3>2. \A i \in Open(p)' : i = n \/ (i \in Open(p) /\ i \notin call[b].old)
            BY <1>1, <1>2, Scalars DEF Open, Newest
        <3>3. n \in Open(p)' => p = call[b].purpose
            BY <1>2 DEF Open, Newest
        <3>4. CASE p = call[b].purpose /\ Open(p) = call[b].old
            <4>1. Open(p)' \in SUBSET {n}
                BY <3>2, <3>4
            <4>2. IsFiniteSet({n}) /\ Cardinality({n}) = 1
                BY FS_Singleton
            <4>3. Cardinality(Open(p)') <= 1 /\ Cardinality(Open(p)') \in Nat
                BY <4>1, <4>2, FS_Subset, FS_CardinalityType
            <4> QED
                BY <1>1, <1>3, <4>3, Larger
        <3>5. CASE p = call[b].purpose /\ Open(p) # call[b].old
            <4>1. Open(p)' \in SUBSET (Open(p) \cup {n})
                BY <3>2
            <4>5. n \notin Open(p)
                BY <1>1, <1>2, OpenFinite
            <4>2. IsFiniteSet(Open(p) \cup {n}) /\ Cardinality(Open(p) \cup {n}) = Cardinality(Open(p)) + 1
                BY <3>1, <4>5, FS_AddElement
            <4>3. /\ Cardinality(Open(p)') <= Cardinality(Open(p) \cup {n})
                  /\ Cardinality(Open(p)') \in Nat /\ Cardinality(Open(p) \cup {n}) \in Nat
                BY <4>1, <4>2, FS_Subset, FS_CardinalityType
            <4>4. ghost'.overlaps = ghost.overlaps + 1
                BY <1>3, <3>5
            <4> QED
                BY <1>1, <1>3, <3>1, <4>2, <4>3, <4>4, Larger
        <3>6. CASE p # call[b].purpose
            <4>1. Open(p)' \in SUBSET Open(p)
                BY <3>2, <3>3, <3>6
            <4>2. Cardinality(Open(p)') <= Cardinality(Open(p)) /\ Cardinality(Open(p)') \in Nat
                BY <3>1, <4>1, FS_Subset, FS_CardinalityType
            <4> QED
                BY <1>1, <1>3, <3>1, <4>2, Larger
        <3> QED
            BY <3>4, <3>5, <3>6
    <2> QED
        BY <2>1 DEF OneOpen
<1>8. BackupOnce' /\ SessionsCounted'
    BY <1>1, <1>3, <1>4, <1>5, BackupKept, SessionsKept
<1>9. PasswordsCounted'
    BY <1>1, <1>3, <1>4, PasswordsKept
<1>10. CallsSound' /\ call' \in [Browser -> {Idle} \cup Loaded]
    BY <1>1, <1>2, <1>3, <1>4, CallsMoved, Endings
<1>11. TypeOK'
    BY <1>1, <1>2, <1>3, <1>4, <1>5, <1>10 DEF TypeOK, Grows, Ghost
<1> QED
    BY <1>6, <1>7, <1>8, <1>9, <1>10, <1>11 DEF IInv

LEMMA Slack == \A a, t, x, y \in Nat : a <= t + x /\ x <= y => a <= t + y
OBVIOUS

(* One code is written: the others are counted as before.                  *)
LEMMA OneCounted ==
    ASSUME TypeOK, CodesCounted, Grows, NEW i \in DOMAIN codes,
           Len(codes') = Len(codes), DOMAIN codes' = DOMAIN codes,
           \A j \in DOMAIN codes : j # i => codes'[j] = codes[j],
           Len(ghost'.guesses) = Len(ghost.guesses), Len(ghost'.resets) = Len(ghost.resets),
           \A j \in DOMAIN codes : j # i => ghost'.guesses[j] = ghost.guesses[j]
                                            /\ ghost'.resets[j] = ghost.resets[j],
           codes'[i].tries <= MaxTries,
           ghost'.guesses[i] <= codes'[i].tries + ghost'.lost,
           ghost'.resets[i] <= (IF codes'[i].redeemed THEN 1 ELSE 0) + ghost'.overlaps
    PROVE  CodesCounted'
<1>1. ASSUME NEW j \in DOMAIN codes, j # i
      PROVE  /\ codes'[j].tries <= MaxTries
             /\ ghost'.guesses[j] <= codes'[j].tries + ghost'.lost
             /\ ghost'.resets[j] <= (IF codes'[j].redeemed THEN 1 ELSE 0) + ghost'.overlaps
    <2>1. codes'[j] = codes[j] /\ ghost'.guesses[j] = ghost.guesses[j] /\ ghost'.resets[j] = ghost.resets[j]
        BY <1>1
    <2>2. /\ ghost.guesses[j] \in Nat /\ ghost.resets[j] \in Nat /\ codes[j].tries \in Nat
          /\ codes[j].tries <= MaxTries
          /\ ghost.guesses[j] <= codes[j].tries + ghost.lost
          /\ ghost.resets[j] <= (IF codes[j].redeemed THEN 1 ELSE 0) + ghost.overlaps
        BY CodeNumbers
    <2>3. (IF codes[j].redeemed THEN 1 ELSE 0) \in Nat
        OBVIOUS
    <2>4. /\ ghost.lost \in Nat /\ ghost'.lost \in Nat /\ ghost.lost <= ghost'.lost
          /\ ghost.overlaps \in Nat /\ ghost'.overlaps \in Nat /\ ghost.overlaps <= ghost'.overlaps
        BY Larger
    <2>5. ghost.guesses[j] <= codes[j].tries + ghost'.lost
        BY <2>2, <2>4, Slack
    <2>6. ghost.resets[j] <= (IF codes[j].redeemed THEN 1 ELSE 0) + ghost'.overlaps
        BY <2>2, <2>3, <2>4, Slack
    <2> QED
        BY <2>1, <2>2, <2>5, <2>6
<1>2. Len(ghost'.guesses) = Len(codes') /\ Len(ghost'.resets) = Len(codes')
    BY DEF CodesCounted
<1> QED
    BY <1>1, <1>2 DEF CodesCounted

LEMMA Bumped ==
    ASSUME NEW s \in Seq(Nat), NEW i \in 1 .. Len(s), NEW t, t = [s EXCEPT ![i] = @ + 1]
    PROVE  /\ t \in Seq(Nat) /\ Len(t) = Len(s) /\ DOMAIN t = DOMAIN s
           /\ t[i] = s[i] + 1 /\ s[i] \in Nat
           /\ \A j \in 1 .. Len(s) : j # i => t[j] = s[j]
<1>1. s[i] \in Nat
    BY ElementOfSeq
<1>2. t = [s EXCEPT ![i] = s[i] + 1] /\ s[i] + 1 \in Nat
    BY <1>1
<1>3. t \in Seq(Nat) /\ Len(t) = Len(s) /\ \A j \in 1 .. Len(s) : t[j] = IF j = i THEN s[i] + 1 ELSE s[j]
    BY <1>2, ExceptSeq
<1>4. DOMAIN t = DOMAIN s
    BY <1>2
<1> QED
    BY <1>1, <1>3, <1>4

(* A counter that is written over is lost in full.                         *)
LEMMA SetsBack ==
    ASSUME TypeOK, NEW now \in Nat, NEW loaded \in Nat
    PROVE  LET g == SetBack(ghost, now, loaded) IN
           /\ g \in Ghost /\ g.lost \in Nat /\ g.lost >= ghost.lost
           /\ g.lost >= ghost.lost + (now - loaded)
           /\ g.overlaps = ghost.overlaps /\ g.purges = ghost.purges /\ g.guesses = ghost.guesses
           /\ g.resets = ghost.resets /\ g.uses = ghost.uses /\ g.wrong = ghost.wrong
           /\ g = [calls |-> g.calls, overlaps |-> g.overlaps, lost |-> g.lost,
                   purges |-> g.purges, untracked |-> g.untracked,
                   wrong |-> g.wrong, guesses |-> g.guesses,
                   resets |-> g.resets, uses |-> g.uses]
<1> DEFINE g == SetBack(ghost, now, loaded)
<1>1. ghost.lost \in Nat /\ ghost \in Ghost /\ ghost.guesses \in Seq(Nat)
    BY Counters
<1>2. CASE now > loaded
    <2>1. ghost.lost + (now - loaded) \in Nat
        BY <1>1, <1>2
    <2>2. g = [ghost EXCEPT !.lost = ghost.lost + (now - loaded)]
        BY <1>2 DEF SetBack
    <2>3. g \in Ghost
        BY <1>1, <2>1, <2>2, GhostWritten
    <2>4. /\ g.lost = ghost.lost + (now - loaded)
          /\ g.overlaps = ghost.overlaps /\ g.purges = ghost.purges /\ g.guesses = ghost.guesses
          /\ g.resets = ghost.resets /\ g.uses = ghost.uses /\ g.wrong = ghost.wrong
          /\ g = [calls |-> g.calls, overlaps |-> g.overlaps, lost |-> g.lost,
                  purges |-> g.purges, untracked |-> g.untracked,
                  wrong |-> g.wrong, guesses |-> g.guesses,
                  resets |-> g.resets, uses |-> g.uses]
        BY <2>2, Counters
    <2> HIDE DEF g
    <2>5. g.lost \in Nat /\ g.lost >= ghost.lost /\ g.lost >= ghost.lost + (now - loaded)
        BY <1>1, <1>2, <2>1, <2>4
    <2> QED
        BY <2>3, <2>4, <2>5 DEF g
<1>3. CASE ~(now > loaded)
    <2>1. g = ghost
        BY <1>3 DEF SetBack
    <2>2. g.lost \in Nat /\ g.lost >= ghost.lost /\ g.lost >= ghost.lost + (now - loaded)
        BY <1>1, <1>3, <2>1
    <2> QED
        BY <1>1, <2>1, <2>2, Counters
<1> QED
    BY <1>2, <1>3

LEMMA WrongCodeStep ==
    ASSUME IInv, NEW b \in Browser, WrongCode(b)
    PROVE  IInv'
<1> DEFINE i == call[b].code
           row == [codes[i] EXCEPT !.tries = call[b].tries + 1]
           g == SetBack(ghost, codes[i].tries, call[b].tries)
<1>1. TypeOK /\ CallsSound /\ CodesCounted /\ OneOpen /\ PasswordsCounted /\ BackupOnce
      /\ SessionsCounted
    BY DEF IInv
<1>2. /\ call[b].op = "verify" /\ codes' = [codes EXCEPT ![i].tries = call[b].tries + 1]
      /\ call' = [call EXCEPT ![b] = Idle]
      /\ ghost' = [g EXCEPT !.guesses[i] = @ + 1]
      /\ clock' = clock /\ user' = user /\ sessions' = sessions /\ browser' = browser
    BY DEF WrongCode, Goto
<1>3. i \in DOMAIN codes /\ call[b].tries \in Nat /\ call[b].tries < MaxTries /\ MaxTries \in Nat
    BY <1>1, <1>2, Holds, NumberAssumption DEF CallsSound
<1>4. codes[i] \in Code
    BY <1>1, <1>3, Rows
<1> HIDE DEF i
<1>5. /\ row \in Code /\ row.tries = call[b].tries + 1
      /\ row.purpose = codes[i].purpose /\ row.consumed = codes[i].consumed
      /\ row.redeemed = codes[i].redeemed
    BY <1>3, <1>4 DEF Code
<1>6. codes' = [codes EXCEPT ![i] = row]
    BY <1>2
<1> HIDE DEF row
<1>7. /\ codes' \in Seq(Code) /\ Len(codes') = Len(codes) /\ DOMAIN codes' = DOMAIN codes
      /\ \A j \in DOMAIN codes : codes'[j] = IF j = i THEN row ELSE codes[j]
    BY <1>1, <1>3, <1>5, <1>6, CodeWritten
<1>8. /\ ghost.guesses[i] \in Nat /\ codes[i].tries \in Nat
      /\ ghost.guesses[i] <= codes[i].tries + ghost.lost
      /\ ghost.resets[i] <= (IF codes[i].redeemed THEN 1 ELSE 0) + ghost.overlaps
      /\ i \in 1 .. Len(ghost.guesses)
    BY <1>1, <1>3, CodeNumbers
<1>9. /\ g \in Ghost /\ g.lost \in Nat /\ g.lost >= ghost.lost
      /\ g.lost >= ghost.lost + (codes[i].tries - call[b].tries)
      /\ g.overlaps = ghost.overlaps /\ g.purges = ghost.purges /\ g.guesses = ghost.guesses
      /\ g.resets = ghost.resets /\ g.uses = ghost.uses /\ g.wrong = ghost.wrong
      /\ ghost' = [g EXCEPT !.guesses = [ghost.guesses EXCEPT ![i] = @ + 1]]
      /\ g = [calls |-> g.calls, overlaps |-> g.overlaps, lost |-> g.lost,
              purges |-> g.purges, untracked |-> g.untracked,
              wrong |-> g.wrong, guesses |-> g.guesses,
              resets |-> g.resets, uses |-> g.uses]
    <2>1. /\ g \in Ghost /\ g.lost \in Nat /\ g.lost >= ghost.lost
          /\ g.lost >= ghost.lost + (codes[i].tries - call[b].tries)
          /\ g.overlaps = ghost.overlaps /\ g.purges = ghost.purges /\ g.guesses = ghost.guesses
          /\ g.resets = ghost.resets /\ g.uses = ghost.uses /\ g.wrong = ghost.wrong
          /\ g = [calls |-> g.calls, overlaps |-> g.overlaps, lost |-> g.lost,
                  purges |-> g.purges, untracked |-> g.untracked,
                  wrong |-> g.wrong, guesses |-> g.guesses,
                  resets |-> g.resets, uses |-> g.uses]
        BY <1>1, <1>3, <1>8, SetsBack
    <2> HIDE DEF g
    <2> QED
        BY <1>2, <2>1
<1> HIDE DEF g
<1> DEFINE new == [ghost.guesses EXCEPT ![i] = @ + 1]
<1>10. /\ new \in Seq(Nat) /\ Len(new) = Len(ghost.guesses)
       /\ new[i] = ghost.guesses[i] + 1
       /\ \A j \in 1 .. Len(ghost.guesses) : j # i => new[j] = ghost.guesses[j]
    <2>1. ghost.guesses \in Seq(Nat)
        BY <1>1, Counters
    <2> QED
        BY <1>8, <2>1, Bumped
<1> HIDE DEF new
<1>11. /\ ghost'.guesses = new /\ ghost'.resets = ghost.resets /\ ghost'.uses = ghost.uses
       /\ ghost'.wrong = ghost.wrong /\ ghost'.overlaps = ghost.overlaps
       /\ ghost'.purges = ghost.purges /\ ghost'.lost = g.lost
    BY <1>9 DEF new
<1>12. Grows
    <2>1. 0 \in Nat /\ ghost' = [g EXCEPT !.guesses = new]
        BY <1>9 DEF new
    <2>2. ghost' \in Ghost
        BY ZenonT(40), <1>9, <1>10, <2>1, GhostWritten
    <2> QED
        BY <1>1, <1>9, <1>11, <2>2, Counters DEF Grows
<1>13. CodesCounted'
    <2>1. codes'[i].tries = call[b].tries + 1 /\ codes'[i].redeemed = codes[i].redeemed
        BY <1>3, <1>5, <1>7
    <2>2. ghost'.guesses[i] <= codes'[i].tries + ghost'.lost
        <3>1. ghost'.guesses[i] = ghost.guesses[i] + 1 /\ ghost.lost \in Nat
            BY <1>1, <1>10, <1>11, Counters
        <3> QED
            <4>1. /\ ghost.guesses[i] \in Nat /\ codes[i].tries \in Nat /\ call[b].tries \in Nat
                  /\ g.lost \in Nat /\ ghost.guesses[i] <= codes[i].tries + ghost.lost
                  /\ g.lost >= ghost.lost + (codes[i].tries - call[b].tries)
                BY <1>3, <1>8, <1>9
            <4>2. ghost.guesses[i] + 1 <= (call[b].tries + 1) + g.lost
                BY <3>1, <4>1
            <4> QED
                BY <1>11, <2>1, <3>1, <4>2
    <2>3. codes'[i].tries <= MaxTries
        BY <1>3, <2>1
    <2>4. ghost'.resets[i] <= (IF codes'[i].redeemed THEN 1 ELSE 0) + ghost'.overlaps
        BY <1>8, <1>11, <2>1
    <2>5. \A j \in DOMAIN codes : j # i => ghost'.guesses[j] = ghost.guesses[j]
                                           /\ ghost'.resets[j] = ghost.resets[j]
        BY <1>1, <1>10, <1>11, CodeNumbers
    <2>6. Len(ghost'.guesses) = Len(ghost.guesses) /\ Len(ghost'.resets) = Len(ghost.resets)
        BY <1>10, <1>11
    <2> QED
        BY <1>1, <1>3, <1>7, <1>12, <2>2, <2>3, <2>4, <2>5, <2>6, OneCounted
<1>14. OneOpen'
    <2>1. \A p \in Purpose : Open(p)' \subseteq Open(p)
        BY <1>5, <1>7 DEF Open, Newest
    <2> QED
        BY <1>1, <1>12, <2>1, FewerOpen
<1>15. BackupOnce' /\ SessionsCounted' /\ PasswordsCounted'
    BY <1>1, <1>2, <1>11, <1>12, BackupKept, SessionsKept, PasswordsKept
<1>16. CallsSound' /\ call' \in [Browser -> {Idle} \cup Loaded]
    BY <1>1, <1>2, <1>7, <1>11, CallsMoved, Endings
<1>17. TypeOK'
    BY <1>1, <1>2, <1>7, <1>12, <1>16 DEF TypeOK, Grows, Ghost
<1> QED
    BY <1>13, <1>14, <1>15, <1>16, <1>17 DEF IInv

(* A commit that may have overlapped another.                              *)
LEMMA MayOverlap ==
    ASSUME TypeOK, NEW g, g = ghost \/ g = [ghost EXCEPT !.overlaps = @ + 1]
    PROVE  /\ g \in Ghost /\ g.lost = ghost.lost /\ g.purges = ghost.purges
           /\ g.overlaps \in Nat /\ g.overlaps >= ghost.overlaps
           /\ g.overlaps = ghost.overlaps \/ g.overlaps = ghost.overlaps + 1
           /\ g.guesses = ghost.guesses /\ g.resets = ghost.resets /\ g.uses = ghost.uses
           /\ g.wrong = ghost.wrong
           /\ g = [calls |-> g.calls, overlaps |-> g.overlaps, lost |-> g.lost,
                   purges |-> g.purges, untracked |-> g.untracked,
                   wrong |-> g.wrong, guesses |-> g.guesses,
                   resets |-> g.resets, uses |-> g.uses]
<1>1. CASE g = ghost
    BY <1>1, Counters
<1>2. CASE g = [ghost EXCEPT !.overlaps = @ + 1]
    <2>1. ghost.overlaps + 1 \in Nat /\ ghost \in Ghost /\ ghost.guesses \in Seq(Nat)
        BY Counters
    <2>2. g = [ghost EXCEPT !.overlaps = ghost.overlaps + 1]
        BY <1>2
    <2>3. g \in Ghost
        BY <2>1, <2>2, GhostWritten
    <2>4. /\ g.lost = ghost.lost /\ g.purges = ghost.purges
          /\ g.overlaps = ghost.overlaps + 1
          /\ g.guesses = ghost.guesses /\ g.resets = ghost.resets /\ g.uses = ghost.uses
          /\ g.wrong = ghost.wrong
          /\ g = [calls |-> g.calls, overlaps |-> g.overlaps, lost |-> g.lost,
                  purges |-> g.purges, untracked |-> g.untracked,
                  wrong |-> g.wrong, guesses |-> g.guesses,
                  resets |-> g.resets, uses |-> g.uses]
        BY <2>2, Counters
    <2> QED
        BY <2>1, <2>3, <2>4, Counters
<1> QED
    BY <1>1, <1>2

LEMMA RightCodeStep ==
    ASSUME IInv, NEW b \in Browser, RightCode(b)
    PROVE  IInv'
<1> DEFINE i == call[b].code
           row == [codes[i] EXCEPT !.consumed = clock]
<1>1. TypeOK /\ CallsSound /\ CodesCounted /\ OneOpen /\ PasswordsCounted /\ BackupOnce
      /\ SessionsCounted
    BY DEF IInv
<1>2. /\ call[b].op = "verify" /\ codes' = [codes EXCEPT ![i].consumed = clock]
      /\ clock' = clock /\ user' = user /\ sessions' = sessions
      /\ ghost' = ghost \/ ghost' = [ghost EXCEPT !.overlaps = @ + 1]
    BY DEF RightCode, Overlapped
<1>3. i \in DOMAIN codes /\ i \in Nat /\ clock \in Int /\ clock # Never /\ user # Absent
    BY <1>1, <1>2, Holds, Scalars DEF CallsSound
<1>4. codes[i] \in Code
    BY <1>1, <1>3, Rows
<1>5. call' = [call EXCEPT ![b] = Idle] \/ call' = [call EXCEPT ![b] = [op |-> "verified"]]
    BY DEF RightCode, Goto
<1>6. /\ \A c \in Browser : browser'[c].session \in {browser[c].session, 0}
      /\ browser' \in [Browser -> Cookie]
    <2>1. browser \in [Browser -> Cookie]
        BY <1>1, Scalars
    <2>2. CASE browser' = browser
        BY <2>1, <2>2
    <2>3. CASE browser' = [browser EXCEPT ![b].code = i]
        <3>1. [browser[b] EXCEPT !.code = i] \in Cookie
              /\ [browser[b] EXCEPT !.code = i].session = browser[b].session
            BY <1>3, <2>1 DEF Cookie
        <3>2. browser' = [browser EXCEPT ![b] = [browser[b] EXCEPT !.code = i]]
            BY <2>3
        <3> QED
            BY <2>1, <3>1, <3>2
    <2> QED
        BY <2>2, <2>3 DEF RightCode
<1> HIDE DEF i
<1>7. /\ row \in Code /\ row.tries = codes[i].tries
      /\ row.purpose = codes[i].purpose /\ row.consumed = clock
      /\ row.redeemed = codes[i].redeemed
    BY <1>3, <1>4 DEF Code
<1>8. codes' = [codes EXCEPT ![i] = row]
    BY <1>2
<1> HIDE DEF row
<1>9. /\ codes' \in Seq(Code) /\ Len(codes') = Len(codes) /\ DOMAIN codes' = DOMAIN codes
      /\ \A j \in DOMAIN codes : codes'[j] = IF j = i THEN row ELSE codes[j]
    BY <1>1, <1>3, <1>7, <1>8, CodeWritten
<1>10. /\ Grows /\ ghost'.overlaps >= ghost.overlaps /\ ghost'.overlaps \in Nat
       /\ ghost'.lost = ghost.lost
       /\ ghost'.guesses = ghost.guesses /\ ghost'.resets = ghost.resets
       /\ ghost'.uses = ghost.uses /\ ghost'.wrong = ghost.wrong
    BY <1>1, <1>2, MayOverlap, Counters DEF Grows
<1>11. CodesCounted'
    <2>1. /\ ghost.guesses[i] \in Nat /\ ghost.resets[i] \in Nat /\ codes[i].tries <= MaxTries
          /\ ghost.guesses[i] <= codes[i].tries + ghost.lost
          /\ ghost.resets[i] <= (IF codes[i].redeemed THEN 1 ELSE 0) + ghost.overlaps
        BY <1>1, <1>3, CodeNumbers
    <2>2. codes'[i].tries = codes[i].tries /\ codes'[i].redeemed = codes[i].redeemed
        BY <1>3, <1>7, <1>9
    <2>3. ghost.overlaps \in Nat /\ (IF codes[i].redeemed THEN 1 ELSE 0) \in Nat
        BY <1>1, Counters
    <2>4. ghost'.resets[i] <= (IF codes'[i].redeemed THEN 1 ELSE 0) + ghost'.overlaps
        BY <1>10, <2>1, <2>2, <2>3
    <2>5. codes'[i].tries <= MaxTries /\ ghost'.guesses[i] <= codes'[i].tries + ghost'.lost
        BY <1>10, <2>1, <2>2
    <2> QED
        BY <1>1, <1>3, <1>9, <1>10, <2>4, <2>5, OneCounted
<1>12. OneOpen'
    <2>1. \A p \in Purpose : Open(p)' \subseteq Open(p)
        BY <1>3, <1>7, <1>9 DEF Open, Newest
    <2> QED
        BY <1>1, <1>10, <2>1, FewerOpen
<1>13. BackupOnce' /\ SessionsCounted' /\ PasswordsCounted'
    BY <1>1, <1>2, <1>6, <1>10, BackupKept, SessionsKept, PasswordsKept
<1>14. CallsSound' /\ call' \in [Browser -> {Idle} \cup Loaded]
    <2>1. [op |-> "verified"].op \notin {"verify", "reset", "second"}
        OBVIOUS
    <2> QED
        BY <1>1, <1>2, <1>3, <1>5, <1>9, <1>10, <2>1, CallsMoved, Endings
<1>15. TypeOK'
    BY <1>1, <1>2, <1>6, <1>9, <1>10, <1>14 DEF TypeOK, Grows, Ghost
<1> QED
    BY <1>11, <1>12, <1>13, <1>14, <1>15 DEF IInv

-----------------------------------------------------------------------------
(* The account.                                                            *)

LEMMA Existing ==
    ASSUME NEW u \in User
    PROVE  /\ u # Absent /\ u.failures \in Nat /\ u.failures < MaxFailures /\ MaxFailures \in Nat
           /\ u.backup \in SUBSET Nat /\ u.until \in Nat /\ u.totp \in BOOLEAN
           /\ u.verified \in BOOLEAN /\ u.active \in BOOLEAN
<1>1. MaxFailures \in Nat \ {0}
    BY NumberAssumption
<1>2. u \in [verified : BOOLEAN, active : BOOLEAN,
             failures : Nat, until : Nat, totp : BOOLEAN, backup : SUBSET Nat]
    BY <1>1 DEF User
<1>3. u # Absent
    BY <1>2, AbsentAssumption
<1> QED
    BY <1>1, <1>3 DEF User

(* A commit that writes the account and leaves the codes and sessions.     *)
LEMMA AccountStep ==
    ASSUME IInv, Grows, codes' = codes, sessions' = sessions, clock' = clock,
           ghost'.guesses = ghost.guesses, ghost'.resets = ghost.resets,
           \A c \in Browser : browser'[c].session \in {browser[c].session, 0},
           browser' \in [Browser -> Cookie],
           user' \in User, ghost'.wrong <= user'.failures + ghost'.lost,
           BackupOnce', CallsSound', call' \in [Browser -> {Idle} \cup Loaded]
    PROVE  IInv' /\ user' # Absent
<1>1. TypeOK /\ CodesCounted /\ OneOpen /\ SessionsCounted
    BY DEF IInv
<1>2. CodesCounted' /\ OneOpen' /\ SessionsCounted'
    BY <1>1, CodesKept, SessionsKept, Existing
<1>3. PasswordsCounted'
    BY Existing DEF PasswordsCounted
<1>4. TypeOK'
    BY <1>1 DEF TypeOK, Grows, Ghost
<1> QED
    BY <1>2, <1>3, <1>4, Existing DEF IInv

LEMMA CallsCounted ==
    ASSUME TypeOK, ghost.calls < MaxCalls, ghost' = [ghost EXCEPT !.calls = @ + 1]
    PROVE  /\ Grows /\ ghost'.guesses = ghost.guesses /\ ghost'.resets = ghost.resets
           /\ ghost'.uses = ghost.uses /\ ghost'.wrong = ghost.wrong
           /\ ghost'.lost = ghost.lost /\ ghost'.overlaps = ghost.overlaps
<1>1. ghost \in Ghost /\ ghost.guesses \in Seq(Nat) /\ 0 \in Nat
    BY Counters
<1>2. ghost' \in Ghost
    BY <1>1, GhostWritten
<1> QED
    BY <1>2, Counters DEF Grows

(* A request of an account that is vouched for: it goes on to the second   *)
(* factor or to its session.                                               *)
LEMMA Vouches ==
    ASSUME TypeOK, NEW b \in Browser,
           browser' \in {browser, [browser EXCEPT ![b] = [browser[b] EXCEPT !.second = TRUE]]},
           call' \in {[call EXCEPT ![b] = Idle],
                      [call EXCEPT ![b] = [op |-> "enter", second |-> browser[b].second]]}
    PROVE  /\ \A c \in Browser : browser'[c].session \in {browser[c].session, 0}
           /\ browser' \in [Browser -> Cookie]
           /\ \E l \in {Idle} \cup Loaded :
                 l.op \notin {"verify", "reset", "second"} /\ call' = [call EXCEPT ![b] = l]
<1>1. browser \in [Browser -> Cookie] /\ browser[b].second \in BOOLEAN
    BY Scalars DEF Cookie
<1>2. [browser[b] EXCEPT !.second = TRUE] \in Cookie
      /\ [browser[b] EXCEPT !.second = TRUE].session = browser[b].session
    BY <1>1 DEF Cookie
<1>3. /\ \A c \in Browser : browser'[c].session \in {browser[c].session, 0}
      /\ browser' \in [Browser -> Cookie]
    BY <1>1, <1>2
<1>4. \E l \in {Idle} \cup Loaded :
         l.op \notin {"verify", "reset", "second"} /\ call' = [call EXCEPT ![b] = l]
    <2>1. [op |-> "enter", second |-> browser[b].second] \in {Idle} \cup Loaded
          /\ [op |-> "enter", second |-> browser[b].second].op \notin {"verify", "reset", "second"}
        BY <1>1, Endings
    <2> QED
        BY <2>1, Endings
<1> QED
    BY <1>3, <1>4

LEMMA NewAccount ==
    /\ Fresh \in User /\ Fresh.failures = 0 /\ Fresh.backup = {} /\ Fresh.totp = FALSE
    /\ [Fresh EXCEPT !.verified = TRUE] \in User
    /\ [Fresh EXCEPT !.verified = TRUE].failures = 0
    /\ [Fresh EXCEPT !.verified = TRUE].backup = {}
    /\ [Fresh EXCEPT !.verified = TRUE].totp = FALSE
<1>1. 0 \in 0 .. MaxFailures - 1
    BY NumberAssumption
<1>2. Fresh \in User /\ [Fresh EXCEPT !.verified = TRUE] \in User
    BY <1>1 DEF Fresh, User
<1> QED
    BY <1>2 DEF Fresh

LEMMA JoinStep ==
    ASSUME IInv, NEW b \in Browser, Register(b) \/ SsoLogin(b)
    PROVE  IInv' /\ user' # Absent
<1>1. TypeOK /\ CallsSound /\ PasswordsCounted /\ BackupOnce
    BY DEF IInv
<1>2. /\ codes' = codes /\ sessions' = sessions /\ clock' = clock
      /\ Grows /\ ghost'.guesses = ghost.guesses /\ ghost'.resets = ghost.resets
      /\ ghost'.uses = ghost.uses /\ ghost'.wrong = ghost.wrong /\ ghost'.lost = ghost.lost
    BY <1>1, CallsCounted DEF Register, SsoLogin
<1>3. /\ user' \in User /\ user' # Absent
      /\ user'.backup = {} \/ (user # Absent /\ user'.backup = user.backup)
      /\ ghost'.wrong <= user'.failures + ghost'.lost
    <2>1. CASE user = Absent
        <3>1. user' \in User /\ user'.failures = 0 /\ user'.backup = {}
            BY <2>1, NewAccount DEF Register, SsoLogin
        <3>2. ghost.wrong = 0 /\ ghost.lost \in Nat
            BY <1>1, <2>1, Counters DEF PasswordsCounted
        <3> QED
            BY <1>2, <3>1, <3>2, Existing
    <2>2. CASE user # Absent
        <3>1. user' = user /\ user \in User
            BY <1>1, <2>2, Scalars DEF Register, SsoLogin
        <3> QED
            BY <1>1, <1>2, <2>2, <3>1 DEF PasswordsCounted
    <2> QED
        BY <2>1, <2>2
<1>4. BackupOnce'
    BY <1>1, <1>2, <1>3, BackupKept
<1>5. /\ \A c \in Browser : browser'[c].session \in {browser[c].session, 0}
      /\ browser' \in [Browser -> Cookie]
    <2>1. CASE Register(b)
        BY <1>1, <2>1, Scalars DEF Register
    <2>2. CASE SsoLogin(b)
        <3>1. /\ browser' \in {browser, [browser EXCEPT ![b] = [browser[b] EXCEPT !.second = TRUE]]}
              /\ call' \in {[call EXCEPT ![b] = Idle],
                            [call EXCEPT ![b] = [op |-> "enter", second |-> browser[b].second]]}
            BY <2>2 DEF SsoLogin, Vouched, Answer, Goto
        <3> QED
            BY <1>1, <3>1, Vouches
    <2> QED
        BY <2>1, <2>2
<1>6. CallsSound' /\ call' \in [Browser -> {Idle} \cup Loaded]
    <2>1. CASE Register(b)
        <3>1. [op |-> "mail", purpose |-> "verify"] \in {Idle} \cup Loaded
            BY Endings DEF Purpose
        <3>2. call' = [call EXCEPT ![b] = [op |-> "mail", purpose |-> "verify"]]
            BY <2>1 DEF Register, Goto
        <3> QED
            BY <1>1, <1>2, <1>3, <3>1, <3>2, CallsMoved
    <2>2. CASE SsoLogin(b)
        <3>1. /\ browser' \in {browser, [browser EXCEPT ![b] = [browser[b] EXCEPT !.second = TRUE]]}
              /\ call' \in {[call EXCEPT ![b] = Idle],
                            [call EXCEPT ![b] = [op |-> "enter", second |-> browser[b].second]]}
            BY <2>2 DEF SsoLogin, Vouched, Answer, Goto
        <3>2. PICK l \in {Idle} \cup Loaded :
                 l.op \notin {"verify", "reset", "second"} /\ call' = [call EXCEPT ![b] = l]
            BY <1>1, <3>1, Vouches
        <3> QED
            BY <1>1, <1>2, <1>3, <3>2, CallsMoved
    <2> QED
        BY <2>1, <2>2
<1> QED
    BY <1>2, <1>3, <1>4, <1>5, <1>6, AccountStep

LEMMA ImportStep ==
    ASSUME IInv, ImportUser
    PROVE  IInv' /\ user' # Absent
<1>1. TypeOK /\ CallsSound /\ PasswordsCounted /\ BackupOnce
    BY DEF IInv
<1>2. /\ codes' = codes /\ sessions' = sessions /\ clock' = clock
      /\ browser' = browser /\ call' = call
      /\ Grows /\ ghost'.guesses = ghost.guesses /\ ghost'.resets = ghost.resets
      /\ ghost'.uses = ghost.uses /\ ghost'.wrong = ghost.wrong /\ ghost'.lost = ghost.lost
    BY <1>1, CallsCounted DEF ImportUser
<1>3. user' \in User /\ user'.failures = 0 /\ user'.backup = {}
    BY NewAccount DEF ImportUser
<1>4. user' # Absent /\ ghost'.wrong <= user'.failures + ghost'.lost
    <2>1. ghost.wrong = 0 /\ ghost.lost \in Nat
        BY <1>1, Counters DEF PasswordsCounted, ImportUser
    <2> QED
        BY <1>2, <1>3, <2>1, Existing
<1>5. BackupOnce'
    BY <1>1, <1>2, <1>3, BackupKept
<1>6. /\ \A c \in Browser : browser'[c].session \in {browser[c].session, 0}
      /\ browser' \in [Browser -> Cookie]
    BY <1>1, <1>2, Scalars
<1>7. CallsSound' /\ call' \in [Browser -> {Idle} \cup Loaded]
    BY <1>1, <1>2, <1>4, Scalars DEF CallsSound
<1> QED
    BY <1>2, <1>3, <1>4, <1>5, <1>6, <1>7, AccountStep

LEMMA MarkStep ==
    ASSUME IInv, (\E b \in Browser : MarkVerified(b)) \/ ToggleStatus
    PROVE  IInv' /\ user' # Absent
<1>1. TypeOK /\ CallsSound /\ PasswordsCounted /\ BackupOnce
    BY DEF IInv
<1>2. user # Absent /\ user \in User
    BY <1>1, Holds, Scalars DEF MarkVerified, ToggleStatus, CallsSound
<1>3. /\ codes' = codes /\ sessions' = sessions /\ clock' = clock /\ browser' = browser
      /\ Grows /\ ghost'.guesses = ghost.guesses /\ ghost'.resets = ghost.resets
      /\ ghost'.uses = ghost.uses /\ ghost'.wrong = ghost.wrong /\ ghost'.lost = ghost.lost
    <2>1. CASE ToggleStatus
        BY <1>1, <2>1, CallsCounted DEF ToggleStatus
    <2>2. CASE \E b \in Browser : MarkVerified(b)
        BY <1>1, <2>2, Counters DEF MarkVerified, Grows
    <2> QED
        BY <2>1, <2>2
<1>4. user' \in User /\ user'.failures = user.failures /\ user'.backup = user.backup
    BY <1>2, Existing DEF MarkVerified, ToggleStatus, User
<1>5. /\ BackupOnce' /\ ghost'.wrong <= user'.failures + ghost'.lost
      /\ user' # Absent
    BY <1>1, <1>2, <1>3, <1>4, BackupKept, Existing DEF PasswordsCounted
<1>6. CallsSound' /\ call' \in [Browser -> {Idle} \cup Loaded]
    <2>1. CASE ToggleStatus
        <3>1. call' = call
            BY <2>1 DEF ToggleStatus
        <3> QED
            BY <1>1, <1>3, <1>5, <3>1, Scalars DEF CallsSound
    <2>2. ASSUME NEW b \in Browser, MarkVerified(b)
          PROVE  CallsSound' /\ call' \in [Browser -> {Idle} \cup Loaded]
        <3>1. call' = [call EXCEPT ![b] = Idle]
            BY <2>2 DEF MarkVerified, Goto
        <3> QED
            BY <1>1, <1>3, <1>5, <3>1, CallsMoved, Endings
    <2> QED
        BY <2>1, <2>2
<1> QED
    BY <1>1, <1>3, <1>4, <1>5, <1>6, AccountStep, Scalars

LEMMA Unlocks ==
    ASSUME NEW l, user \in User, l.user \in User
    PROVE  /\ Unlocked(l) \in User /\ Unlocked(l).backup = user.backup
           /\ [user EXCEPT !.failures = Written(0, l.user.failures, @)] \in User
           /\ [user EXCEPT !.failures = Written(0, l.user.failures, @)].backup = user.backup
<1>1. Written(0, l.user.failures, user.failures) \in 0 .. MaxFailures - 1
      /\ Written(0, l.user.until, user.until) \in Nat
    BY NumberAssumption DEF Written, User
<1> QED
    BY <1>1 DEF Unlocked, User

LEMMA LostInFull ==
    \A w, f, l, x, y \in Nat : w <= f + x /\ y >= x + (f - l) => w + 1 <= (l + 1) + y
OBVIOUS

LEMMA PasswordStep ==
    ASSUME IInv, NEW b \in Browser, WrongPassword(b) \/ RightPassword(b)
    PROVE  IInv' /\ user' # Absent
<1> DEFINE loaded == call[b].user
<1>1. TypeOK /\ CallsSound /\ PasswordsCounted /\ BackupOnce
    BY DEF IInv
<1>2. call[b].op = "password"
    BY DEF WrongPassword, RightPassword
<1>3. user # Absent /\ user \in User /\ loaded \in User
    BY <1>1, <1>2, Holds, Scalars DEF CallsSound
<1>4. codes' = codes /\ sessions' = sessions /\ clock' = clock
    BY DEF WrongPassword, RightPassword
<1>5. /\ \A c \in Browser : browser'[c].session \in {browser[c].session, 0}
      /\ browser' \in [Browser -> Cookie]
    <2>1. CASE browser' = browser
        BY <1>1, <2>1, Scalars
    <2>2. CASE RightPassword(b)
        <3>1. /\ browser' \in {browser, [browser EXCEPT ![b] = [browser[b] EXCEPT !.second = TRUE]]}
              /\ call' \in {[call EXCEPT ![b] = Idle],
                            [call EXCEPT ![b] = [op |-> "enter", second |-> browser[b].second]]}
            BY <2>2 DEF RightPassword, Vouched, Answer, Goto
        <3> QED
            BY <1>1, <3>1, Vouches
    <2> QED
        BY <2>1, <2>2 DEF WrongPassword
<1>6. /\ Grows /\ ghost'.guesses = ghost.guesses /\ ghost'.resets = ghost.resets
      /\ ghost'.uses = ghost.uses /\ user' \in User /\ user'.backup = user.backup
      /\ ghost'.wrong <= user'.failures + ghost'.lost
    <2>1. CASE RightPassword(b)
        <3>1. user' \in User /\ user'.backup = user.backup
            BY <1>3, <2>1, Unlocks DEF RightPassword
        <3>2. ghost' = [ghost EXCEPT !.wrong = 0] /\ ghost \in Ghost /\ ghost.guesses \in Seq(Nat) /\ 0 \in Nat
            BY <1>1, <2>1, Counters DEF RightPassword
        <3>3. ghost' \in Ghost
            BY <3>2, GhostWritten
        <3>4. /\ Grows /\ ghost'.guesses = ghost.guesses /\ ghost'.resets = ghost.resets
              /\ ghost'.uses = ghost.uses /\ ghost'.wrong = 0 /\ ghost'.lost \in Nat
            BY <1>1, <3>2, <3>3, Counters DEF Grows
        <3>5. user'.failures \in Nat
            BY <3>1, Existing
        <3> QED
            BY <3>1, <3>4, <3>5
    <2>2. CASE WrongPassword(b)
        <3> DEFINE wrong == IF loaded.failures + 1 < MaxFailures THEN ghost.wrong + 1 ELSE 0
                   g == SetBack(ghost, user.failures, loaded.failures)
        <3>1. /\ user' = Failed(call[b])
              /\ ghost' = [g EXCEPT !.wrong =
                              IF loaded.failures + 1 < MaxFailures THEN @ + 1 ELSE 0]
            BY <2>2 DEF WrongPassword
        <3>2. /\ user.failures \in Nat /\ loaded.failures \in Nat /\ MaxFailures \in Nat
              /\ user.until \in Nat /\ clock + Lock \in Nat
            BY <1>1, <1>3, Existing, Scalars, NumberAssumption
        <3>3. /\ user' \in User /\ user'.backup = user.backup
              /\ loaded.failures + 1 < MaxFailures => user'.failures = loaded.failures + 1
            <4>1. CASE loaded.failures + 1 < MaxFailures
                <5>1. user' = [user EXCEPT !.failures = loaded.failures + 1]
                    BY <3>1, <4>1 DEF Failed
                <5>2. loaded.failures + 1 \in 0 .. MaxFailures - 1
                    BY <3>2, <4>1
                <5> QED
                    BY <1>3, <5>1, <5>2 DEF User
            <4>2. CASE ~(loaded.failures + 1 < MaxFailures)
                <5>1. user' = [user EXCEPT !.failures = Written(0, loaded.failures, user.failures),
                                           !.until = clock + Lock]
                    BY <3>1, <4>2 DEF Failed
                <5>2. Written(0, loaded.failures, user.failures) \in 0 .. MaxFailures - 1
                    BY <1>3, <3>2, NumberAssumption DEF Written, User
                <5> QED
                    BY <1>3, <3>2, <4>2, <5>1, <5>2 DEF User
            <4> QED
                BY <4>1, <4>2
        <3>4. /\ g \in Ghost /\ g.lost \in Nat /\ g.lost >= ghost.lost
              /\ g.lost >= ghost.lost + (user.failures - loaded.failures)
              /\ g.overlaps = ghost.overlaps /\ g.purges = ghost.purges /\ g.guesses = ghost.guesses
              /\ g.resets = ghost.resets /\ g.uses = ghost.uses /\ g.wrong = ghost.wrong
              /\ g = [calls |-> g.calls, overlaps |-> g.overlaps, lost |-> g.lost,
                      purges |-> g.purges, untracked |-> g.untracked,
                      wrong |-> g.wrong, guesses |-> g.guesses,
                      resets |-> g.resets, uses |-> g.uses]
            BY <1>1, <3>2, SetsBack
        <3> HIDE DEF g
        <3>5. ghost' = [g EXCEPT !.wrong = wrong] /\ ghost.wrong \in Nat /\ wrong \in Nat
              /\ ghost.guesses \in Seq(Nat)
            BY <1>1, <3>1, <3>4, Counters
        <3> HIDE DEF wrong
        <3>6. ghost' \in Ghost
            BY <3>4, <3>5, GhostWritten
        <3>7. /\ ghost'.guesses = ghost.guesses /\ ghost'.resets = ghost.resets
              /\ ghost'.uses = ghost.uses /\ ghost'.wrong = wrong /\ ghost'.lost = g.lost
              /\ ghost'.overlaps = ghost.overlaps /\ ghost'.purges = ghost.purges
            BY <3>4, <3>5
        <3>8. Grows
            BY <1>1, <3>4, <3>6, <3>7, Counters DEF Grows
        <3>9. wrong <= user'.failures + g.lost
            <4>1. CASE loaded.failures + 1 < MaxFailures
                <5>1. wrong = ghost.wrong + 1 /\ user'.failures = loaded.failures + 1
                    BY <3>3, <4>1 DEF wrong
                <5>2. ghost.wrong <= user.failures + ghost.lost /\ ghost.lost \in Nat
                    BY <1>1, <1>3, Counters DEF PasswordsCounted
                <5>3. ghost.wrong + 1 <= (loaded.failures + 1) + g.lost
                    BY <3>2, <3>4, <3>5, <5>2, LostInFull
                <5> QED
                    BY <5>1, <5>3
            <4>2. CASE ~(loaded.failures + 1 < MaxFailures)
                <5>1. wrong = 0 /\ user'.failures \in Nat
                    BY <3>3, <4>2, Existing DEF wrong
                <5> QED
                    BY <3>4, <5>1
            <4> QED
                BY <4>1, <4>2
        <3> QED
            BY <3>3, <3>7, <3>8, <3>9
    <2> QED
        BY <2>1, <2>2
<1>7. BackupOnce' /\ user' # Absent
    BY <1>1, <1>3, <1>6, BackupKept, Existing
<1>8. CallsSound' /\ call' \in [Browser -> {Idle} \cup Loaded]
    <2>1. CASE WrongPassword(b)
        <3>1. call' = [call EXCEPT ![b] = Idle]
            BY <2>1 DEF WrongPassword, Goto
        <3> QED
            BY <1>1, <1>4, <1>6, <1>7, <3>1, CallsMoved, Endings
    <2>2. CASE RightPassword(b)
        <3>1. /\ browser' \in {browser, [browser EXCEPT ![b] = [browser[b] EXCEPT !.second = TRUE]]}
              /\ call' \in {[call EXCEPT ![b] = Idle],
                            [call EXCEPT ![b] = [op |-> "enter", second |-> browser[b].second]]}
            BY <2>2 DEF RightPassword, Vouched, Answer, Goto
        <3>2. PICK l \in {Idle} \cup Loaded :
                 l.op \notin {"verify", "reset", "second"} /\ call' = [call EXCEPT ![b] = l]
            BY <1>1, <3>1, Vouches
        <3> QED
            BY <1>1, <1>4, <1>6, <1>7, <3>2, CallsMoved
    <2> QED
        BY <2>1, <2>2
<1> QED
    BY <1>4, <1>5, <1>6, <1>7, <1>8, AccountStep

-----------------------------------------------------------------------------
(* A password that is reset, and the second factor.                        *)

LEMMA ResetStep ==
    ASSUME IInv, NEW b \in Browser, CommitReset(b)
    PROVE  IInv' /\ user' # Absent
<1> DEFINE i == call[b].code
           row == [codes[i] EXCEPT !.redeemed = TRUE]
           g == Overlapped(ghost, codes[i].redeemed)
           new == [ghost.resets EXCEPT ![i] = @ + 1]
<1>1. TypeOK /\ CallsSound /\ CodesCounted /\ OneOpen /\ PasswordsCounted /\ BackupOnce
      /\ SessionsCounted
    BY DEF IInv
<1>2. /\ call[b].op = "reset" /\ codes' = [codes EXCEPT ![i].redeemed = TRUE]
      /\ user' = Unlocked(call[b]) /\ call' = [call EXCEPT ![b] = Idle]
      /\ ghost' = [g EXCEPT !.resets[i] = @ + 1, !.wrong = 0]
      /\ clock' = clock /\ sessions' = sessions
    BY DEF CommitReset, Redeemed, Goto
<1>3. /\ i \in DOMAIN codes /\ user # Absent /\ user \in User /\ call[b].user \in User
    BY <1>1, <1>2, Holds, Scalars DEF CallsSound
<1>4. user' \in User /\ user'.backup = user.backup /\ user' # Absent /\ user'.failures \in Nat
    <2>1. user' \in User /\ user'.backup = user.backup
        BY <1>2, <1>3, Unlocks
    <2> QED
        BY <2>1, Existing
<1>5. /\ \A c \in Browser : browser'[c].session \in {browser[c].session, 0}
      /\ browser' \in [Browser -> Cookie]
    <2>1. browser \in [Browser -> Cookie]
        BY <1>1, Scalars
    <2>2. CASE browser' = browser
        BY <2>1, <2>2
    <2>3. CASE browser' = [browser EXCEPT ![b] = [browser[b] EXCEPT !.code = 0]]
        <3>1. [browser[b] EXCEPT !.code = 0] \in Cookie
              /\ [browser[b] EXCEPT !.code = 0].session = browser[b].session
            BY <2>1 DEF Cookie
        <3> QED
            BY <2>1, <2>3, <3>1
    <2> QED
        BY <2>2, <2>3 DEF CommitReset, Answer
<1> HIDE DEF i
<1>6. codes[i] \in Code
    BY <1>1, <1>3, Rows
<1>7. /\ row \in Code /\ row.tries = codes[i].tries
      /\ row.purpose = codes[i].purpose /\ row.consumed = codes[i].consumed
      /\ row.redeemed = TRUE
    BY <1>6 DEF Code
<1>8. codes' = [codes EXCEPT ![i] = row]
    BY <1>2
<1> HIDE DEF row
<1>9. /\ codes' \in Seq(Code) /\ Len(codes') = Len(codes) /\ DOMAIN codes' = DOMAIN codes
      /\ \A j \in DOMAIN codes : codes'[j] = IF j = i THEN row ELSE codes[j]
    BY <1>1, <1>3, <1>7, <1>8, CodeWritten
<1>10. /\ ghost.guesses[i] \in Nat /\ ghost.resets[i] \in Nat
       /\ codes[i].redeemed \in BOOLEAN /\ codes[i].tries <= MaxTries
       /\ ghost.guesses[i] <= codes[i].tries + ghost.lost
       /\ ghost.resets[i] <= (IF codes[i].redeemed THEN 1 ELSE 0) + ghost.overlaps
       /\ i \in 1 .. Len(ghost.resets)
    BY <1>1, <1>3, CodeNumbers
<1>11. /\ g \in Ghost /\ g.lost = ghost.lost /\ g.purges = ghost.purges
       /\ g.overlaps \in Nat /\ g.overlaps >= ghost.overlaps
       /\ g.overlaps = ghost.overlaps \/ g.overlaps = ghost.overlaps + 1
       /\ g.guesses = ghost.guesses /\ g.resets = ghost.resets /\ g.uses = ghost.uses
       /\ g.wrong = ghost.wrong
       /\ g = [calls |-> g.calls, overlaps |-> g.overlaps, lost |-> g.lost,
               purges |-> g.purges, untracked |-> g.untracked,
               wrong |-> g.wrong, guesses |-> g.guesses,
               resets |-> g.resets, uses |-> g.uses]
    <2>1. g = ghost \/ g = [ghost EXCEPT !.overlaps = @ + 1]
        BY DEF Overlapped
    <2> HIDE DEF g
    <2> QED
        BY <1>1, <2>1, MayOverlap
<1>12. codes[i].redeemed => g.overlaps = ghost.overlaps + 1
    <2>1. codes[i].redeemed => g = [ghost EXCEPT !.overlaps = @ + 1]
        BY DEF Overlapped
    <2> HIDE DEF g
    <2> QED
        BY <1>1, <2>1, Counters
<1> HIDE DEF g
<1>13. /\ new \in Seq(Nat) /\ Len(new) = Len(ghost.resets)
       /\ new[i] = ghost.resets[i] + 1
       /\ \A j \in 1 .. Len(ghost.resets) : j # i => new[j] = ghost.resets[j]
    <2>1. ghost.resets \in Seq(Nat)
        BY <1>1, Counters
    <2> QED
        BY <1>10, <2>1, Bumped
<1>14. ghost' = [g EXCEPT !.resets = new, !.wrong = 0]
    BY <1>2, <1>11
<1> HIDE DEF new
<1>15. /\ ghost'.guesses = ghost.guesses /\ ghost'.resets = new /\ ghost'.uses = ghost.uses
       /\ ghost'.wrong = 0 /\ ghost'.overlaps = g.overlaps
       /\ ghost'.purges = ghost.purges /\ ghost'.lost = ghost.lost
    BY <1>11, <1>14
<1>16. Grows
    <2>1. 0 \in Nat /\ ghost.guesses \in Seq(Nat)
        BY <1>1, Counters
    <2>2. ghost' \in Ghost
        BY <1>11, <1>13, <1>14, <2>1, GhostWritten
    <2> QED
        BY <1>1, <1>11, <1>15, <2>2, Counters DEF Grows
<1>17. CodesCounted'
    <2>1. codes'[i].tries = codes[i].tries /\ codes'[i].redeemed
        BY <1>3, <1>7, <1>9
    <2>2. codes'[i].tries <= MaxTries /\ ghost'.guesses[i] <= codes'[i].tries + ghost'.lost
        BY <1>10, <1>15, <2>1
    <2>3. ghost'.resets[i] <= (IF codes'[i].redeemed THEN 1 ELSE 0) + ghost'.overlaps
        <3>1. ghost.overlaps \in Nat
            BY <1>1, Counters
        <3>2. ghost.resets[i] + 1 <= 1 + g.overlaps
            <4>1. CASE codes[i].redeemed
                BY <1>10, <1>12, <3>1, <4>1
            <4>2. CASE ~codes[i].redeemed
                BY <1>10, <1>11, <3>1, <4>2
            <4> QED
                BY <4>1, <4>2
        <3> QED
            BY <1>13, <1>15, <2>1, <3>2
    <2>4. \A j \in DOMAIN codes : j # i => ghost'.guesses[j] = ghost.guesses[j]
                                           /\ ghost'.resets[j] = ghost.resets[j]
        BY <1>1, <1>13, <1>15, CodeNumbers
    <2>5. Len(ghost'.guesses) = Len(ghost.guesses) /\ Len(ghost'.resets) = Len(ghost.resets)
        BY <1>13, <1>15
    <2> QED
        BY <1>1, <1>3, <1>9, <1>16, <2>2, <2>3, <2>4, <2>5, OneCounted
<1>18. OneOpen'
    <2>1. \A p \in Purpose : Open(p)' \subseteq Open(p)
        BY <1>7, <1>9 DEF Open, Newest
    <2> QED
        BY <1>1, <1>16, <2>1, FewerOpen
<1>19. BackupOnce' /\ SessionsCounted'
    BY <1>1, <1>2, <1>3, <1>4, <1>5, <1>15, <1>16, BackupKept, SessionsKept
<1>20. PasswordsCounted'
    <2>1. ghost'.wrong = 0 /\ ghost'.lost \in Nat
        BY <1>1, <1>15, Counters
    <2> QED
        BY <1>4, <2>1 DEF PasswordsCounted
<1>21. CallsSound' /\ call' \in [Browser -> {Idle} \cup Loaded]
    BY <1>1, <1>2, <1>4, <1>9, <1>15, CallsMoved, Endings
<1>22. TypeOK'
    BY <1>1, <1>2, <1>4, <1>5, <1>9, <1>16, <1>21 DEF TypeOK, Grows, Ghost
<1> QED
    BY <1>4, <1>17, <1>18, <1>19, <1>20, <1>21, <1>22 DEF IInv

LEMMA BackupStep ==
    ASSUME IInv, NEW b \in Browser, BackupCode(b)
    PROVE  IInv' /\ user' # Absent
<1> DEFINE listed == call[b].user.backup
           g == Overlapped(ghost, user.backup # listed)
<1>1. TypeOK /\ CallsSound /\ PasswordsCounted /\ BackupOnce
    BY DEF IInv
<1>2. /\ call[b].op = "second" /\ browser' = browser
      /\ call' = [call EXCEPT ![b] = [op |-> "enter", second |-> FALSE]]
      /\ codes' = codes /\ sessions' = sessions /\ clock' = clock
    BY DEF BackupCode, Goto
<1>3. PICK k \in listed : /\ user' = [user EXCEPT !.backup = listed \ {k}]
                          /\ ghost' = [g EXCEPT !.uses[k] = @ + 1]
    BY DEF BackupCode
<1>4. /\ user # Absent /\ user \in User /\ call[b].user \in User
      /\ listed \subseteq DOMAIN ghost.uses
    BY <1>1, <1>2, Holds, Scalars DEF CallsSound
<1>5. listed \in SUBSET Nat /\ user.failures \in Nat
    BY <1>4, Existing
<1>6. /\ g \in Ghost /\ g.lost = ghost.lost /\ g.purges = ghost.purges
      /\ g.overlaps \in Nat /\ g.overlaps >= ghost.overlaps
      /\ g.guesses = ghost.guesses /\ g.resets = ghost.resets /\ g.uses = ghost.uses
      /\ g.wrong = ghost.wrong
      /\ g = [calls |-> g.calls, overlaps |-> g.overlaps, lost |-> g.lost,
              purges |-> g.purges, untracked |-> g.untracked,
              wrong |-> g.wrong, guesses |-> g.guesses,
              resets |-> g.resets, uses |-> g.uses]
    <2>1. g = ghost \/ g = [ghost EXCEPT !.overlaps = @ + 1]
        BY DEF Overlapped
    <2> HIDE DEF g
    <2> QED
        BY <1>1, <2>1, MayOverlap
<1>7. user.backup # listed => g.overlaps = ghost.overlaps + 1
    <2>1. user.backup # listed => g = [ghost EXCEPT !.overlaps = @ + 1]
        BY DEF Overlapped
    <2> HIDE DEF g
    <2> QED
        BY <1>1, <2>1, Counters
<1> HIDE DEF g, listed
<1> DEFINE new == [ghost.uses EXCEPT ![k] = @ + 1]
<1>8. /\ new \in Seq(Nat) /\ DOMAIN new = DOMAIN ghost.uses
      /\ new[k] = ghost.uses[k] + 1 /\ ghost.uses[k] \in Nat
      /\ \A j \in DOMAIN ghost.uses : j # k => new[j] = ghost.uses[j]
    <2>1. ghost.uses \in Seq(Nat)
        BY <1>1, Counters
    <2>2. DOMAIN ghost.uses = 1 .. Len(ghost.uses)
        BY <2>1, LenProperties
    <2> QED
        BY <1>4, <2>1, <2>2, Bumped
<1>9. ghost' = [g EXCEPT !.uses = new]
    BY <1>3, <1>6
<1> HIDE DEF new
<1>10. /\ ghost'.guesses = ghost.guesses /\ ghost'.resets = ghost.resets /\ ghost'.uses = new
       /\ ghost'.wrong = ghost.wrong /\ ghost'.overlaps = g.overlaps
       /\ ghost'.purges = ghost.purges /\ ghost'.lost = ghost.lost
    BY <1>6, <1>9
<1>11. Grows
    <2>1. 0 \in Nat /\ ghost.guesses \in Seq(Nat)
        BY <1>1, Counters
    <2>2. ghost' \in Ghost
        BY <1>6, <1>8, <1>9, <2>1, GhostWritten
    <2> QED
        BY <1>1, <1>6, <1>10, <2>2, Counters DEF Grows
<1>12. /\ user' \in User /\ user'.failures = user.failures /\ user'.backup = listed \ {k}
       /\ user' # Absent
    <2>1. user' \in User /\ user'.failures = user.failures /\ user'.backup = listed \ {k}
        BY <1>3, <1>4, <1>5 DEF User
    <2> QED
        BY <2>1, Existing
<1>13. BackupOnce'
    <2>1. ghost.overlaps \in Nat
        BY <1>1, Counters
    <2>2. ASSUME NEW j \in listed
          PROVE  ghost.uses[j] <= g.overlaps
        <3>1. j \in DOMAIN ghost.uses
            BY <1>4
        <3>2. ghost.uses[j] \in Nat /\ ghost.uses[j] <= 1 + ghost.overlaps
            BY <1>1, <3>1, Usages DEF BackupOnce
        <3>3. CASE user.backup = listed
            <4>1. ghost.uses[j] <= ghost.overlaps
                BY <1>1, <1>4, <3>3 DEF BackupOnce
            <4> QED
                BY <1>6, <2>1, <3>2, <4>1
        <3>4. CASE user.backup # listed
            BY <1>7, <2>1, <3>2, <3>4
        <3> QED
            BY <3>3, <3>4
    <2>3. ASSUME NEW j \in DOMAIN ghost.uses
          PROVE  new[j] <= 1 + g.overlaps
        <3>1. CASE j = k
            <4>1. ghost.uses[k] <= g.overlaps
                BY <2>2
            <4> QED
                BY <1>6, <1>8, <3>1, <4>1
        <3>2. CASE j # k
            <4>1. ghost.uses[j] \in Nat /\ ghost.uses[j] <= 1 + ghost.overlaps
                BY <1>1, Usages DEF BackupOnce
            <4> QED
                BY <1>6, <1>8, <2>1, <3>2, <4>1
        <3> QED
            BY <3>1, <3>2
    <2>4. \A j \in listed \ {k} : new[j] <= g.overlaps
        BY <1>4, <1>8, <2>2
    <2> QED
        BY <1>4, <1>8, <1>10, <1>12, <2>3, <2>4 DEF BackupOnce
<1>14. ghost'.wrong <= user'.failures + ghost'.lost
    BY <1>1, <1>4, <1>10, <1>12 DEF PasswordsCounted
<1>15. CallsSound' /\ call' \in [Browser -> {Idle} \cup Loaded]
    <2>1. /\ [op |-> "enter", second |-> FALSE] \in {Idle} \cup Loaded
          /\ [op |-> "enter", second |-> FALSE].op \notin {"verify", "reset", "second"}
        BY Endings
    <2> QED
        BY <1>1, <1>2, <1>8, <1>10, <1>12, <2>1, CallsMoved, Endings
<1>16. /\ \A c \in Browser : browser'[c].session \in {browser[c].session, 0}
       /\ browser' \in [Browser -> Cookie]
    BY <1>1, <1>2, Scalars
<1> QED
    BY <1>2, <1>10, <1>11, <1>12, <1>13, <1>14, <1>15, <1>16, AccountStep

LEMMA LoggedInKnown ==
    ASSUME TypeOK, SessionsCounted, Logins, NEW b \in Browser, LoggedIn(b)
    PROVE  /\ user # Absent /\ user \in User
           /\ browser[b].session # 0 =>
                 /\ browser[b].session \in DOMAIN sessions
                 /\ sessions[browser[b].session] \in {"active", "purged"}
<1>1. browser[b].session # 0 => browser[b].session \in DOMAIN sessions
    BY Rows DEF SessionsCounted
<1> QED
    BY <1>1, Rows, Scalars DEF Logins, LoggedIn, Stale

LEMMA FactorStep ==
    ASSUME IInv, Logins, NEW b \in Browser, SecondFactor(b)
    PROVE  IInv' /\ user' # Absent
<1> DEFINE n == Len(ghost.uses)
           new == ghost.uses \o Zeros(BackupCodes)
<1>1. TypeOK /\ CallsSound /\ PasswordsCounted /\ BackupOnce /\ SessionsCounted
    BY DEF IInv
<1>2. /\ codes' = codes /\ sessions' = sessions /\ clock' = clock
      /\ browser' = browser /\ call' = call /\ ghost.calls < MaxCalls /\ LoggedIn(b)
    BY DEF SecondFactor
<1>3. user # Absent /\ user \in User /\ user.failures \in Nat
    BY <1>1, <1>2, LoggedInKnown, Existing
<1>4. ghost.uses \in Seq(Nat) /\ n \in Nat /\ DOMAIN ghost.uses = 1 .. n /\ BackupCodes \in Nat
    BY <1>1, Counters, LenProperties, NumberAssumption
<1>5. /\ new \in Seq(Nat) /\ DOMAIN new = 1 .. n + BackupCodes
      /\ \A k \in 1 .. n : new[k] = ghost.uses[k]
      /\ \A k \in n + 1 .. n + BackupCodes : new[k] = 0
    <2> DEFINE z == Zeros(BackupCodes)
    <2>1. z \in Seq(Nat) /\ Len(z) = BackupCodes /\ \A k \in 1 .. BackupCodes : z[k] = 0
        <3>1. z \in [1 .. BackupCodes -> Nat] /\ \A k \in 1 .. BackupCodes : z[k] = 0
            BY DEF Zeros
        <3> HIDE DEF z
        <3> QED
            BY <1>4, <3>1
    <2> HIDE DEF z
    <2>2. /\ ghost.uses \o z \in Seq(Nat) /\ Len(ghost.uses \o z) = n + BackupCodes
          /\ \A k \in 1 .. n + BackupCodes :
                (ghost.uses \o z)[k] = IF k <= n THEN ghost.uses[k] ELSE z[k - n]
        BY ZenonT(40), <1>4, <2>1, ConcatProperties
    <2>3. DOMAIN (ghost.uses \o z) = 1 .. n + BackupCodes
        BY <2>2, LenProperties
    <2>4. \A k \in n + 1 .. n + BackupCodes : k - n \in 1 .. BackupCodes
        BY <1>4
    <2> QED
        BY <1>4, <2>1, <2>2, <2>3, <2>4 DEF z
<1>6. /\ Grows /\ ghost'.guesses = ghost.guesses /\ ghost'.resets = ghost.resets
      /\ ghost'.wrong = ghost.wrong /\ ghost'.lost = ghost.lost
      /\ ghost'.overlaps = ghost.overlaps
      /\ user' \in User /\ user'.failures = user.failures
      /\ \/ ghost'.uses = ghost.uses /\ user'.backup = {}
         \/ ghost'.uses = new /\ user'.backup = n + 1 .. n + BackupCodes
    <2>1. CASE /\ user' = [user EXCEPT !.totp = TRUE, !.backup = n + 1 .. n + BackupCodes]
               /\ ghost' = [ghost EXCEPT !.calls = @ + 1, !.uses = new]
        <3>1. n + 1 .. n + BackupCodes \in SUBSET Nat
            BY <1>4
        <3>2. /\ user' \in User /\ user'.failures = user.failures
              /\ user'.backup = n + 1 .. n + BackupCodes
            BY <1>3, <2>1, <3>1 DEF User
        <3> HIDE DEF new
        <3>3. ghost \in Ghost /\ 0 \in Nat /\ ghost.guesses \in Seq(Nat)
            BY <1>1, Counters
        <3>4. ghost' \in Ghost
            BY <1>2, <1>5, <2>1, <3>3, GhostWritten
        <3>5. /\ ghost'.guesses = ghost.guesses /\ ghost'.resets = ghost.resets
              /\ ghost'.wrong = ghost.wrong /\ ghost'.lost = ghost.lost
              /\ ghost'.overlaps = ghost.overlaps /\ ghost'.purges = ghost.purges
              /\ ghost'.uses = new
            BY <1>1, <2>1, Counters
        <3>6. Grows
            BY <1>1, <3>4, <3>5, Counters DEF Grows
        <3> QED
            BY <3>2, <3>5, <3>6
    <2>2. CASE /\ user' = [user EXCEPT !.totp = FALSE, !.backup = {}]
               /\ ghost' = [ghost EXCEPT !.calls = @ + 1]
        <3>1. user' \in User /\ user'.failures = user.failures /\ user'.backup = {}
            BY <1>3, <2>2 DEF User
        <3>2. /\ Grows /\ ghost'.guesses = ghost.guesses /\ ghost'.resets = ghost.resets
              /\ ghost'.uses = ghost.uses /\ ghost'.wrong = ghost.wrong
              /\ ghost'.lost = ghost.lost /\ ghost'.overlaps = ghost.overlaps
            BY <1>1, <1>2, <2>2, CallsCounted
        <3> QED
            BY <3>1, <3>2
    <2> QED
        BY <2>1, <2>2 DEF SecondFactor
<1> HIDE DEF new
<1>7. user' # Absent /\ DOMAIN ghost.uses \subseteq DOMAIN ghost'.uses
    BY SMTT(30), <1>4, <1>5, <1>6, Existing
<1>8. BackupOnce'
    <2>1. CASE ghost'.uses = ghost.uses /\ user'.backup = {}
        BY <1>1, <1>6, <2>1, BackupKept
    <2>2. CASE ghost'.uses = new /\ user'.backup = n + 1 .. n + BackupCodes
        <3>1. ghost.overlaps \in Nat
            BY <1>1, Counters
        <3>2. ASSUME NEW k \in 1 .. n + BackupCodes
              PROVE  new[k] <= 1 + ghost.overlaps
            <4>1. CASE k \in 1 .. n
                BY <1>1, <1>4, <1>5, <4>1 DEF BackupOnce
            <4>2. CASE k \in n + 1 .. n + BackupCodes
                BY <1>5, <3>1, <4>2
            <4> QED
                BY <1>4, <4>1, <4>2
        <3>3. \A k \in n + 1 .. n + BackupCodes : new[k] <= ghost.overlaps
            BY <1>5, <3>1
        <3>4. n + 1 .. n + BackupCodes \subseteq 1 .. n + BackupCodes
            BY <1>4
        <3> QED
            BY <1>5, <1>6, <2>2, <3>2, <3>3, <3>4 DEF BackupOnce
    <2> QED
        BY <1>6, <2>1, <2>2
<1>9. ghost'.wrong <= user'.failures + ghost'.lost
    BY <1>1, <1>3, <1>6 DEF PasswordsCounted
<1>10. CallsSound' /\ call' \in [Browser -> {Idle} \cup Loaded]
    <2>1. CallsSound'
        BY <1>1, <1>2, <1>7 DEF CallsSound
    <2> QED
        BY <1>1, <1>2, <2>1, Scalars
<1>11. /\ \A c \in Browser : browser'[c].session \in {browser[c].session, 0}
       /\ browser' \in [Browser -> Cookie]
    BY <1>1, <1>2, Scalars
<1> QED
    BY <1>2, <1>6, <1>8, <1>9, <1>10, <1>11, AccountStep

-----------------------------------------------------------------------------
(* The login sessions.                                                     *)
Status == {"active", "ended", "purged"}

(* A commit that writes the sessions and leaves the account and its codes. *)
LEMMA SessionStep ==
    ASSUME IInv, Grows, codes' = codes, user' = user, clock' = clock,
           ghost'.guesses = ghost.guesses, ghost'.resets = ghost.resets,
           ghost'.uses = ghost.uses, ghost'.wrong = ghost.wrong,
           sessions' \in Seq(Status), browser' \in [Browser -> Cookie],
           SessionsCounted', CallsSound', call' \in [Browser -> {Idle} \cup Loaded]
    PROVE  IInv'
<1>1. TypeOK /\ CodesCounted /\ OneOpen /\ PasswordsCounted /\ BackupOnce
    BY DEF IInv
<1>2. CodesCounted' /\ OneOpen' /\ PasswordsCounted' /\ BackupOnce'
    BY <1>1, CodesKept, PasswordsKept, BackupKept
<1>3. TypeOK'
    BY <1>1 DEF TypeOK, Grows, Ghost, Status
<1> QED
    BY <1>2, <1>3 DEF IInv

LEMMA Unchanging ==
    ASSUME TypeOK, ghost' = ghost
    PROVE  Grows
BY Counters DEF Grows

(* Fewer sessions are active, and none is purged.                          *)
LEMMA FewerActive ==
    ASSUME TypeOK, SessionsCounted, Grows, Active' \subseteq Active, Purged' \subseteq Purged
    PROVE  Cardinality(Active') <= 1 + ghost'.overlaps /\ Cardinality(Purged') <= ghost'.purges
<1>1. /\ Active' \in SUBSET Active /\ Purged' \in SUBSET Purged
      /\ IsFiniteSet(Active) /\ IsFiniteSet(Purged)
      /\ Cardinality(Active) \in Nat /\ Cardinality(Purged) \in Nat
    BY SessionSets
<1>2. /\ IsFiniteSet(Active') /\ Cardinality(Active') <= Cardinality(Active)
      /\ IsFiniteSet(Purged') /\ Cardinality(Purged') <= Cardinality(Purged)
    BY <1>1, FS_Subset
<1>3. Cardinality(Active') \in Nat /\ Cardinality(Purged') \in Nat
    BY <1>2, FS_CardinalityType
<1>4. Cardinality(Active) <= 1 + ghost.overlaps /\ Cardinality(Purged) <= ghost.purges
    BY DEF SessionsCounted
<1> QED
    BY <1>1, <1>2, <1>3, <1>4, Larger

LEMMA EnterStep ==
    ASSUME IInv, NEW b \in Browser, CommitEnter(b)
    PROVE  IInv'
<1> DEFINE n == Len(sessions) + 1
           old == call[b].old
<1>1. TypeOK /\ CallsSound /\ SessionsCounted
    BY DEF IInv
<1>2. /\ call[b].op = "entering" /\ sessions' = Append(EndOthers(old), "active")
      /\ call' = [call EXCEPT ![b] = Idle]
      /\ clock' = clock /\ user' = user /\ codes' = codes
      /\ ghost' = Overlapped(ghost, Active # old)
    BY DEF CommitEnter, Goto
<1>3. user # Absent
    BY <1>1, <1>2, Holds DEF CallsSound
<1>4. DOMAIN sessions = 1 .. Len(sessions) /\ Len(sessions) \in Nat
      /\ \A i \in DOMAIN sessions : sessions[i] \in Status
    BY <1>1, Rows DEF Status
<1>5. /\ EndOthers(old) \in Seq(Status) /\ Len(EndOthers(old)) = Len(sessions)
      /\ \A i \in DOMAIN sessions :
            EndOthers(old)[i] = IF i \in old THEN "ended" ELSE sessions[i]
    <2>1. EndOthers(old) \in [1 .. Len(sessions) -> Status]
        BY <1>4 DEF EndOthers, Status
    <2>2. EndOthers(old) \in Seq(Status) /\ Len(EndOthers(old)) = Len(sessions)
        BY <1>4, <2>1
    <2> QED
        BY <2>2 DEF EndOthers
<1>6. /\ sessions' \in Seq(Status) /\ Len(sessions') = n
      /\ DOMAIN sessions' = DOMAIN sessions \cup {n} /\ n \notin DOMAIN sessions
      /\ \A i \in DOMAIN sessions :
            sessions'[i] = IF i \in old THEN "ended" ELSE sessions[i]
      /\ sessions'[n] = "active"
    <2>1. "active" \in Status
        BY DEF Status
    <2>2. /\ sessions' \in Seq(Status) /\ Len(sessions') = n
          /\ \A i \in 1 .. Len(sessions) : sessions'[i] = EndOthers(old)[i]
          /\ sessions'[n] = "active"
        BY <1>2, <1>4, <1>5, <2>1, AppendProperties
    <2>3. DOMAIN sessions' = 1 .. n
        BY <2>2, LenProperties
    <2>4. DOMAIN sessions' = DOMAIN sessions \cup {n} /\ n \notin DOMAIN sessions
        BY <1>4, <2>3
    <2> QED
        BY <1>4, <1>5, <2>2, <2>4
<1>7. /\ Grows /\ ghost'.guesses = ghost.guesses /\ ghost'.resets = ghost.resets
      /\ ghost'.uses = ghost.uses /\ ghost'.wrong = ghost.wrong
    <2>1. ghost' = ghost \/ ghost' = [ghost EXCEPT !.overlaps = @ + 1]
        BY <1>2 DEF Overlapped
    <2> QED
        BY <1>1, <2>1, MayOverlap, Counters DEF Grows
<1>8. Active # old => ghost'.overlaps = ghost.overlaps + 1
    <2>1. Active # old => ghost' = [ghost EXCEPT !.overlaps = @ + 1]
        BY <1>2 DEF Overlapped
    <2> QED
        BY <1>1, <2>1, Counters
<1>9. /\ browser' \in [Browser -> Cookie]
      /\ \A c \in Browser : c # b => browser'[c].session = browser[c].session
      /\ browser'[b].session \in {browser[b].session, n}
    <2>1. browser \in [Browser -> Cookie] /\ n \in Nat
        BY <1>1, <1>4, Scalars
    <2>2. CASE browser' = browser
        BY <2>1, <2>2
    <2>3. CASE browser' = [browser EXCEPT ![b] = [browser[b] EXCEPT
                              !.login = TRUE, !.session = n, !.second = call[b].second]]
        <3>1. call[b].second \in BOOLEAN
            BY <1>1, <1>2, Holds
        <3> DEFINE k == [browser[b] EXCEPT !.login = TRUE, !.session = n, !.second = call[b].second]
        <3>2. k \in Cookie /\ k.session = n /\ browser' = [browser EXCEPT ![b] = k]
            BY <2>1, <2>3, <3>1 DEF Cookie
        <3> HIDE DEF k, n
        <3> QED
            BY <2>1, <3>2
    <2> QED
        BY <2>2, <2>3 DEF CommitEnter, Answer
<1>10. \A c \in Browser : browser'[c].session \in 0 .. Len(sessions')
    BY <1>1, <1>4, <1>6, <1>9 DEF SessionsCounted
<1>11. \A c, d \in Browser : c # d => browser'[c].session = 0
                                      \/ browser'[c].session # browser'[d].session
    <2>1. \A c \in Browser : browser[c].session \in 0 .. Len(sessions) /\ browser[c].session # n
        BY <1>1, <1>4 DEF SessionsCounted
    <2>2. \A c, d \in Browser : c # d => browser[c].session = 0
                                         \/ browser[c].session # browser[d].session
        BY <1>1 DEF SessionsCounted
    <2> HIDE DEF n
    <2> QED
        BY <1>9, <2>1, <2>2
<1>12. Purged' \subseteq Purged
    BY <1>6 DEF Purged
<1>13. \A i \in Active' : i = n \/ (i \in Active /\ i \notin old)
    BY <1>6 DEF Active
<1>14. Cardinality(Active') <= 1 + ghost'.overlaps
    <2>1. /\ IsFiniteSet(Active) /\ Cardinality(Active) \in Nat
          /\ Cardinality(Active) <= 1 + ghost.overlaps /\ ghost.overlaps \in Nat
        BY <1>1, SessionSets, Counters DEF SessionsCounted
    <2>2. CASE Active = old
        <3>1. Active' \in SUBSET {n}
            BY <1>13, <2>2
        <3>2. IsFiniteSet({n}) /\ Cardinality({n}) = 1
            BY FS_Singleton
        <3>3. IsFiniteSet(Active') /\ Cardinality(Active') <= 1 /\ Cardinality(Active') \in Nat
            BY <3>1, <3>2, FS_Subset, FS_CardinalityType
        <3> QED
            BY <1>1, <1>7, <3>3, Larger
    <2>3. CASE Active # old
        <3>1. Active' \in SUBSET (Active \cup {n})
            BY <1>13
        <3>2. n \notin Active
            BY <1>6 DEF Active
        <3>3. /\ IsFiniteSet(Active \cup {n})
              /\ Cardinality(Active \cup {n}) = Cardinality(Active) + 1
            BY <2>1, <3>2, FS_AddElement
        <3>4. /\ Cardinality(Active') <= Cardinality(Active \cup {n})
              /\ Cardinality(Active') \in Nat /\ Cardinality(Active \cup {n}) \in Nat
            BY <3>1, <3>3, FS_Subset, FS_CardinalityType
        <3> QED
            BY <1>8, <2>1, <2>3, <3>3, <3>4
    <2> QED
        BY <2>2, <2>3
<1>15. Cardinality(Purged') <= ghost'.purges
    <2>1. Purged' \in SUBSET Purged /\ IsFiniteSet(Purged) /\ Cardinality(Purged) \in Nat
          /\ Cardinality(Purged) <= ghost.purges
        BY <1>1, <1>12, SessionSets DEF SessionsCounted
    <2>2. IsFiniteSet(Purged') /\ Cardinality(Purged') <= Cardinality(Purged)
          /\ Cardinality(Purged') \in Nat
        BY <2>1, FS_Subset, FS_CardinalityType
    <2> QED
        BY <1>1, <1>7, <2>1, <2>2, Larger
<1>16. SessionsCounted'
    BY <1>2, <1>3, <1>10, <1>11, <1>14, <1>15 DEF SessionsCounted
<1>17. CallsSound' /\ call' \in [Browser -> {Idle} \cup Loaded]
    BY <1>1, <1>2, <1>7, CallsMoved, Endings
<1> QED
    BY <1>2, <1>6, <1>7, <1>9, <1>16, <1>17, SessionStep

LEMMA LogoutStep ==
    ASSUME IInv, Logins, NEW b \in Browser, Logout(b)
    PROVE  IInv'
<1> DEFINE s == browser[b].session
           k == [browser[b] EXCEPT !.login = FALSE, !.session = 0]
<1>1. TypeOK /\ CallsSound /\ SessionsCounted
    BY DEF IInv
<1>2. /\ sessions' = [i \in DOMAIN sessions |->
                         IF i = s /\ sessions[i] = "active" THEN "ended" ELSE sessions[i]]
      /\ browser' = [browser EXCEPT ![b] = k]
      /\ clock' = clock /\ user' = user /\ codes' = codes /\ call' = call /\ ghost' = ghost
      /\ LoggedIn(b)
    BY DEF Logout, SessionEnded
<1>3. user # Absent
    BY <1>1, <1>2, LoggedInKnown
<1>4. /\ DOMAIN sessions = 1 .. Len(sessions) /\ Len(sessions) \in Nat
      /\ \A i \in DOMAIN sessions : sessions[i] \in Status
    BY <1>1, Rows DEF Status
<1> HIDE DEF s
<1>5. sessions' \in Seq(Status) /\ Len(sessions') = Len(sessions)
    <2>1. sessions' \in [1 .. Len(sessions) -> Status]
        BY <1>2, <1>4 DEF Status
    <2> QED
        BY <1>4, <2>1
<1>6. Active' \subseteq Active /\ Purged' \subseteq Purged
    BY <1>2, <1>4 DEF Active, Purged
<1>7. Grows
    BY <1>1, <1>2, Unchanging
<1>8. /\ \A c \in Browser : browser'[c].session \in {browser[c].session, 0}
      /\ browser' \in [Browser -> Cookie]
    <2>1. browser \in [Browser -> Cookie]
        BY <1>1, Scalars
    <2>2. k \in Cookie /\ k.session = 0
        BY <2>1 DEF Cookie
    <2> HIDE DEF k
    <2> QED
        BY <1>2, <2>1, <2>2
<1>9. SessionsCounted'
    <2>1. /\ Cardinality(Active') <= 1 + ghost'.overlaps
          /\ Cardinality(Purged') <= ghost'.purges
        BY <1>1, <1>6, <1>7, FewerActive
    <2>2. \A c \in Browser : browser'[c].session \in 0 .. Len(sessions')
        BY <1>1, <1>4, <1>5, <1>8 DEF SessionsCounted
    <2>3. \A c, d \in Browser : c # d => browser'[c].session = 0
                                         \/ browser'[c].session # browser'[d].session
        BY <1>1, <1>8 DEF SessionsCounted
    <2> QED
        BY <1>2, <1>3, <2>1, <2>2, <2>3 DEF SessionsCounted
<1>10. CallsSound' /\ call' \in [Browser -> {Idle} \cup Loaded]
    BY <1>1, <1>2, Scalars DEF CallsSound
<1> QED
    BY <1>2, <1>5, <1>7, <1>8, <1>9, <1>10, SessionStep

LEMMA PurgeStep ==
    ASSUME IInv, PurgeSessions
    PROVE  IInv'
<1> DEFINE Ended == {i \in DOMAIN sessions : sessions[i] = "ended"}
<1>1. TypeOK /\ CallsSound /\ SessionsCounted
    BY DEF IInv
<1>2. /\ sessions' = [i \in DOMAIN sessions |->
                         IF sessions[i] = "ended" THEN "purged" ELSE sessions[i]]
      /\ ghost' = [ghost EXCEPT !.purges = @ + Cardinality(Ended)]
      /\ clock' = clock /\ user' = user /\ codes' = codes /\ call' = call /\ browser' = browser
      /\ Ended # {}
    BY DEF PurgeSessions
<1>3. user # Absent
    BY <1>1, <1>2 DEF SessionsCounted
<1>4. /\ DOMAIN sessions = 1 .. Len(sessions) /\ Len(sessions) \in Nat
      /\ \A i \in DOMAIN sessions : sessions[i] \in Status
    BY <1>1, Rows DEF Status
<1>5. sessions' \in Seq(Status) /\ Len(sessions') = Len(sessions)
    <2>1. sessions' \in [1 .. Len(sessions) -> Status]
        BY <1>2, <1>4 DEF Status
    <2> QED
        BY <1>4, <2>1
<1>6. Active' = Active /\ Purged' = Purged \cup Ended /\ Purged \cap Ended = {}
    BY <1>2, <1>4 DEF Active, Purged, Status
<1>7. IsFiniteSet(Ended) /\ Cardinality(Ended) \in Nat
    <2>1. Ended \in SUBSET DOMAIN sessions /\ IsFiniteSet(DOMAIN sessions)
        BY <1>1, SessionSets
    <2> HIDE DEF Ended
    <2> QED
        BY <2>1, FS_Subset, FS_CardinalityType
<1> HIDE DEF Ended
<1>8. /\ Grows /\ ghost'.guesses = ghost.guesses /\ ghost'.resets = ghost.resets
      /\ ghost'.uses = ghost.uses /\ ghost'.wrong = ghost.wrong
      /\ ghost'.overlaps = ghost.overlaps
      /\ ghost'.purges = ghost.purges + Cardinality(Ended)
    <2>1. /\ ghost \in Ghost /\ ghost.guesses \in Seq(Nat)
          /\ ghost.purges \in Nat /\ ghost.purges + Cardinality(Ended) \in Nat
        BY <1>1, <1>7, Counters
    <2>2. ghost' = [ghost EXCEPT !.purges = ghost.purges + Cardinality(Ended)]
        BY <1>2
    <2>3. ghost' \in Ghost
        BY <2>1, <2>2, GhostWritten
    <2>4. /\ ghost'.guesses = ghost.guesses /\ ghost'.resets = ghost.resets
          /\ ghost'.uses = ghost.uses /\ ghost'.wrong = ghost.wrong
          /\ ghost'.overlaps = ghost.overlaps /\ ghost'.lost = ghost.lost
          /\ ghost'.purges = ghost.purges + Cardinality(Ended)
        BY <1>1, <2>2, Counters
    <2> QED
        BY <1>1, <1>7, <2>1, <2>3, <2>4, Counters DEF Grows
<1>9. SessionsCounted'
    <2>1. /\ IsFiniteSet(Purged) /\ Cardinality(Purged) \in Nat
          /\ Cardinality(Purged) <= ghost.purges /\ ghost.purges \in Nat
        BY <1>1, SessionSets, Counters DEF SessionsCounted
    <2>2. Cardinality(Purged \cup Ended)
              = Cardinality(Purged) + Cardinality(Ended) - Cardinality(Purged \cap Ended)
        BY <1>7, <2>1, FS_Union
    <2>3. Cardinality(Purged \cap Ended) = 0
        BY <1>6, FS_EmptySet
    <2>4. Cardinality(Purged') <= ghost'.purges
        BY <1>6, <1>7, <1>8, <2>1, <2>2, <2>3
    <2>5. Cardinality(Active') <= 1 + ghost'.overlaps
        BY <1>1, <1>6, <1>8 DEF SessionsCounted
    <2> QED
        BY <1>1, <1>2, <1>3, <1>5, <2>4, <2>5 DEF SessionsCounted
<1>10. CallsSound' /\ call' \in [Browser -> {Idle} \cup Loaded]
    BY <1>1, <1>2, <1>8, Scalars DEF CallsSound
<1> QED
    BY <1>1, <1>2, <1>5, <1>8, <1>9, <1>10, Scalars, SessionStep

-----------------------------------------------------------------------------
(* The account as a whole.                                                 *)

LEMMA Start == Init => IInv
<1> SUFFICES ASSUME Init
             PROVE  IInv
    OBVIOUS
<1>1. /\ Horizon \in Nat /\ MaxCalls \in Nat /\ BackupCodes \in Nat
      /\ 0 \in 0 .. MaxFailures - 1
    BY NumberAssumption
<1>2. user \in User \cup {Absent}
    <2>1. 1 .. BackupCodes \in SUBSET Nat
        BY <1>1
    <2>2. [Fresh EXCEPT !.verified = TRUE, !.totp = TRUE, !.backup = 1 .. BackupCodes] \in User
        BY <1>1, <2>1 DEF Fresh, User
    <2> QED
        BY <2>2, NewAccount DEF Init
<1>3. Zeros(BackupCodes) \in Seq(Nat) /\ DOMAIN Zeros(BackupCodes) = 1 .. BackupCodes
      /\ \A k \in 1 .. BackupCodes : Zeros(BackupCodes)[k] = 0
    <2>1. Zeros(BackupCodes) \in [1 .. BackupCodes -> Nat]
        BY DEF Zeros
    <2> QED
        BY <1>1, <2>1 DEF Zeros
<1>4. /\ clock = 0 /\ codes = <<>> /\ sessions = <<>>
      /\ browser = [b \in Browser |-> NoCookie] /\ call = [b \in Browser |-> Idle]
      /\ ghost.overlaps = 0 /\ ghost.purges = 0 /\ ghost.wrong = 0 /\ ghost.lost = 0
      /\ ghost.guesses = <<>> /\ ghost.resets = <<>> /\ ghost.uses = Zeros(BackupCodes)
      /\ ghost = [calls |-> 0, overlaps |-> 0, lost |-> 0, purges |-> 0,
                  untracked |-> 0, wrong |-> 0,
                  guesses |-> <<>>, resets |-> <<>>, uses |-> Zeros(BackupCodes)]
    BY DEF Init
<1>5. TypeOK
    <2>1. browser \in [Browser -> Cookie]
        BY <1>4 DEF NoCookie, Cookie
    <2>2. call \in [Browser -> {Idle} \cup Loaded]
        BY <1>4
    <2>3. ghost \in Ghost
        BY <1>1, <1>3, <1>4 DEF Ghost
    <2> QED
        BY <1>1, <1>2, <1>4, <2>1, <2>2, <2>3 DEF TypeOK, Ghost
<1>6. CallsSound
    BY <1>4 DEF CallsSound, Idle
<1>7. CodesCounted
    BY <1>4 DEF CodesCounted
<1>8. OneOpen
    <2>1. \A p \in Purpose : Open(p) = {}
        BY <1>4 DEF Open, Newest
    <2>2. \A p \in Purpose : Cardinality(Open(p)) = 0
        BY <2>1, FS_EmptySet
    <2>3. \A p \in Purpose : Cardinality(Open(p)) <= 1 + ghost.overlaps
        BY <1>4, <2>2
    <2> QED
        BY <2>3 DEF OneOpen
<1>9. PasswordsCounted
    <2>1. user # Absent => user.failures \in Nat
        BY <1>2, Existing
    <2> QED
        BY <1>4, <2>1 DEF PasswordsCounted
<1>10. BackupOnce
    <2>1. user # Absent => user.backup \in {{}, 1 .. BackupCodes}
        BY NewAccount DEF Init, Fresh
    <2> DEFINE z == Zeros(BackupCodes)
    <2>2. ghost.uses = z /\ DOMAIN z = 1 .. BackupCodes /\ \A k \in 1 .. BackupCodes : z[k] = 0
        BY <1>3, <1>4
    <2> HIDE DEF z
    <2>3. \A k \in DOMAIN ghost.uses : ghost.uses[k] <= ghost.overlaps /\ ghost.uses[k] <= 1 + ghost.overlaps
        BY <1>4, <2>2
    <2>4. user # Absent => user.backup \subseteq DOMAIN ghost.uses
        BY <2>1, <2>2
    <2> QED
        BY <2>3, <2>4 DEF BackupOnce
<1>11. SessionsCounted
    <2>1. Active = {} /\ Purged = {} /\ Len(sessions) = 0
        BY <1>4 DEF Active, Purged
    <2>2. Cardinality({}) = 0
        BY FS_EmptySet
    <2>3. \A b \in Browser : browser[b].session = 0
        BY <1>4 DEF NoCookie
    <2> QED
        BY <1>4, <2>1, <2>2, <2>3 DEF SessionsCounted
<1> QED
    BY <1>5, <1>6, <1>7, <1>8, <1>9, <1>10, <1>11 DEF IInv

LEMMA NobodyYet == Init => Logins
<1> SUFFICES ASSUME Init
             PROVE  Logins
    OBVIOUS
<1>1. \A b \in Browser : ~browser[b].login
    BY DEF Init, NoCookie
<1>2. Untracked = {} /\ ghost.untracked = 0
    BY <1>1 DEF Untracked, Init
<1> QED
    BY <1>1, <1>2, FS_EmptySet DEF Logins

LEMMA Step ==
    ASSUME IInv, Logins, [Next]_vars
    PROVE  IInv' /\ (user' = user \/ user' # Absent)
<1>1. CASE UNCHANGED vars \/ Tick
    BY <1>1, QuietStep DEF Tick, vars
<1>2. CASE ToggleStatus
    BY <1>2, MarkStep
<1>3. CASE PurgeSessions
    BY <1>3, PurgeStep DEF PurgeSessions
<1>4. CASE ImportUser
    BY <1>4, ImportStep
<1>5. ASSUME NEW b \in Browser,
             \/ Register(b) \/ LoadIssue(b) \/ CommitIssue(b)
             \/ WrongCode(b) \/ RightCode(b) \/ MarkVerified(b)
             \/ LoadReset(b) \/ CommitReset(b)
             \/ LoadPassword(b) \/ WrongPassword(b) \/ RightPassword(b)
             \/ SsoLogin(b) \/ LoadSecond(b) \/ AuthenticatorCode(b) \/ BackupCode(b)
             \/ NoSecond(b) \/ LoadEnter(b) \/ CommitEnter(b) \/ EnterRefused(b)
             \/ Replaced(b) \/ Logout(b) \/ ClearCookies(b) \/ SecondFactor(b) \/ GiveUp(b)
             \/ AskForCode(b) \/ AskForReset(b) \/ StartOver(b)
             \/ \E p \in Purpose : LoadVerify(b, p)
      PROVE  IInv' /\ (user' = user \/ user' # Absent)
    <2>1. CASE \/ LoadIssue(b) \/ LoadReset(b) \/ LoadPassword(b) \/ LoadSecond(b)
               \/ AuthenticatorCode(b) \/ LoadEnter(b) \/ GiveUp(b)
               \/ EnterRefused(b) \/ NoSecond(b) \/ Replaced(b) \/ ClearCookies(b)
               \/ AskForCode(b) \/ AskForReset(b) \/ StartOver(b)
               \/ \E p \in Purpose : LoadVerify(b, p)
        <3>1. Quiet(b) \/ Leaving(b)
            BY <2>1 DEF Quiet, Leaving
        <3>2. TypeOK
            BY DEF IInv
        <3> QED
            BY <3>1, <3>2, QuietStep, QuietLeaves
    <2>2. CASE Register(b) \/ SsoLogin(b)
        BY <2>2, JoinStep
    <2>3. CASE CommitIssue(b)
        BY <2>3, IssueStep DEF CommitIssue
    <2>4. CASE WrongCode(b)
        BY <2>4, WrongCodeStep DEF WrongCode
    <2>5. CASE RightCode(b)
        BY <2>5, RightCodeStep DEF RightCode
    <2>6. CASE MarkVerified(b)
        BY <2>6, MarkStep
    <2>7. CASE CommitReset(b)
        BY <2>7, ResetStep
    <2>8. CASE WrongPassword(b) \/ RightPassword(b)
        BY <2>8, PasswordStep
    <2>9. CASE BackupCode(b)
        BY <2>9, BackupStep
    <2>10. CASE CommitEnter(b)
        BY <2>10, EnterStep DEF CommitEnter
    <2>11. CASE Logout(b)
        BY <2>11, LogoutStep DEF Logout
    <2>12. CASE SecondFactor(b)
        BY <2>12, FactorStep
    <2> QED
        BY <1>5, <2>1, <2>2, <2>3, <2>4, <2>5, <2>6, <2>7, <2>8, <2>9, <2>10, <2>11, <2>12
<1> QED
    BY <1>1, <1>2, <1>3, <1>4, <1>5 DEF Next

(* What can become of a cookie: the login and its session stay, or the     *)
(* login goes, or a login comes with a session of its own.                 *)
LEMMA LoginsKept ==
    ASSUME TypeOK, Logins, ghost'.untracked = ghost.untracked,
           user' = user \/ user' # Absent,
           NEW b \in Browser, NEW k \in Cookie,
           browser' \in {browser, [browser EXCEPT ![b] = k]},
           \/ k.login = browser[b].login /\ k.session = browser[b].session
           \/ ~k.login
           \/ k.session # 0 /\ user' # Absent
    PROVE  Logins'
<1>1. browser \in [Browser -> Cookie]
    BY Scalars
<1>2. Untracked' \in SUBSET Untracked
    BY <1>1 DEF Untracked
<1>3. user' = Absent => \A c \in Browser : ~browser'[c].login
    BY <1>1 DEF Logins
<1>4. IsFiniteSet(Untracked) /\ Cardinality(Untracked) <= ghost.untracked
      /\ ghost.untracked \in Nat
    BY Counters DEF Logins
<1>5. IsFiniteSet(Untracked') /\ Cardinality(Untracked') <= Cardinality(Untracked)
      /\ Cardinality(Untracked') \in Nat /\ Cardinality(Untracked) \in Nat
    BY <1>2, <1>4, FS_Subset, FS_CardinalityType
<1> QED
    BY <1>3, <1>4, <1>5 DEF Logins

LEMMA SameCookies ==
    ASSUME TypeOK, Logins, ghost'.untracked = ghost.untracked,
           user' = user \/ user' # Absent, browser' = browser
    PROVE  Logins'
BY DEF Logins, Untracked

(* A login without a session, which is counted.                            *)
LEMMA RefusedLogin ==
    ASSUME TypeOK, CallsSound, Logins, NEW b \in Browser, EnterRefused(b)
    PROVE  Logins'
<1> DEFINE n == IF browser[b].session = 0 THEN ghost.untracked + 1 ELSE ghost.untracked
           k == [browser[b] EXCEPT !.login = TRUE, !.second = call[b].second]
<1>1. /\ browser' = [browser EXCEPT ![b] = k] /\ user' = user
      /\ ghost' = [ghost EXCEPT !.untracked = n] /\ call[b].op \in {"enter", "entering"}
    BY DEF EnterRefused
<1>2. user # Absent
    BY <1>1, Holds DEF CallsSound
<1>3. browser \in [Browser -> Cookie] /\ k.login /\ k.session = browser[b].session
    BY Scalars DEF Cookie
<1>4. ghost'.untracked = n /\ ghost.untracked \in Nat
    BY <1>1, Counters
<1>5. IsFiniteSet(Untracked) /\ Cardinality(Untracked) <= ghost.untracked
      /\ Cardinality(Untracked) \in Nat
    BY FS_CardinalityType DEF Logins
<1> HIDE DEF k
<1>6. CASE browser[b].session = 0
    <2>1. Untracked' = Untracked \cup {b}
        BY <1>1, <1>3, <1>6 DEF Untracked
    <2>2. /\ IsFiniteSet(Untracked \cup {b})
          /\ Cardinality(Untracked \cup {b}) = Cardinality(Untracked)
             \/ Cardinality(Untracked \cup {b}) = Cardinality(Untracked) + 1
        BY <1>5, FS_AddElement
    <2> QED
        BY <1>1, <1>2, <1>4, <1>5, <1>6, <2>1, <2>2 DEF Logins
<1>7. CASE browser[b].session # 0
    <2>1. Untracked' = Untracked
        BY <1>1, <1>3, <1>7 DEF Untracked
    <2> QED
        BY <1>1, <1>2, <1>4, <1>5, <1>7, <2>1 DEF Logins
<1> QED
    BY <1>6, <1>7

LEMMA LoginStep ==
    ASSUME TypeOK, CallsSound, Logins, user' = user \/ user' # Absent, [Next]_vars
    PROVE  Logins'
<1>1. ghost \in Ghost /\ browser \in [Browser -> Cookie] /\ Len(sessions) \in Nat
    BY Counters, Scalars, Rows
<1>2. CASE UNCHANGED vars \/ Tick \/ ImportUser \/ ToggleStatus \/ PurgeSessions
    <2>1. browser' = browser /\ ghost'.untracked = ghost.untracked
        BY <1>1, <1>2 DEF vars, Tick, ImportUser, ToggleStatus, PurgeSessions, Ghost
    <2> QED
        BY <2>1, SameCookies
<1>3. ASSUME NEW b \in Browser,
             \/ Register(b) \/ LoadIssue(b) \/ WrongCode(b) \/ MarkVerified(b)
             \/ LoadReset(b) \/ LoadPassword(b) \/ WrongPassword(b)
             \/ LoadSecond(b) \/ AuthenticatorCode(b) \/ BackupCode(b)
             \/ LoadEnter(b) \/ SecondFactor(b) \/ GiveUp(b)
             \/ AskForCode(b) \/ AskForReset(b)
             \/ \E p \in Purpose : LoadVerify(b, p)
      PROVE  Logins'
    <2>1. browser' = browser
        BY <1>3 DEF Register, LoadIssue, WrongCode, MarkVerified, LoadReset, LoadPassword,
               WrongPassword, LoadSecond, AuthenticatorCode, BackupCode, LoadEnter,
               SecondFactor, GiveUp, AskForCode, AskForReset, LoadVerify, Begin
    <2>2. CASE LoadIssue(b) \/ MarkVerified(b) \/ AuthenticatorCode(b) \/ LoadEnter(b) \/ GiveUp(b)
        <3>1. ghost' = ghost
            BY <2>2 DEF LoadIssue, MarkVerified, AuthenticatorCode, LoadEnter, GiveUp
        <3> QED
            BY <2>1, <3>1, SameCookies
    <2>3. CASE \/ Register(b) \/ LoadReset(b) \/ LoadPassword(b) \/ LoadSecond(b)
               \/ SecondFactor(b) \/ AskForCode(b) \/ AskForReset(b)
               \/ \E p \in Purpose : LoadVerify(b, p)
        <3>1. ghost'.untracked = ghost.untracked
            BY <1>1, <2>3 DEF Register, LoadReset, LoadPassword, LoadSecond, SecondFactor,
                   AskForCode, AskForReset, LoadVerify, Begin, Ghost
        <3> QED
            BY <2>1, <3>1, SameCookies
    <2>4. CASE WrongCode(b) \/ WrongPassword(b) \/ BackupCode(b)
        <3>1. ghost'.untracked = ghost.untracked
            BY <1>1, <2>4 DEF WrongCode, WrongPassword, BackupCode, SetBack, Overlapped, Ghost
        <3> QED
            BY <2>1, <3>1, SameCookies
    <2> QED
        BY <1>3, <2>2, <2>3, <2>4
<1>4. ASSUME NEW b \in Browser,
             \/ CommitIssue(b) \/ RightCode(b) \/ CommitReset(b)
             \/ RightPassword(b) \/ SsoLogin(b) \/ NoSecond(b) \/ StartOver(b)
      PROVE  Logins'
    <2>1. ghost'.untracked = ghost.untracked
        BY <1>1, <1>4 DEF CommitIssue, RightCode, CommitReset, RightPassword, SsoLogin, NoSecond,
               StartOver, Overlapped, Ghost
    <2>2. \E k \in Cookie : /\ browser' \in {browser, [browser EXCEPT ![b] = k]}
                            /\ k.login = browser[b].login /\ k.session = browser[b].session
        <3>1. ASSUME NEW n \in Nat, browser' \in {browser, [browser EXCEPT ![b].code = n]}
              PROVE  \E k \in Cookie : /\ browser' \in {browser, [browser EXCEPT ![b] = k]}
                                       /\ k.login = browser[b].login
                                       /\ k.session = browser[b].session
            <4> DEFINE k == [browser[b] EXCEPT !.code = n]
            <4>1. /\ k \in Cookie /\ k.login = browser[b].login /\ k.session = browser[b].session
                  /\ browser' \in {browser, [browser EXCEPT ![b] = k]}
                BY <1>1, <3>1 DEF Cookie
            <4> QED
                BY <4>1
        <3>2. ASSUME NEW x \in BOOLEAN, browser' \in {browser, [browser EXCEPT ![b].second = x]}
              PROVE  \E k \in Cookie : /\ browser' \in {browser, [browser EXCEPT ![b] = k]}
                                       /\ k.login = browser[b].login
                                       /\ k.session = browser[b].session
            <4> DEFINE k == [browser[b] EXCEPT !.second = x]
            <4>1. /\ k \in Cookie /\ k.login = browser[b].login /\ k.session = browser[b].session
                  /\ browser' \in {browser, [browser EXCEPT ![b] = k]}
                BY <1>1, <3>2 DEF Cookie
            <4> QED
                BY <4>1
        <3>3. CASE CommitIssue(b) \/ CommitReset(b) \/ StartOver(b)
            <4>1. 0 \in Nat /\ browser' \in {browser, [browser EXCEPT ![b].code = 0]}
                BY <3>3 DEF CommitIssue, CommitReset, StartOver, Answer
            <4> QED
                BY <3>1, <4>1
        <3>4. CASE RightCode(b)
            <4>1. call[b].code \in Nat /\ browser' \in {browser, [browser EXCEPT ![b].code = call[b].code]}
                BY <3>4, Holds DEF RightCode
            <4> QED
                BY <3>1, <4>1
        <3>5. CASE RightPassword(b) \/ SsoLogin(b) \/ NoSecond(b)
            <4>1. \E x \in BOOLEAN : browser' \in {browser, [browser EXCEPT ![b].second = x]}
                BY <3>5 DEF RightPassword, SsoLogin, NoSecond, Vouched, Answer
            <4> QED
                BY <3>2, <4>1
        <3> QED
            BY <1>4, <3>3, <3>4, <3>5
    <2> QED
        BY <2>1, <2>2, LoginsKept
<1>5. ASSUME NEW b \in Browser, Replaced(b) \/ Logout(b) \/ ClearCookies(b)
      PROVE  Logins'
    <2>1. ghost' = ghost
        BY <1>5 DEF Replaced, Logout, ClearCookies
    <2>2. \E k \in Cookie : browser' \in {browser, [browser EXCEPT ![b] = k]} /\ ~k.login
        <3> DEFINE out == [browser[b] EXCEPT !.login = FALSE, !.session = 0]
        <3>1. out \in Cookie /\ ~out.login /\ NoCookie \in Cookie /\ ~NoCookie.login
            BY <1>1 DEF Cookie, NoCookie
        <3>2. browser' \in {[browser EXCEPT ![b] = out], [browser EXCEPT ![b] = NoCookie]}
            BY <1>5 DEF Replaced, Logout, ClearCookies
        <3> QED
            BY <3>1, <3>2
    <2> QED
        BY <2>1, <2>2, LoginsKept
<1>6. ASSUME NEW b \in Browser, CommitEnter(b)
      PROVE  Logins'
    <2> DEFINE k == [browser[b] EXCEPT !.login = TRUE, !.session = Len(sessions) + 1,
                                       !.second = call[b].second]
    <2>1. /\ call[b].op = "entering" /\ user' = user
          /\ browser' \in {browser, [browser EXCEPT ![b] = k]}
        BY <1>6 DEF CommitEnter, Answer
    <2>2. user # Absent /\ call[b].second \in BOOLEAN
        BY <2>1, Holds DEF CallsSound
    <2>3. k \in Cookie /\ k.session # 0
        <3>1. Len(sessions) + 1 \in Nat /\ Len(sessions) + 1 # 0
            BY <1>1
        <3>2. browser[b] \in Cookie
            BY <1>1
        <3> QED
            BY <2>2, <3>1, <3>2 DEF Cookie
    <2>4. ghost'.untracked = ghost.untracked
        BY <1>1, <1>6 DEF CommitEnter, Overlapped, Ghost
    <2> HIDE DEF k
    <2> QED
        BY <2>1, <2>2, <2>3, <2>4, LoginsKept
<1> QED
    BY <1>2, <1>3, <1>4, <1>5, <1>6, RefusedLogin DEF Next

(* The counters of guesses, codes, backup codes and sessions and what the  *)
(* requests in progress have loaded agree with what has happened, but for  *)
(* the commits that overlapped and the counts that were lost; the logins   *)
(* without a session are those whose session could not be stored.          *)
THEOREM Invariance == Spec => [](IInv /\ Logins)
<1>1. Init => IInv /\ Logins
    BY Start, NobodyYet
<1>2. IInv /\ Logins /\ [Next]_vars => (IInv /\ Logins)'
    <2> SUFFICES ASSUME IInv, Logins, [Next]_vars
                 PROVE  IInv' /\ Logins'
        OBVIOUS
    <2>1. IInv' /\ (user' = user \/ user' # Absent) /\ TypeOK /\ CallsSound
        BY Step DEF IInv
    <2> QED
        BY <2>1, LoginStep
<1> QED
    BY <1>1, <1>2, PTL DEF Spec

(* Every row, cookie and request in progress has its type.                 *)
THEOREM TypeCorrect == Spec => []TypeOK
<1>1. IInv => TypeOK
    BY DEF IInv
<1> QED
    BY <1>1, Invariance, PTL

(* Wrong guesses are limited by OTP_MAX_ATTEMPTS and wrong passwords by    *)
(* the lock, but for those a stale counter no longer counts (verify_otp,   *)
(* login).                                                                 *)
THEOREM Guessing == Spec => []GuessesAreCounted
<1>1. ASSUME IInv
      PROVE  GuessesAreCounted
    <2>1. TypeOK /\ CodesCounted /\ PasswordsCounted
        BY <1>1 DEF IInv
    <2>2. ASSUME NEW i \in DOMAIN codes
          PROVE  ghost.guesses[i] <= MaxTries + ghost.lost
        <3>1. /\ ghost.guesses[i] \in Nat /\ codes[i].tries \in Nat
              /\ codes[i].tries <= MaxTries /\ ghost.guesses[i] <= codes[i].tries + ghost.lost
            BY <2>1, CodeNumbers
        <3>2. ghost.lost \in Nat /\ MaxTries \in Nat
            BY <2>1, Counters, NumberAssumption
        <3> QED
            BY <3>1, <3>2
    <2> QED
        BY <2>1, <2>2 DEF GuessesAreCounted, PasswordsCounted
<1> QED
    BY <1>1, Invariance, PTL

(* One code of a purpose is open, a code sets one password and a backup    *)
(* code logs in once; every further one takes an overlapping commit        *)
(* (issue_otp, reset_password, consume_backup_code).                       *)
THEOREM SingleUse == Spec => []CodesWorkOnce
<1>1. ASSUME IInv
      PROVE  CodesWorkOnce
    <2>1. TypeOK /\ CodesCounted /\ OneOpen /\ BackupOnce
        BY <1>1 DEF IInv
    <2>2. ASSUME NEW i \in DOMAIN codes
          PROVE  ghost.resets[i] <= 1 + ghost.overlaps
        <3>1. /\ ghost.resets[i] \in Nat
              /\ ghost.resets[i] <= (IF codes[i].redeemed THEN 1 ELSE 0) + ghost.overlaps
            BY <2>1, CodeNumbers
        <3>2. ghost.overlaps \in Nat
            BY <2>1, Counters
        <3> QED
            BY <3>1, <3>2
    <2> QED
        BY <2>1, <2>2 DEF CodesWorkOnce, OneOpen, BackupOnce
<1> QED
    BY <1>1, Invariance, PTL

(* At most one browser is logged in, but for the logins that overlapped,   *)
(* the ended sessions that retention deleted and the logins whose session  *)
(* could not be stored (register_login, enforce_single_session,            *)
(* _purge_login_sessions): the sessions of the other browsers that are     *)
(* logged in are different ones, active or purged.                         *)
THEOREM SingleSession == Spec => []OneUsableSession
<1>1. ASSUME IInv, Logins
      PROVE  OneUsableSession
    <2> DEFINE S == {b \in Browser : LoggedIn(b) /\ browser[b].session # 0}
               T == Active \cup Purged
               f == [b \in S |-> browser[b].session]
               A == {b \in Browser : LoggedIn(b)}
    <2>1. TypeOK /\ SessionsCounted
        BY <1>1 DEF IInv
    <2>2. \A b \in S : browser[b].session \in T
        BY <1>1, <2>1, LoggedInKnown DEF Active, Purged
    <2>3. f \in Injection(S, T)
        <3>1. f \in [S -> T]
            BY <2>2
        <3>2. \A a, b \in S : f[a] = f[b] => a = b
            BY <2>1 DEF SessionsCounted
        <3> HIDE DEF f, S, T
        <3> QED
            BY <3>1, <3>2 DEF Injection, IsInjective
    <2>4. /\ IsFiniteSet(Active) /\ Cardinality(Active) \in Nat
          /\ IsFiniteSet(Purged) /\ Cardinality(Purged) \in Nat
          /\ Cardinality(Active) <= 1 + ghost.overlaps /\ Cardinality(Purged) <= ghost.purges
          /\ ghost.overlaps \in Nat /\ ghost.purges \in Nat
        BY <2>1, SessionSets, Counters DEF SessionsCounted
    <2>5. /\ IsFiniteSet(T)
          /\ Cardinality(T) = Cardinality(Active) + Cardinality(Purged) - Cardinality(Active \cap Purged)
          /\ Cardinality(Active \cap Purged) = 0
        <3>1. Active \cap Purged = {}
            BY DEF Active, Purged
        <3>2. /\ IsFiniteSet(T)
              /\ Cardinality(T) = Cardinality(Active) + Cardinality(Purged)
                                  - Cardinality(Active \cap Purged)
            BY <2>4, FS_Union
        <3> QED
            BY <3>1, <3>2, FS_EmptySet
    <2>6. A \in SUBSET (S \cup Untracked)
        BY DEF Untracked, LoggedIn
    <2> HIDE DEF S, T, f, A
    <2>7. IsFiniteSet(S) /\ Cardinality(S) <= Cardinality(T) /\ Cardinality(S) \in Nat
        <3>1. IsFiniteSet(S) /\ Cardinality(S) <= Cardinality(T)
            BY <2>3, <2>5, FS_Injection
        <3> QED
            BY <3>1, FS_CardinalityType
    <2>8. /\ IsFiniteSet(Untracked) /\ Cardinality(Untracked) <= ghost.untracked
          /\ Cardinality(Untracked) \in Nat /\ ghost.untracked \in Nat
        BY <1>1, <2>1, Counters, FS_CardinalityType DEF Logins
    <2>9. /\ IsFiniteSet(S \cup Untracked) /\ Cardinality(S \cup Untracked) \in Nat
          /\ Cardinality(S \cup Untracked) <= Cardinality(S) + Cardinality(Untracked)
        <3>1. /\ IsFiniteSet(S \cup Untracked)
              /\ Cardinality(S \cup Untracked)
                     = Cardinality(S) + Cardinality(Untracked) - Cardinality(S \cap Untracked)
            BY <2>7, <2>8, FS_Union
        <3>2. Cardinality(S \cap Untracked) \in Nat
            BY <2>7, FS_Intersection, FS_CardinalityType
        <3> QED
            BY <2>7, <2>8, <3>1, <3>2, FS_CardinalityType
    <2>10. Cardinality(A) <= Cardinality(S \cup Untracked) /\ Cardinality(A) \in Nat
        BY <2>6, <2>9, FS_Subset, FS_CardinalityType
    <2>11. Cardinality(A) <= 1 + ghost.overlaps + ghost.purges + ghost.untracked
        BY <2>4, <2>5, <2>7, <2>8, <2>9, <2>10
    <2> QED
        BY <2>11 DEF OneUsableSession, A
<1> QED
    BY <1>1, Invariance, PTL

=============================================================================
