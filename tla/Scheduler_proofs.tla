-------------------------- MODULE Scheduler_proofs -------------------------
(***************************************************************************)
(* Theorems about the scheduler process: the sweeps that send reminders    *)
(* (Reminders), and after them the lease that lets one process run a job   *)
(* (JobLease).                                                             *)
(*                                                                         *)
(* The claim keeps the promise: for every set of sweepers and students,    *)
(* and any number of crashes and faults.                                   *)
(***************************************************************************)
EXTENDS JobLease, Reminders, FiniteSetTheorems, TLAPS

Busy(p) == at[p] \in {"checked", "claimed", "sent", "noted", "raising"}

(* Who works on a student holds the student's claim, alone.                *)
OwnersHoldClaims ==
    \A p \in Sweeper :
        /\ Busy(p) => current[p] \in Student
        /\ Working(p) => current[p] \in claims

(* Until the first late fault a mailed student stays claimed, and nobody   *)
(* about to send, or to give the claim back, works on one.                 *)
MailedStaysClaimed ==
    lateFaults = 0 =>
        /\ \A s \in Student : mail[s] > 0 => s \in claims
        /\ \A p \in Sweeper : at[p] \in {"claimed", "raising"} => mail[current[p]] = 0

IInv ==
    /\ TypeOK
    /\ OwnersHoldClaims
    /\ OneOwner
    /\ MailedStaysClaimed

----------------------------------------------------------------------------

LEMMA InitInvariant == Init => IInv
  BY DEF Init, IInv, TypeOK, Stages, Statuses, OwnersHoldClaims, Busy, Working,
         OneOwner, MailedStaysClaimed

(* A sweeper that lets go of its student, by going on or by stopping.      *)
LEMMA LettingGo ==
    ASSUME IInv, NEW p \in Sweeper,
           Stop(p) \/ (\E s \in Student \cup {Nobody} : Advance(p, s)),
           claims' = claims \/ (at[p] = "raising" /\ claims' = Released(p)),
           UNCHANGED <<log, mail, lateFaults>>, started' \subseteq Student,
           earlyFaults' \in Nat, faults' \in Nat, crashes' \in Nat
    PROVE  IInv'
<1>1. at' = [at EXCEPT ![p] = "idle"] \/ at' = [at EXCEPT ![p] = "looping"]
  BY DEF Stop, Advance, GoTo
<1>2. /\ current' = [current EXCEPT ![p] = Nobody]
      /\ outcome' = [outcome EXCEPT ![p] = "none"]
      /\ todo' \in [Sweeper -> SUBSET Student]
  BY DEF Stop, Advance, IInv, TypeOK
<1>3. TypeOK'
  BY <1>1, <1>2 DEF IInv, TypeOK, Stages, Statuses, Released
<1>4. \A q \in Sweeper : q # p => at'[q] = at[q] /\ current'[q] = current[q]
  BY <1>1, <1>2 DEF IInv, TypeOK
<1>5. ~Busy(p)' /\ ~Working(p)' /\ at'[p] \notin {"claimed", "raising"}
  BY <1>1 DEF IInv, TypeOK, Busy, Working
<1>6. \A q \in Sweeper : q # p /\ Working(q) => current[q] \in claims'
  BY DEF IInv, OwnersHoldClaims, OneOwner, Working, Released
<1>7. OwnersHoldClaims'
  BY <1>4, <1>5, <1>6 DEF IInv, OwnersHoldClaims, Busy, Working
<1>8. OneOwner'
  BY <1>4, <1>5 DEF IInv, OneOwner, Working
<1>9. MailedStaysClaimed'
  BY <1>4, <1>5 DEF IInv, TypeOK, MailedStaysClaimed, Released
<1> QED
  BY <1>3, <1>7, <1>8, <1>9 DEF IInv

(* A step that leaves a sweeper at its student: the four that neither      *)
(* claim nor mail.                                                         *)
LEMMA WorkingOn ==
    ASSUME IInv, NEW p \in Sweeper, NEW stage,
           \/ at[p] = "sent" /\ stage = "noted"
           \/ at[p] = "noted" /\ stage = "raising" /\ lateFaults' > 0
           \/ at[p] = "claimed" /\ stage = "raising",
           GoTo(p, stage), UNCHANGED <<started, claims, mail, current, todo, outcome>>,
           log' \in [Student -> Statuses], lateFaults' \in Nat,
           lateFaults' >= lateFaults, earlyFaults' \in Nat, faults' \in Nat,
           crashes' \in Nat
    PROVE  IInv'
<1>1. TypeOK'
  BY DEF IInv, TypeOK, GoTo, Stages
<1>2. OwnersHoldClaims' /\ OneOwner'
  BY DEF IInv, TypeOK, OwnersHoldClaims, OneOwner, Busy, Working, GoTo
<1>3. MailedStaysClaimed'
  BY DEF IInv, TypeOK, MailedStaysClaimed, GoTo
<1> QED
  BY <1>1, <1>2, <1>3 DEF IInv

LEMMA BeginSweepPreserves == ASSUME IInv, NEW p \in Sweeper, BeginSweep(p) PROVE IInv'
<1>1. TypeOK'
  BY DEF IInv, TypeOK, BeginSweep, GoTo, Stages, mishaps
<1>2. OwnersHoldClaims' /\ OneOwner' /\ MailedStaysClaimed'
  BY DEF IInv, TypeOK, OwnersHoldClaims, OneOwner, MailedStaysClaimed, Busy, Working,
         BeginSweep, GoTo, mishaps
<1> QED
  BY <1>1, <1>2 DEF IInv

LEMMA CheckPreserves ==
    ASSUME IInv, NEW p \in Sweeper, NEW s \in Student, Check(p, s)
    PROVE  IInv'
<1>1. TypeOK'
  BY DEF IInv, TypeOK, Check, GoTo, Stages, mishaps
<1>2. OwnersHoldClaims' /\ OneOwner' /\ MailedStaysClaimed'
  BY DEF IInv, TypeOK, OwnersHoldClaims, OneOwner, MailedStaysClaimed, Busy, Working,
         Check, GoTo, mishaps
<1> QED
  BY <1>1, <1>2 DEF IInv

LEMMA ClaimPreserves == ASSUME IInv, NEW p \in Sweeper, Claim(p) PROVE IInv'
<1>1. current[p] \in Student /\ current[p] \notin claims
  BY DEF IInv, OwnersHoldClaims, Busy, Claim, ClaimFree
<1>2. TypeOK'
  BY <1>1 DEF IInv, TypeOK, Claim, GoTo, Stages, mishaps
<1>3. OwnersHoldClaims' /\ OneOwner'
  BY <1>1 DEF IInv, TypeOK, OwnersHoldClaims, OneOwner, Busy, Working, Claim, GoTo
<1>4. lateFaults = 0 => mail[current[p]] = 0
  BY <1>1 DEF IInv, TypeOK, MailedStaysClaimed
<1>5. MailedStaysClaimed'
  BY <1>1, <1>4 DEF IInv, TypeOK, MailedStaysClaimed, Claim, GoTo, mishaps
<1> QED
  BY <1>2, <1>3, <1>5 DEF IInv

LEMMA SendPreserves ==
    ASSUME IInv, NEW p \in Sweeper, NEW status \in Statuses, NEW delivered \in {0, 1},
           SendEmail(p, status, delivered)
    PROVE  IInv'
<1>1. current[p] \in Student /\ current[p] \in claims
  BY DEF IInv, OwnersHoldClaims, Busy, Working, SendEmail
<1>2. TypeOK'
  BY <1>1 DEF IInv, TypeOK, SendEmail, GoTo, Stages, mishaps
<1>3. OwnersHoldClaims' /\ OneOwner'
  BY DEF IInv, TypeOK, OwnersHoldClaims, OneOwner, Busy, Working, SendEmail, GoTo
<1>4. \A q \in Sweeper : q # p /\ at[q] \in {"claimed", "raising"} => current[q] # current[p]
  BY DEF IInv, OneOwner, Working, SendEmail
<1>5. MailedStaysClaimed'
  BY <1>1, <1>4 DEF IInv, TypeOK, OwnersHoldClaims, Busy, MailedStaysClaimed,
                    SendEmail, GoTo, mishaps
<1> QED
  BY <1>2, <1>3, <1>5 DEF IInv

LEMMA SendIsSendEmail ==
    ASSUME NEW p \in Sweeper, Send(p)
    PROVE  \E status \in Statuses, delivered \in {0, 1} : SendEmail(p, status, delivered)
  BY DEF Send, Statuses

LEMMA StepInvariant == IInv /\ [Next]_vars => IInv'
<1> SUFFICES ASSUME IInv, [Next]_vars
             PROVE  IInv'
  OBVIOUS
<1>1. CASE UNCHANGED vars
  BY <1>1 DEF IInv, TypeOK, OwnersHoldClaims, OneOwner, MailedStaysClaimed, Busy,
              Working, vars, work, mishaps
<1>2. ASSUME NEW s \in Student, StartsExam(s)
      PROVE  IInv'
  BY <1>2 DEF IInv, TypeOK, OwnersHoldClaims, OneOwner, MailedStaysClaimed, Busy,
              Working, StartsExam, work, mishaps
<1>3. ASSUME NEW p \in Sweeper, BeginSweep(p)
      PROVE  IInv'
  BY <1>3, BeginSweepPreserves
<1>4. ASSUME NEW p \in Sweeper, NEW s \in Student, Check(p, s)
      PROVE  IInv'
  BY <1>4, CheckPreserves
<1>5. ASSUME NEW p \in Sweeper, Claim(p)
      PROVE  IInv'
  BY <1>5, ClaimPreserves
<1>6. ASSUME NEW p \in Sweeper, Send(p)
      PROVE  IInv'
  BY <1>6, SendIsSendEmail, SendPreserves
<1>7. ASSUME NEW p \in Sweeper, NEW s \in Student, PassOver(p, s)
      PROVE  IInv'
  BY <1>7, LettingGo DEF PassOver, mishaps, IInv, TypeOK
<1>8. ASSUME NEW p \in Sweeper, LoseClaim(p) \/ Proceed(p)
      PROVE  IInv'
  <2>1. current[p] \in Student
    BY <1>8 DEF IInv, OwnersHoldClaims, Busy, LoseClaim, Proceed
  <2> QED
    BY <1>8, <2>1, LettingGo DEF LoseClaim, Proceed, mishaps, IInv, TypeOK
<1>9. ASSUME NEW p \in Sweeper, Release(p) \/ ReleaseFails(p) \/ EndSweep(p) \/ Crash(p)
      PROVE  IInv'
  BY <1>9, LettingGo DEF Release, ReleaseFails, EndSweep, Crash, Fault, mishaps, IInv, TypeOK
<1>10. ASSUME NEW p \in Sweeper, RaiseBeforeSending(p) \/ LoseLog(p)
       PROVE  IInv'
  BY <1>10, WorkingOn DEF RaiseBeforeSending, LoseLog, Fault, mishaps, IInv, TypeOK
<1>11. ASSUME NEW p \in Sweeper, RaiseAfterSending(p)
       PROVE  IInv'
  BY <1>11, WorkingOn DEF RaiseAfterSending, mishaps, IInv, TypeOK
<1>12. ASSUME NEW p \in Sweeper, WriteLog(p)
       PROVE  IInv'
  <2>1. log' \in [Student -> Statuses]
    BY <1>12 DEF WriteLog, IInv, TypeOK
  <2>2. lateFaults' \in Nat /\ earlyFaults' \in Nat /\ faults' \in Nat /\ crashes' \in Nat
    BY <1>12 DEF WriteLog, mishaps, IInv, TypeOK
  <2>3. at[p] = "sent" /\ GoTo(p, "noted") /\ lateFaults' = lateFaults
    BY <1>12 DEF WriteLog, mishaps
  <2>4. UNCHANGED <<started, claims, mail, current, todo, outcome>>
    BY <1>12 DEF WriteLog
  <2> QED
    BY <2>1, <2>2, <2>3, <2>4, WorkingOn
<1> QED
  BY <1>1, <1>2, <1>3, <1>4, <1>5, <1>6, <1>7, <1>8, <1>9, <1>10, <1>11, <1>12
     DEF Next, Run

(* At all times: who works on a student owns the claim, alone, and a       *)
(* student who was mailed stays claimed until the first late fault.        *)
THEOREM Invariance == Spec => []IInv
  BY InitInvariant, StepInvariant, PTL DEF Spec

----------------------------------------------------------------------------

(* The tables and the sweepers keep their types.                           *)
THEOREM TypeCorrect == Spec => []TypeOK
<1>1. IInv => TypeOK
  BY DEF IInv
<1> QED
  BY <1>1, Invariance, PTL

(* No two sweepers ever work on the same claimed student.                  *)
THEOREM ExclusiveClaims == Spec => []OneOwner
<1>1. IInv => OneOwner
  BY DEF IInv
<1> QED
  BY <1>1, Invariance, PTL

(* Every step of the sweeps is a step the promise allows.                  *)
LEMMA StepKeepsPromise ==
    IInv /\ [Next]_vars => [Promise!Next]_<<mail, lateFaults>>
<1> SUFFICES ASSUME IInv, Next
             PROVE  Promise!Next \/ UNCHANGED <<mail, lateFaults>>
  BY DEF vars, mishaps
<1>1. ASSUME NEW p \in Sweeper, Send(p)
      PROVE  Promise!Next \/ UNCHANGED <<mail, lateFaults>>
  <2>1. PICK status \in Statuses, delivered \in {0, 1} : SendEmail(p, status, delivered)
    BY <1>1, SendIsSendEmail
  <2>2. current[p] \in Student /\ (mail[current[p]] = 0 \/ lateFaults > 0)
    BY <2>1 DEF IInv, TypeOK, OwnersHoldClaims, Busy, MailedStaysClaimed, SendEmail
  <2>3. CASE delivered = 0
    BY <2>1, <2>2, <2>3 DEF SendEmail, mishaps, IInv, TypeOK
  <2>4. CASE delivered = 1
    BY <2>1, <2>2, <2>4 DEF SendEmail, mishaps, Promise!Next, Promise!Deliver
  <2> QED
    BY <2>3, <2>4
<1>2. ASSUME NEW p \in Sweeper, RaiseAfterSending(p)
      PROVE  Promise!Next
  BY <1>2 DEF RaiseAfterSending, Promise!Next, Promise!LateFault
<1>3. ASSUME NEW p \in Sweeper,
             \/ RaiseBeforeSending(p) \/ LoseLog(p) \/ ReleaseFails(p) \/ Crash(p)
             \/ BeginSweep(p) \/ Claim(p) \/ LoseClaim(p) \/ WriteLog(p) \/ Proceed(p)
             \/ Release(p) \/ EndSweep(p)
             \/ \E s \in Student : PassOver(p, s) \/ Check(p, s)
      PROVE  UNCHANGED <<mail, lateFaults>>
  BY <1>3 DEF RaiseBeforeSending, LoseLog, ReleaseFails, Crash, BeginSweep, Claim,
              LoseClaim, WriteLog, Proceed, Release, EndSweep, PassOver, Check,
              Fault, mishaps
<1>4. ASSUME NEW s \in Student, StartsExam(s)
      PROVE  UNCHANGED <<mail, lateFaults>>
  BY <1>4 DEF StartsExam, mishaps
<1> QED
  BY <1>1, <1>2, <1>3, <1>4 DEF Next, Run

(* The sweeps implement the promise: one mail per student until an         *)
(* exception after a delivery makes a sweep take its claim back.           *)
THEOREM Implementation == Spec => PromiseKept
<1>1. Init => Promise!Init
  BY DEF Init, Promise!Init
<1> QED
  BY <1>1, Invariance, StepKeepsPromise, PTL DEF Spec, PromiseKept, Promise!Spec

----------------------------------------------------------------------------

(* Claims that nothing came of, and that nobody will give back or log: the *)
(* orphans, and those whose log entry has just been lost.                  *)
Loose ==
    {s \in claims : /\ mail[s] = 0 /\ log[s] = "none"
                    /\ \A p \in Sweeper : Working(p) /\ current[p] = s => at[p] = "noted"}

FewLoose == IsFiniteSet(Loose) /\ Cardinality(Loose) <= crashes + faults

Outcomes == \A p \in Sweeper : at[p] = "sent" => outcome[p] # "none"

LInv == IInv /\ Outcomes /\ FewLoose

LEMMA OutcomesKept == IInv /\ Outcomes /\ [Next]_vars => Outcomes'
<1> SUFFICES ASSUME IInv, Outcomes, [Next]_vars PROVE Outcomes'
  OBVIOUS
<1>1. ASSUME NEW p \in Sweeper, NEW status \in Statuses \ {"none"}, NEW n \in {0, 1},
             SendEmail(p, status, n)
      PROVE  Outcomes'
  BY <1>1 DEF SendEmail, GoTo, Outcomes, IInv, TypeOK
<1>2. ASSUME NEW p \in Sweeper, Send(p)
      PROVE  Outcomes'
  BY <1>1, <1>2 DEF Send, Statuses
<1>3. ASSUME NEW p \in Sweeper, NEW stage \in Stages \ {"sent"},
             GoTo(p, stage), outcome' = outcome \/ outcome' = [outcome EXCEPT ![p] = "none"]
      PROVE  Outcomes'
  BY <1>3 DEF GoTo, Outcomes, IInv, TypeOK
<1>4. ASSUME NEW p \in Sweeper,
             \/ BeginSweep(p) \/ (\E s \in Student : PassOver(p, s) \/ Check(p, s))
             \/ Claim(p) \/ LoseClaim(p) \/ WriteLog(p) \/ Proceed(p) \/ Release(p) \/ EndSweep(p)
             \/ RaiseBeforeSending(p) \/ LoseLog(p) \/ RaiseAfterSending(p)
             \/ ReleaseFails(p) \/ Crash(p)
      PROVE  Outcomes'
  BY <1>3, <1>4 DEF BeginSweep, PassOver, Check, Claim, LoseClaim, WriteLog, Proceed, Release,
                    EndSweep, RaiseBeforeSending, LoseLog, RaiseAfterSending, ReleaseFails, Crash,
                    Advance, Stop, Stages
<1>5. ASSUME UNCHANGED work PROVE Outcomes'
  BY <1>5 DEF Outcomes, work
<1>6. QED
  BY <1>2, <1>4, <1>5 DEF Next, Run, StartsExam, vars

(* Only a crash, a failed release and a lost log entry add a claim to the  *)
(* loose ones: the one the sweeper was working on.                         *)
LEMMA LooseGrows ==
    ASSUME IInv, Outcomes, NEW p \in Sweeper, Crash(p) \/ ReleaseFails(p) \/ LoseLog(p)
    PROVE  /\ Loose' \subseteq Loose \cup {current[p]}
           /\ crashes' + faults' = crashes + faults + 1
<1>1. UNCHANGED <<claims, mail, log>>
  BY DEF Crash, ReleaseFails, LoseLog
<1>2. \A q \in Sweeper : q # p => at'[q] = at[q] /\ current'[q] = current[q]
  BY DEF Crash, ReleaseFails, LoseLog, Stop, GoTo, IInv, TypeOK
<1>3. Loose' \subseteq Loose \cup {current[p]}
  BY <1>1, <1>2 DEF Loose, Working
<1>4. crashes' + faults' = crashes + faults + 1
  BY DEF Crash, ReleaseFails, LoseLog, Fault, IInv, TypeOK
<1>5. QED
  BY <1>3, <1>4

LEMMA LooseStays ==
    ASSUME IInv, Outcomes, NEW p \in Sweeper,
           \/ BeginSweep(p) \/ (\E s \in Student : PassOver(p, s) \/ Check(p, s))
           \/ Claim(p) \/ LoseClaim(p) \/ Send(p) \/ WriteLog(p) \/ Proceed(p)
           \/ Release(p) \/ EndSweep(p)
           \/ RaiseBeforeSending(p) \/ RaiseAfterSending(p)
    PROVE  Loose' \subseteq Loose /\ UNCHANGED <<crashes, faults>>
<1>1. ASSUME ~Working(p), UNCHANGED <<claims, mail, log>>,
             \A q \in Sweeper : q # p => at'[q] = at[q] /\ current'[q] = current[q]
      PROVE  Loose' \subseteq Loose
  BY <1>1 DEF Loose, Working
<1>2. CASE BeginSweep(p) \/ (\E s \in Student : PassOver(p, s) \/ Check(p, s))
           \/ LoseClaim(p) \/ EndSweep(p)
  BY <1>1, <1>2 DEF BeginSweep, PassOver, Check, LoseClaim, EndSweep, Advance, Stop, GoTo,
                    Working, mishaps, IInv, TypeOK
<1>3. CASE Claim(p)
  <2>1. /\ claims' = claims \cup {current[p]} /\ UNCHANGED <<mail, log, current, crashes, faults>>
        /\ at[p] = "checked" /\ at'[p] = "claimed"
        /\ \A q \in Sweeper : q # p => at'[q] = at[q]
    BY <1>3 DEF Claim, GoTo, mishaps, IInv, TypeOK
  <2>2. QED
    BY <2>1 DEF Loose, Working
<1>4. CASE Send(p)
  <2>1. /\ UNCHANGED <<claims, log, current, crashes, faults>>
        /\ at[p] = "claimed" /\ at'[p] = "sent"
        /\ \A q \in Sweeper : q # p => at'[q] = at[q]
        /\ \A s \in Student : s # current[p] => mail'[s] = mail[s]
    BY <1>4 DEF Send, SendEmail, GoTo, mishaps, IInv, TypeOK
  <2>2. claims \subseteq Student
    BY DEF IInv, TypeOK
  <2>3. QED
    BY <2>1, <2>2 DEF Loose, Working
<1>5. CASE WriteLog(p)
  <2>1. /\ UNCHANGED <<claims, mail, current, crashes, faults>>
        /\ at[p] = "sent" /\ \A q \in Sweeper : q # p => at'[q] = at[q]
        /\ log' = [log EXCEPT ![current[p]] = outcome[p]] /\ outcome[p] # "none"
    BY <1>5 DEF WriteLog, GoTo, Outcomes, mishaps, IInv, TypeOK
  <2>2. claims \subseteq Student /\ log \in [Student -> Statuses]
    BY DEF IInv, TypeOK
  <2>3. QED
    BY <2>1, <2>2 DEF Loose, Working
<1>6. CASE Proceed(p)
  <2>1. /\ UNCHANGED <<claims, mail, log, crashes, faults>> /\ at[p] = "noted"
        /\ \A q \in Sweeper : q # p => at'[q] = at[q] /\ current'[q] = current[q]
    BY <1>6 DEF Proceed, Advance, GoTo, mishaps, IInv, TypeOK
  <2>2. QED
    BY <2>1 DEF Loose, Working
<1>7. CASE Release(p)
  <2>1. /\ claims' = claims \ {current[p]} /\ UNCHANGED <<mail, log, crashes, faults>>
        /\ \A q \in Sweeper : q # p => at'[q] = at[q] /\ current'[q] = current[q]
    BY <1>7 DEF Release, Released, Stop, GoTo, mishaps, IInv, TypeOK
  <2>2. QED
    BY <2>1 DEF Loose, Working
<1>8. CASE RaiseBeforeSending(p) \/ RaiseAfterSending(p)
  <2>1. /\ UNCHANGED <<claims, mail, log, current, crashes, faults>>
        /\ at'[p] = "raising" /\ \A q \in Sweeper : q # p => at'[q] = at[q]
    BY <1>8 DEF RaiseBeforeSending, RaiseAfterSending, GoTo, IInv, TypeOK
  <2>2. QED
    BY <2>1 DEF Loose, Working
<1>9. QED
  BY <1>2, <1>3, <1>4, <1>5, <1>6, <1>7, <1>8

LEMMA LooseStep == LInv /\ [Next]_vars => FewLoose'
<1> SUFFICES ASSUME LInv, [Next]_vars PROVE FewLoose'
  OBVIOUS
<1>1. IInv /\ Outcomes /\ IsFiniteSet(Loose) /\ Cardinality(Loose) \in Nat
      /\ Cardinality(Loose) <= crashes + faults /\ crashes \in Nat /\ faults \in Nat
  BY FS_CardinalityType DEF LInv, FewLoose, IInv, TypeOK
<1>2. ASSUME Loose' \subseteq Loose, UNCHANGED <<crashes, faults>>
      PROVE  FewLoose'
  <2>1. IsFiniteSet(Loose') /\ Cardinality(Loose') <= Cardinality(Loose) /\ Cardinality(Loose') \in Nat
    BY <1>1, <1>2, FS_Subset, FS_CardinalityType
  <2>2. QED
    BY <1>1, <1>2, <2>1 DEF FewLoose
<1>3. ASSUME NEW s, Loose' \subseteq Loose \cup {s}, crashes' + faults' = crashes + faults + 1
      PROVE  FewLoose'
  <2>1. IsFiniteSet(Loose \cup {s}) /\ Cardinality(Loose \cup {s}) \in Nat
        /\ Cardinality(Loose \cup {s}) <= Cardinality(Loose) + 1
    <3>1. CASE s \in Loose
      <4>1. Loose \cup {s} = Loose
        BY <3>1
      <4>2. IsFiniteSet(Loose \cup {s}) /\ Cardinality(Loose \cup {s}) = Cardinality(Loose)
        BY <1>1, <4>1, Zenon
      <4>3. QED
        BY <1>1, <4>2
    <3>2. CASE s \notin Loose
      <4>1. IsFiniteSet(Loose \cup {s}) /\ Cardinality(Loose \cup {s}) = Cardinality(Loose) + 1
        BY <1>1, <3>2, FS_AddElement
      <4>2. QED
        BY <1>1, <4>1
    <3>3. QED
      BY <3>1, <3>2
  <2>2. IsFiniteSet(Loose') /\ Cardinality(Loose') <= Cardinality(Loose \cup {s})
        /\ Cardinality(Loose') \in Nat
    BY <1>3, <2>1, FS_Subset, FS_CardinalityType
  <2>3. QED
    BY <1>1, <1>3, <2>1, <2>2 DEF FewLoose
<1>4. ASSUME NEW s \in Student, StartsExam(s) PROVE FewLoose'
  BY <1>4, <1>2 DEF StartsExam, work, mishaps, Loose, Working
<1>5. ASSUME UNCHANGED vars PROVE FewLoose'
  BY <1>5, <1>2 DEF vars, work, mishaps, Loose, Working
<1>6. QED
  BY <1>1, <1>2, <1>3, <1>4, <1>5, LooseGrows, LooseStays DEF Next, Run

(* A claim nothing came of and nobody works on is the work of a sweeper    *)
(* that died or a commit that failed, one claim for each.                  *)
THEOREM Mishaps == Spec => []OrphansAreMishaps
<1>1. Init => LInv
  <2> SUFFICES ASSUME Init PROVE Outcomes /\ FewLoose
    BY InitInvariant DEF LInv
  <2>1. Loose = {} /\ crashes + faults = 0 /\ Outcomes
    BY DEF Init, Loose, Outcomes
  <2>2. IsFiniteSet({}) /\ Cardinality({}) = 0
    BY FS_EmptySet
  <2>3. QED
    BY <2>1, <2>2 DEF FewLoose
<1>2. LInv /\ [Next]_vars => LInv'
  BY StepInvariant, OutcomesKept, LooseStep DEF LInv
<1>3. LInv => OrphansAreMishaps
  <2> SUFFICES ASSUME LInv PROVE Cardinality(Orphans) <= crashes + faults
    BY DEF OrphansAreMishaps
  <2>1. Orphans \subseteq Loose
    BY DEF Orphans, Loose
  <2>2. IsFiniteSet(Loose) /\ Cardinality(Loose) <= crashes + faults
        /\ crashes \in Nat /\ faults \in Nat
    BY DEF LInv, FewLoose, IInv, TypeOK
  <2>3. Cardinality(Orphans) <= Cardinality(Loose) /\ Cardinality(Orphans) \in Nat
        /\ Cardinality(Loose) \in Nat
    BY <2>1, <2>2, FS_Subset, FS_CardinalityType
  <2>4. QED
    BY <2>2, <2>3
<1>4. QED
  BY <1>1, <1>2, <1>3, PTL DEF Spec

----------------------------------------------------------------------------
(***************************************************************************)
(* The two promises of the lease, for every set of processes, interval,    *)
(* length of a pass and number of crashes.                                 *)
(***************************************************************************)

(* The lease is shorter than the interval: who won once finds it free at   *)
(* the start of its next pass.                                             *)
LEMMA TtlBounds == Ttl \in Nat /\ Ttl < Interval
  BY TimeAssumption DEF Ttl

(* When a process next tries the lease, measured from its expiry.          *)
Due == lease.locked_until + Interval + (1 + restarts) * MaxPass

Timely ==
    \A p \in Process :
        /\ doing[p] = "waiting" => clock <= wake[p]
        /\ doing[p] # "waiting" => now[p] <= clock /\ clock <= now[p] + MaxPass

RowIsConsistent ==
    /\ lease.last_started_at <= clock
    /\ lease.locked_by = NoOne =>
          lease.locked_until = 0 /\ lease.last_started_at = 0
    /\ lease.locked_by # NoOne =>
          lease.locked_until = lease.last_started_at + Ttl

(* Starts are a lease apart, and the row remembers the last of them.       *)
RunsAreApart ==
    \A p \in Process : doing[p] = "running" =>
        /\ lease.locked_by # NoOne
        /\ now[p] <= lease.last_started_at
        /\ \A q \in Process : doing[q] = "running" /\ p # q =>
              now[p] >= now[q] + Ttl \/ now[q] >= now[p] + Ttl

(* Everybody's next attempt is not far behind the lease's expiry.          *)
AttemptsAreDue ==
    \A p \in Process :
        /\ doing[p] = "waiting"  => wake[p] <= Due
        /\ doing[p] = "claiming" => now[p] <= Due

(* Without crashes the last owner is back when its lease has just expired. *)
OwnerIsBack(p) ==
    /\ doing[p] = "waiting" =>
          /\ lease.last_started_at + Interval <= wake[p]
          /\ wake[p] <= lease.last_started_at + Interval + MaxPass
    /\ doing[p] = "claiming" =>
          /\ lease.last_started_at + Interval <= now[p]
          /\ now[p] <= lease.last_started_at + Interval + MaxPass
    /\ doing[p] = "running" => now[p] = lease.last_started_at

NobodyBehind ==
    \A p \in Process :
        /\ doing[p] = "waiting" => wake[p] <= Interval
        /\ doing[p] # "waiting" => now[p] <= Interval

WithoutCrashes ==
    restarts = 0 =>
        IF lease.locked_by = NoOne THEN NobodyBehind
        ELSE OwnerIsBack(lease.locked_by)

LeaseIInv ==
    /\ LeaseTypeOK
    /\ Timely
    /\ RowIsConsistent
    /\ RunsAreApart
    /\ AttemptsAreDue
    /\ WithoutCrashes

----------------------------------------------------------------------------
(* The arithmetic of the bounds.                                           *)

LEMMA SlackGrows ==
    ASSUME NEW r \in Nat
    PROVE  /\ r * MaxPass \in Nat
           /\ (1 + r) * MaxPass = MaxPass + r * MaxPass
           /\ (1 + (r + 1)) * MaxPass = (1 + r) * MaxPass + MaxPass
  BY TimeAssumption

LEMMA DueIsNat ==
    ASSUME LeaseTypeOK
    PROVE  /\ Due \in Nat
           /\ Due >= lease.locked_until + Interval + MaxPass
  BY TimeAssumption, SlackGrows DEF LeaseTypeOK, LeaseRow, Due

----------------------------------------------------------------------------

LEMMA LeaseStart == LeaseInit => LeaseIInv
<1> SUFFICES ASSUME LeaseInit
             PROVE  LeaseIInv
  OBVIOUS
<1>1. LeaseTypeOK
  BY TimeAssumption DEF LeaseInit, LeaseTypeOK, LeaseRow
<1>2. Timely /\ RowIsConsistent /\ RunsAreApart
  BY TimeAssumption DEF LeaseInit, Timely, RowIsConsistent, RunsAreApart
<1>3. AttemptsAreDue
  <2>1. Due \in Nat /\ Due >= Interval
    BY <1>1, DueIsNat, TimeAssumption DEF LeaseInit
  <2> SUFFICES ASSUME NEW p \in Process
               PROVE  doing[p] = "waiting" /\ wake[p] <= Due
    BY DEF AttemptsAreDue
  <2>2. doing[p] = "waiting" /\ (wake[p] = 0 \/ wake[p] = Interval)
    BY DEF LeaseInit
  <2> QED
    BY <2>1, <2>2, TimeAssumption
<1>4. WithoutCrashes
  BY TimeAssumption DEF LeaseInit, WithoutCrashes, NobodyBehind
<1> QED
  BY <1>1, <1>2, <1>3, <1>4 DEF LeaseIInv

LEMMA TickPreserves == LeaseIInv /\ Tick => LeaseIInv'
<1> SUFFICES ASSUME LeaseIInv, Tick
             PROVE  LeaseIInv'
  OBVIOUS
<1>1. LeaseTypeOK'
  BY DEF LeaseIInv, LeaseTypeOK, Tick
<1>2. Timely'
  BY TimeAssumption DEF LeaseIInv, LeaseTypeOK, Timely, Tick
<1>3. RowIsConsistent'
  BY DEF LeaseIInv, LeaseTypeOK, LeaseRow, RowIsConsistent, Tick
<1>4. RunsAreApart' /\ AttemptsAreDue'
  BY DEF LeaseIInv, RunsAreApart, AttemptsAreDue, Due, Tick
<1>5. WithoutCrashes'
  BY DEF LeaseIInv, WithoutCrashes, NobodyBehind, OwnerIsBack, Tick
<1> QED
  BY <1>1, <1>2, <1>3, <1>4, <1>5 DEF LeaseIInv

LEMMA WakePreserves == ASSUME LeaseIInv, NEW p \in Process, Wake(p) PROVE LeaseIInv'
<1>1. LeaseTypeOK'
  BY DEF LeaseIInv, LeaseTypeOK, Wake
<1>2. clock = wake[p]
  BY DEF LeaseIInv, Timely, LeaseTypeOK, Wake
<1>3. Timely'
  BY TimeAssumption DEF LeaseIInv, LeaseTypeOK, Timely, Wake
<1>4. RowIsConsistent' /\ RunsAreApart'
  BY DEF LeaseIInv, LeaseTypeOK, RowIsConsistent, RunsAreApart, Wake
<1>5. AttemptsAreDue'
  BY <1>2 DEF LeaseIInv, LeaseTypeOK, AttemptsAreDue, Due, Wake
<1>6. WithoutCrashes'
  <2>1. CASE lease.locked_by = NoOne
    BY <1>2, <2>1 DEF LeaseIInv, LeaseTypeOK, WithoutCrashes, NobodyBehind, Wake
  <2>2. CASE lease.locked_by # NoOne
    BY <1>2, <2>2 DEF LeaseIInv, LeaseTypeOK, WithoutCrashes, OwnerIsBack, Wake
  <2> QED
    BY <2>1, <2>2
<1> QED
  BY <1>1, <1>3, <1>4, <1>5, <1>6 DEF LeaseIInv

LEMMA WinPreserves == ASSUME LeaseIInv, NEW p \in Process, Win(p) PROVE LeaseIInv'
<1> USE ProcessAssumption
<1>1. LeaseTypeOK'
  BY TtlBounds DEF LeaseIInv, LeaseTypeOK, LeaseRow, Win
<1>2. Timely'
  BY DEF LeaseIInv, LeaseTypeOK, Timely, Win
<1>3. RowIsConsistent'
  BY DEF LeaseIInv, LeaseTypeOK, LeaseRow, Timely, RowIsConsistent, Win
<1>4. lease.last_started_at <= now[p] /\ lease.locked_until <= now[p] + Ttl
  BY TtlBounds DEF LeaseIInv, LeaseTypeOK, LeaseRow, RowIsConsistent, Win, Free
<1>5. RunsAreApart'
  <2> SUFFICES ASSUME NEW q \in Process, doing'[q] = "running"
               PROVE  /\ now[q] <= now[p]
                      /\ \A r \in Process : doing'[r] = "running" /\ q # r =>
                            now[q] >= now[r] + Ttl \/ now[r] >= now[q] + Ttl
    BY DEF RunsAreApart, Win
  <2>1. \A r \in Process : r # p /\ doing'[r] = "running" =>
            now[r] + Ttl <= now[p]
    BY TtlBounds DEF LeaseIInv, LeaseTypeOK, LeaseRow, RowIsConsistent, RunsAreApart, Win, Free
  <2> QED
    BY <2>1, TtlBounds DEF LeaseIInv, LeaseTypeOK, RunsAreApart, Win
<1>6. AttemptsAreDue'
  <2>1. Due <= Due'
    BY <1>1, <1>4, DueIsNat, SlackGrows, TimeAssumption
       DEF LeaseIInv, LeaseTypeOK, LeaseRow, Due, Win
  <2>2. Due \in Nat /\ Due' \in Nat
    BY <1>1, DueIsNat, SlackGrows, TimeAssumption DEF LeaseIInv, LeaseTypeOK, LeaseRow, Due, Win
  <2> QED
    BY <2>1, <2>2 DEF LeaseIInv, LeaseTypeOK, AttemptsAreDue, Win
<1>7. WithoutCrashes'
  BY DEF LeaseIInv, LeaseTypeOK, WithoutCrashes, OwnerIsBack, Win
<1> QED
  BY <1>1, <1>2, <1>3, <1>5, <1>6, <1>7 DEF LeaseIInv

(* A pass that ends: by losing the lease, or with the job.                 *)
LEMMA WaitPreserves ==
    ASSUME LeaseIInv, NEW p \in Process, Lose(p) \/ Finish(p)
    PROVE  LeaseIInv'
<1>1. /\ doing[p] # "waiting" /\ Wait(p) /\ UNCHANGED lease
      /\ now[p] <= clock /\ clock <= now[p] + MaxPass
  BY DEF LeaseIInv, Timely, Lose, Finish
<1>2. LeaseTypeOK'
  BY <1>1, TimeAssumption DEF LeaseIInv, LeaseTypeOK, Wait
<1>3. Timely'
  BY <1>1, TimeAssumption DEF LeaseIInv, LeaseTypeOK, Timely, Wait
<1>4. RowIsConsistent' /\ RunsAreApart'
  BY <1>1 DEF LeaseIInv, LeaseTypeOK, RowIsConsistent, RunsAreApart, Wait
<1>5. now[p] <= lease.locked_until
  <2>1. CASE Lose(p)
    BY <2>1 DEF LeaseIInv, LeaseTypeOK, LeaseRow, Lose, Free
  <2>2. CASE Finish(p)
    BY <2>2, TtlBounds DEF LeaseIInv, LeaseTypeOK, LeaseRow, RowIsConsistent, RunsAreApart, Finish
  <2> QED
    BY <2>1, <2>2, <1>1
<1>6. AttemptsAreDue'
  <2>1. Due' = Due
    BY <1>1 DEF Due, Wait
  <2>2. clock + Interval <= Due
    BY <1>1, <1>5, DueIsNat, TimeAssumption DEF LeaseIInv, LeaseTypeOK, LeaseRow
  <2> QED
    BY <1>1, <2>1, <2>2 DEF LeaseIInv, LeaseTypeOK, AttemptsAreDue, Wait
<1>7. WithoutCrashes'
  <2> SUFFICES ASSUME restarts = 0
               PROVE  IF lease.locked_by = NoOne THEN NobodyBehind'
                      ELSE OwnerIsBack(lease.locked_by)'
    BY <1>1 DEF WithoutCrashes, Wait, NobodyBehind, OwnerIsBack
  <2>1. CASE lease.locked_by = NoOne
    <3>1. ~Finish(p)
      BY <2>1 DEF LeaseIInv, RunsAreApart, Finish
    <3>2. ~(lease.locked_until <= now[p])
      BY <1>1, <3>1 DEF Lose, Free
    <3> QED
      BY <2>1, <3>2 DEF LeaseIInv, LeaseTypeOK, RowIsConsistent
  <2>2. CASE lease.locked_by # NoOne
    <3> DEFINE h == lease.locked_by
    <3>1. OwnerIsBack(h) /\ lease.locked_until = lease.last_started_at + Ttl
      BY <2>2 DEF LeaseIInv, WithoutCrashes, RowIsConsistent
    <3>2. CASE p = h
      <4>1. ~Lose(p)
        BY <3>1, <3>2, TtlBounds, TimeAssumption
           DEF LeaseIInv, LeaseTypeOK, LeaseRow, OwnerIsBack, Lose, Free
      <4>2. now[p] = lease.last_started_at
        BY <3>1, <3>2, <4>1 DEF OwnerIsBack, Finish
      <4> QED
        BY <1>1, <2>2, <3>2, <4>2, TimeAssumption
           DEF LeaseIInv, LeaseTypeOK, LeaseRow, OwnerIsBack, Wait
    <3>3. CASE p # h
      BY <1>1, <2>2, <3>1, <3>3 DEF LeaseIInv, LeaseTypeOK, OwnerIsBack, Wait
    <3> QED
      BY <3>2, <3>3
  <2> QED
    BY <2>1, <2>2
<1> QED
  BY <1>2, <1>3, <1>4, <1>6, <1>7 DEF LeaseIInv

LEMMA RestartPreserves == ASSUME LeaseIInv, NEW p \in Process, Restart(p) PROVE LeaseIInv'
<1>1. LeaseTypeOK'
  BY DEF LeaseIInv, LeaseTypeOK, Restart
<1>2. Timely' /\ RowIsConsistent' /\ RunsAreApart'
  BY DEF LeaseIInv, LeaseTypeOK, Timely, RowIsConsistent, RunsAreApart, Restart
<1>3. AttemptsAreDue'
  <2>1. /\ Due \in Nat
        /\ Due >= lease.locked_until + Interval + MaxPass
        /\ Due' = Due + MaxPass
    BY <1>1, DueIsNat, SlackGrows, TimeAssumption
       DEF LeaseIInv, LeaseTypeOK, LeaseRow, Due, Restart
  <2>2. clock <= Due + MaxPass
    <3>1. CASE doing[p] = "waiting"
      BY <2>1, <3>1, TimeAssumption DEF LeaseIInv, LeaseTypeOK, Timely, AttemptsAreDue
    <3>2. CASE doing[p] = "claiming"
      BY <2>1, <3>2, TimeAssumption DEF LeaseIInv, LeaseTypeOK, Timely, AttemptsAreDue
    <3>3. CASE doing[p] = "running"
      BY <2>1, <3>3, TimeAssumption, TtlBounds
         DEF LeaseIInv, LeaseTypeOK, LeaseRow, Timely, RunsAreApart, RowIsConsistent
    <3> QED
      BY <3>1, <3>2, <3>3 DEF LeaseIInv, LeaseTypeOK
  <2> QED
    BY <2>1, <2>2, TimeAssumption DEF LeaseIInv, LeaseTypeOK, AttemptsAreDue, Restart
<1>4. WithoutCrashes'
  BY DEF LeaseIInv, LeaseTypeOK, WithoutCrashes, Restart
<1> QED
  BY <1>1, <1>2, <1>3, <1>4 DEF LeaseIInv

LEMMA LeaseStep == LeaseIInv /\ [LeaseNext]_leaseVars => LeaseIInv'
<1> SUFFICES ASSUME LeaseIInv, [LeaseNext]_leaseVars
             PROVE  LeaseIInv'
  OBVIOUS
<1>1. CASE UNCHANGED leaseVars
  BY <1>1 DEF LeaseIInv, LeaseTypeOK, Timely, RowIsConsistent, RunsAreApart, AttemptsAreDue,
              Due, WithoutCrashes, NobodyBehind, OwnerIsBack, leaseVars
<1>2. CASE Tick
  BY <1>2, TickPreserves
<1>3. ASSUME NEW p \in Process,
             Wake(p) \/ Win(p) \/ Lose(p) \/ Finish(p) \/ Restart(p)
      PROVE  LeaseIInv'
  BY <1>3, WakePreserves, WinPreserves, WaitPreserves, RestartPreserves
<1> QED
  BY <1>1, <1>2, <1>3 DEF LeaseNext

(* The inductive invariant of the lease holds throughout.                  *)
THEOREM LeaseInvariance == LeaseSpec => []LeaseIInv
  BY LeaseStart, LeaseStep, PTL DEF LeaseSpec

----------------------------------------------------------------------------

(* The row, the clock and the processes keep their types.                  *)
THEOREM LeaseTypeCorrect == LeaseSpec => []LeaseTypeOK
<1>1. LeaseIInv => LeaseTypeOK
  BY DEF LeaseIInv
<1> QED
  BY <1>1, LeaseInvariance, PTL

(* Two runs of the job overlap only when the older has outlived its lease. *)
THEOREM Exclusion == LeaseSpec => []OverlapOnlyAfterTtl
<1>1. LeaseIInv => OverlapOnlyAfterTtl
  BY TtlBounds DEF LeaseIInv, LeaseTypeOK, Timely, RunsAreApart, OverlapOnlyAfterTtl, Running
<1> QED
  BY <1>1, LeaseInvariance, PTL

(* The last run of the job never lies further back than MaxGap.            *)
THEOREM Progress == LeaseSpec => []RunsKeepComing
<1>1. LeaseIInv => RunsKeepComing
  <2> SUFFICES ASSUME LeaseIInv
               PROVE  RunsKeepComing
    OBVIOUS
  <2>1. CASE restarts = 0
    <3>1. MaxGap = Interval + 2 * MaxPass
      BY <2>1, TimeAssumption DEF MaxGap
    <3>2. CASE lease.locked_by = NoOne
      <4>1. PICK p \in Process : TRUE
        BY ProcessAssumption
      <4> QED
        BY <2>1, <3>1, <3>2, <4>1, TimeAssumption
           DEF LeaseIInv, LeaseTypeOK, Timely, RowIsConsistent, WithoutCrashes, NobodyBehind,
               RunsKeepComing
    <3>3. CASE lease.locked_by # NoOne
      <4> DEFINE h == lease.locked_by
      <4>1. h \in Process /\ OwnerIsBack(h) /\ lease.last_started_at \in Nat
        BY <2>1, <3>3 DEF LeaseIInv, LeaseTypeOK, LeaseRow, WithoutCrashes
      <4>2. doing[h] \in {"waiting", "claiming", "running"} /\ now[h] \in Nat /\ wake[h] \in Nat
        BY <4>1 DEF LeaseIInv, LeaseTypeOK
      <4> QED
        BY <3>1, <4>1, <4>2, TimeAssumption
           DEF LeaseIInv, LeaseTypeOK, Timely, OwnerIsBack, RunsKeepComing
    <3> QED
      BY <3>2, <3>3
  <2>2. CASE restarts # 0
    <3>1. MaxGap = Interval + 2 * MaxPass + Ttl + restarts * MaxPass
      BY <2>2, SlackGrows, TtlBounds, TimeAssumption DEF MaxGap, LeaseIInv, LeaseTypeOK
    <3>2. Due = lease.locked_until + Interval + MaxPass + restarts * MaxPass
      BY SlackGrows, TimeAssumption DEF Due, LeaseIInv, LeaseTypeOK, LeaseRow
    <3>3. lease.locked_until <= lease.last_started_at + Ttl
      BY TtlBounds DEF LeaseIInv, LeaseTypeOK, LeaseRow, RowIsConsistent
    <3>4. PICK p \in Process : TRUE
      BY ProcessAssumption
    <3>5. clock <= Due + MaxPass
      <4>1. Due \in Nat /\ Due >= lease.locked_until + Interval + MaxPass
        BY DueIsNat DEF LeaseIInv
      <4>2. CASE doing[p] = "waiting"
        BY <4>1, <4>2, TimeAssumption DEF LeaseIInv, LeaseTypeOK, Timely, AttemptsAreDue
      <4>3. CASE doing[p] = "claiming"
        BY <4>1, <4>3, TimeAssumption DEF LeaseIInv, LeaseTypeOK, Timely, AttemptsAreDue
      <4>4. CASE doing[p] = "running"
        BY <4>1, <4>4, TimeAssumption, TtlBounds
           DEF LeaseIInv, LeaseTypeOK, LeaseRow, Timely, RunsAreApart, RowIsConsistent
      <4> QED
        BY <4>2, <4>3, <4>4 DEF LeaseIInv, LeaseTypeOK
    <3>6. restarts * MaxPass \in Nat
      BY SlackGrows DEF LeaseIInv, LeaseTypeOK
    <3> HIDE DEF MaxGap, Due
    <3> QED
      BY <3>1, <3>2, <3>3, <3>5, <3>6, TtlBounds, TimeAssumption
         DEF LeaseIInv, LeaseTypeOK, LeaseRow, RunsKeepComing
  <2> QED
    BY <2>1, <2>2
<1> QED
  BY <1>1, LeaseInvariance, PTL

==============================================================================
