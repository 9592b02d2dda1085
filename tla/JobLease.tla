------------------------------ MODULE JobLease ------------------------------
(***************************************************************************)
(* The lease on a periodic background job (app/scheduler.py).  Every       *)
(* process runs the loop of run_forever: read the clock, try to win the    *)
(* job's row with one conditional UPDATE, run the job if it was won, wait  *)
(* one interval.  The lease is a promise about time only: it is not given  *)
(* back when the job ends, and it runs out under a job that is too slow.   *)
(***************************************************************************)
EXTENDS Integers

CONSTANTS
    Process,    \* the processes (or threads) that run the scheduler loop
    NoOne,      \* SQL NULL in locked_by
    Interval,   \* REMINDER_SCHEDULER_INTERVAL_SECONDS, floored at 5
    MaxPass,    \* the longest time one pass of the loop takes
    MaxRestarts,\* bound: processes that die and are started again
    Horizon     \* bound: the time up to which the instance is explored

ASSUME ProcessAssumption == NoOne \notin Process /\ Process # {}
ASSUME TimeAssumption ==
    /\ Interval \in Nat /\ Interval >= 5
    /\ MaxPass \in Nat
    /\ MaxRestarts \in Nat
    /\ Horizon \in Nat

VARIABLES
    clock,      \* the time
    lease,      \* the row of job_leases
    doing,      \* where each process is in its loop
    now,        \* the time a process read at the start of its pass
    wake,       \* when a waiting process starts its next pass
    restarts    \* how many processes have died so far

leaseVars == <<clock, lease, doing, now, wake, restarts>>

(* Mutant: a lease that outlives the interval (120% of it).                *)
LongTtl == (Interval * 12) \div 10

(* run_job_once: 80% of the interval, and at least a second.               *)
Ttl == (Interval * 8) \div 10

LeaseRow == [locked_by : Process \cup {NoOne}, locked_until : Nat,
             last_started_at : Nat]

LeaseTypeOK ==
    /\ clock \in Nat
    /\ lease \in LeaseRow
    /\ doing \in [Process -> {"waiting", "claiming", "running"}]
    /\ now \in [Process -> Nat]
    /\ wake \in [Process -> Nat]
    /\ restarts \in Nat

(* The row starts with locked_until in the distant past.  A dedicated      *)
(* process makes its first pass at once, an embedded thread after an       *)
(* interval.                                                               *)
LeaseInit ==
    /\ clock = 0
    /\ lease = [locked_by |-> NoOne, locked_until |-> 0, last_started_at |-> 0]
    /\ doing = [p \in Process |-> "waiting"]
    /\ now = [p \in Process |-> 0]
    /\ wake \in [Process -> {0, Interval}]
    /\ restarts = 0

----------------------------------------------------------------------------

(* A pass begins: claim_lease reads the clock before anything else.        *)
Wake(p) ==
    /\ doing[p] = "waiting"
    /\ clock >= wake[p]
    /\ doing' = [doing EXCEPT ![p] = "claiming"]
    /\ now' = [now EXCEPT ![p] = clock]
    /\ UNCHANGED <<clock, lease, wake, restarts>>

(* The pass ends and the loop waits an interval.                           *)
Wait(p) ==
    /\ doing' = [doing EXCEPT ![p] = "waiting"]
    /\ wake' = [wake EXCEPT ![p] = clock + Interval]
    /\ UNCHANGED <<clock, now, restarts>>

(* Mutant: the lease is checked when it is read, not in the UPDATE.        *)
AlwaysFree(p) == TRUE

(* The WHERE of the UPDATE, with the time that was read.                   *)
Free(p) == lease.locked_until <= now[p]

Win(p) ==
    /\ doing[p] = "claiming"
    /\ Free(p)
    /\ lease' = [locked_by |-> p, locked_until |-> now[p] + Ttl,
                 last_started_at |-> now[p]]
    /\ doing' = [doing EXCEPT ![p] = "running"]
    /\ UNCHANGED <<clock, now, wake, restarts>>

Lose(p) ==
    /\ doing[p] = "claiming"
    /\ ~Free(p)
    /\ Wait(p)
    /\ UNCHANGED lease

(* The job returns or raises, record_result notes it, the lease stays.     *)
Finish(p) ==
    /\ doing[p] = "running"
    /\ Wait(p)
    /\ UNCHANGED lease

(* A process dies anywhere in its loop; the container is started again and *)
(* the new process makes a pass at once, under a new owner id.             *)
Restart(p) ==
    /\ restarts < MaxRestarts
    /\ restarts' = restarts + 1
    /\ doing' = [doing EXCEPT ![p] = "waiting"]
    /\ wake' = [wake EXCEPT ![p] = clock]
    /\ UNCHANGED <<clock, lease, now>>

(* Time passes, but a waiting process is woken on time and a pass is over  *)
(* MaxPass after it began.                                                 *)
Tick ==
    /\ clock < Horizon
    /\ \A p \in Process :
          IF doing[p] = "waiting" THEN clock < wake[p] ELSE clock < now[p] + MaxPass
    /\ clock' = clock + 1
    /\ UNCHANGED <<lease, doing, now, wake, restarts>>

LeaseNext ==
    \/ Tick
    \/ \E p \in Process : Wake(p) \/ Win(p) \/ Lose(p) \/ Finish(p) \/ Restart(p)

LeaseSpec == LeaseInit /\ [][LeaseNext]_leaseVars

----------------------------------------------------------------------------

Running == {p \in Process : doing[p] = "running"}

(* Two processes run the job at the same time only after the lease of the  *)
(* one that started first has run out under it.  (A restarted process has  *)
(* a new owner id, and its predecessor's job is gone.)                     *)
OverlapOnlyAfterTtl ==
    \A p, q \in Running :
        p # q => clock >= now[p] + Ttl \/ clock >= now[q] + Ttl

(* The job is never starved, although a lease is never given back and a    *)
(* loser waits a whole interval: the last run started no longer ago than   *)
(* an interval and the length of two passes, and if processes have died,   *)
(* the rest of a dead owner's lease and a pass per death more.             *)
MaxGap ==
    Interval + 2 * MaxPass
    + (IF restarts = 0 THEN 0 ELSE Ttl + restarts * MaxPass)

RunsKeepComing == clock <= lease.last_started_at + MaxGap

============================================================================
