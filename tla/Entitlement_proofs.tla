------------------------- MODULE Entitlement_proofs -------------------------
(* Proofs about Entitlement, for any number of handlers, requests and      *)
(* attempts, and any values that staff type in.                            *)
EXTENDS Entitlement, FiniteSetTheorems, SequenceTheorems, TLAPS

USE DEF AttemptState, AppealState, RequestState

(* The allowance that is in force has been recorded.                       *)
Peaks == row # NoRow => MaxAttempts + row.attempts <= ghost.peak

(* A start that is under way found room, and, as long as no attempt was    *)
(* added or erased since, found the latest one finished.                   *)
Starts ==
    \A c \in Call : call[c].op = "start" =>
        /\ call[c].on < ghost.peak + ghost.doubleStarts
        /\ test # "erased" => call[c].on <= Len(attempts)
        /\ test # "erased" /\ call[c].on = Len(attempts) => ~Resumable

(* Attempts in progress behind the latest one are all due to an overlap.   *)
Earlier == Running \ {Len(attempts)}
Overlaps == Cardinality(Earlier) <= ghost.doubleStarts

Seats == Peaks /\ Starts /\ Overlaps /\ SeatsAreEarned

Asks == IsFiniteSet(Pending) /\ Cardinality(Pending) <= 1 + ghost.doubleAsks

(* Where there is no row nothing is owed.                                  *)
Sums ==
    ghost.staleWrites = 0 =>
        /\ row = NoRow => ghost.owed = 0 /\ ghost.promised = 0
        /\ row # NoRow => row.attempts = ghost.owed /\ row.time >= ghost.promised

IInv == TypeOK /\ Seats /\ Asks /\ Sums

----------------------------------------------------------------------------

(* What the fields of a handler's record are, by its op.                   *)
LEMMA Fields ==
    ASSUME NEW l \in {Idle} \cup Loaded
    PROVE  /\ l.op = "start" => l.on \in Nat
           /\ l.op \in {"appeal", "grant"} => l.on \in Nat \ {0}
           /\ l.op = "grant" => l.row \in Row \cup {NoRow}
           /\ l.op \in {"request", "approve"} => l.on \in Request
           /\ l.op \in {"approve", "set"} => l.row \in Row
           /\ l.op = "set" => l.new \in Row
<1>1. CASE l = Idle
  BY <1>1 DEF Idle
<1>2. CASE l \in [op : {"start"}, on : Nat]
  BY <1>2
<1>3. CASE l \in [op : {"ask"}]
  BY <1>3
<1>4. CASE l \in [op : {"appeal"}, on : Nat \ {0}]
  BY <1>4
<1>5. CASE l \in [op : {"grant"}, on : Nat \ {0}, row : Row \cup {NoRow}]
  BY <1>5
<1>6. CASE l \in [op : {"request"}, on : Request]
  BY <1>6
<1>7. CASE l \in [op : {"approve"}, on : Request, row : Row]
  BY <1>7
<1>8. CASE l \in [op : {"set"}, row : Row, new : Row]
  BY <1>8
<1>9. QED
  BY <1>1, <1>2, <1>3, <1>4, <1>5, <1>6, <1>7, <1>8 DEF Loaded

LEMMA Ghosts ==
    ASSUME TypeOK
    PROVE  /\ ghost.peak \in Nat /\ ghost.owed \in Nat /\ ghost.promised \in Nat
           /\ ghost.doubleStarts \in Nat /\ ghost.doubleAsks \in Nat /\ ghost.staleWrites \in Nat
BY DEF TypeOK, Ghost

(* The attempts in progress and the others are all the attempts.           *)
LEMMA Attempts ==
    ASSUME TypeOK
    PROVE  /\ Len(attempts) \in Nat /\ DOMAIN attempts = 1 .. Len(attempts)
           /\ IsFiniteSet(Running) /\ IsFiniteSet(Completed)
           /\ Cardinality(Running) \in Nat /\ Cardinality(Completed) \in Nat
           /\ Len(attempts) = Cardinality(Running) + Cardinality(Completed)
           /\ IsFiniteSet(Earlier) /\ Cardinality(Earlier) \in Nat
           /\ Cardinality(Running) <= 1 + Cardinality(Earlier)
<1>1. Len(attempts) \in Nat /\ DOMAIN attempts = 1 .. Len(attempts)
  BY DEF TypeOK
<1>2. IsFiniteSet(1 .. Len(attempts)) /\ Cardinality(1 .. Len(attempts)) = Len(attempts)
  <2> DEFINE n == Len(attempts)
  <2>1. n \in Int /\ 1 \in Int
    BY <1>1
  <2> HIDE DEF n
  <2>2. IsFiniteSet(1 .. n) /\ Cardinality(1 .. n) = IF 1 > n THEN 0 ELSE n - 1 + 1
    BY <2>1, FS_Interval
  <2>3. n \in Nat
    BY <1>1 DEF n
  <2>4. QED
    BY <2>2, <2>3 DEF n
<1>3. IsFiniteSet(Running) /\ IsFiniteSet(Completed) /\ IsFiniteSet(Earlier)
  <2>1. /\ Running \subseteq 1 .. Len(attempts) /\ Completed \subseteq 1 .. Len(attempts)
        /\ Earlier \subseteq 1 .. Len(attempts)
    BY <1>1 DEF Running, Completed, Earlier
  <2>2. QED
    BY <1>2, <2>1, FS_Subset
<1>4. Cardinality(Running) \in Nat /\ Cardinality(Completed) \in Nat /\ Cardinality(Earlier) \in Nat
  BY <1>3, FS_CardinalityType
<1>5. Len(attempts) = Cardinality(Running) + Cardinality(Completed)
  <2>1. Running \cup Completed = 1 .. Len(attempts) /\ Running \cap Completed = {}
    BY <1>1 DEF Running, Completed
  <2>2. Cardinality(Running \cup Completed)
            = Cardinality(Running) + Cardinality(Completed) - Cardinality(Running \cap Completed)
    BY <1>3, FS_Union
  <2>3. Cardinality(Running \cap Completed) = 0
    BY <2>1, FS_EmptySet
  <2>4. Cardinality(Running \cup Completed) = Len(attempts)
    BY <1>2, <2>1
  <2>5. QED
    BY <1>4, <2>2, <2>3, <2>4
<1>6. Cardinality(Running) <= 1 + Cardinality(Earlier)
  <2>1. Running \subseteq Earlier \cup {Len(attempts)} /\ Len(attempts) \notin Earlier
    BY DEF Earlier
  <2>2. IsFiniteSet(Earlier \cup {Len(attempts)})
        /\ Cardinality(Earlier \cup {Len(attempts)}) = Cardinality(Earlier) + 1
    BY <1>3, <2>1, FS_AddElement
  <2>3. Cardinality(Running) <= Cardinality(Earlier \cup {Len(attempts)})
    BY <2>1, <2>2, FS_Subset
  <2>4. QED
    BY <1>4, <2>2, <2>3
<1>7. QED
  BY <1>1, <1>3, <1>4, <1>5, <1>6

(* With the latest attempt finished there are as few in progress as there  *)
(* were overlaps.                                                          *)
LEMMA FewRunning ==
    ASSUME TypeOK, Overlaps, ~Resumable
    PROVE  Earlier = Running /\ Cardinality(Running) <= ghost.doubleStarts
<1>1. Len(attempts) \in Nat /\ DOMAIN attempts = 1 .. Len(attempts)
      /\ (attempts = <<>> <=> Len(attempts) = 0)
  BY DEF TypeOK
<1>2. Len(attempts) \notin Running
  BY <1>1 DEF Resumable, Running
<1>3. QED
  BY <1>2 DEF Overlaps, Earlier

LEMMA Start == Init => IInv
<1> SUFFICES ASSUME Init PROVE IInv
  OBVIOUS
<1>1. TypeOK
  <2>1. ghost \in Ghost
    BY DEF Init, Ghost
  <2>2. attempts \in Seq(AttemptState)
        /\ appeal \in Seq(AppealState) /\ Len(appeal) = Len(attempts)
    BY DEF Init
  <2>3. call \in [Call -> {Idle} \cup Loaded]
    BY DEF Init
  <2>4. QED
    BY <2>1, <2>2, <2>3 DEF Init, TypeOK
<1>2. Cardinality({}) = 0 /\ IsFiniteSet({})
  BY FS_EmptySet
<1>3. Seats
  <2>1. Earlier = {} /\ Len(attempts) = 0
    BY DEF Init, Earlier, Running
  <2>2. Starts /\ Peaks
    BY DEF Init, Starts, Peaks, Idle
  <2>3. QED
    BY <1>2, <2>1, <2>2 DEF Init, Seats, Overlaps, SeatsAreEarned
<1>4. Asks
  <2>1. Pending = {}
    BY DEF Init, Pending
  <2>2. QED
    BY <1>2, <2>1 DEF Init, Asks
<1>5. Sums
  BY DEF Init, Sums
<1>6. QED
  BY <1>1, <1>3, <1>4, <1>5 DEF IInv

----------------------------------------------------------------------------

(* A step that starts and adds no attempt, and records the allowance.      *)
LEMMA SeatsKept ==
    ASSUME IInv, TypeOK', UNCHANGED attempts,
           ghost'.peak >= ghost.peak, ghost'.doubleStarts = ghost.doubleStarts,
           row' = row \/ row' = NoRow \/ MaxAttempts + row'.attempts <= ghost'.peak,
           test' # "erased" => test # "erased",
           \A c \in Call : call'[c] = call[c] \/ call'[c].op # "start"
    PROVE  Seats'
<1>1. ghost.peak \in Nat /\ ghost.doubleStarts \in Nat /\ ghost'.peak \in Nat
  BY DEF IInv, TypeOK, Ghost
<1>2. Starts'
  <2> SUFFICES ASSUME NEW c \in Call, call'[c].op = "start"
               PROVE  /\ call'[c].on < ghost'.peak + ghost.doubleStarts
                      /\ test' # "erased" => call'[c].on <= Len(attempts)
                      /\ test' # "erased" /\ call'[c].on = Len(attempts) => ~Resumable
    BY DEF Starts, Resumable
  <2>1. call'[c] = call[c] /\ call[c] \in {Idle} \cup Loaded
    BY DEF IInv, TypeOK
  <2>2. call[c].on \in Nat
    BY <2>1, Fields
  <2>3. /\ call[c].on < ghost.peak + ghost.doubleStarts
        /\ test # "erased" => call[c].on <= Len(attempts)
        /\ test # "erased" /\ call[c].on = Len(attempts) => ~Resumable
    BY <2>1 DEF IInv, Seats, Starts
  <2>4. QED
    BY <1>1, <2>1, <2>2, <2>3
<1>3. Overlaps'
  BY DEF IInv, Seats, Overlaps, Earlier, Running
<1>4. SeatsAreEarned'
  <2>1. Len(attempts) \in Nat
    BY DEF IInv, TypeOK
  <2>2. Len(attempts) <= ghost.peak + ghost.doubleStarts
    BY DEF IInv, Seats, SeatsAreEarned
  <2>3. QED
    BY <1>1, <2>1, <2>2 DEF SeatsAreEarned
<1>5. Peaks'
  <2>1. CASE row' = row /\ row # NoRow
    <3>1. row.attempts \in Nat /\ MaxAttempts \in Nat /\ MaxAttempts + row.attempts <= ghost.peak
      BY <2>1, NumberAssumption DEF IInv, TypeOK, Row, Seats, Peaks
    <3>2. QED
      BY <1>1, <2>1, <3>1 DEF Peaks
  <2>2. CASE row' = NoRow
    BY <2>2 DEF Peaks
  <2>3. QED
    BY <2>1, <2>2 DEF Peaks
<1>6. QED
  BY <1>2, <1>3, <1>4, <1>5 DEF Seats

LEMMA AsksKept ==
    ASSUME IInv, ghost'.doubleAsks = ghost.doubleAsks,
           \A r \in Request : request'[r] = "pending" => request[r] = "pending"
    PROVE  Asks'
<1>1. Pending' \subseteq Pending
  BY DEF Pending
<1>2. IsFiniteSet(Pending') /\ Cardinality(Pending') <= Cardinality(Pending)
      /\ Cardinality(Pending') \in Nat /\ Cardinality(Pending) \in Nat
  BY <1>1, FS_Subset, FS_CardinalityType DEF IInv, Asks
<1>3. ghost.doubleAsks \in Nat /\ Cardinality(Pending) <= 1 + ghost.doubleAsks
  BY DEF IInv, TypeOK, Ghost, Asks
<1>4. QED
  BY <1>2, <1>3 DEF Asks

(* A handler that has loaded something other than a start.                 *)
LEMMA Loading ==
    ASSUME IInv, NEW c \in Call, NEW l \in {Idle} \cup Loaded, l.op # "start",
           call' = [call EXCEPT ![c] = l],
           UNCHANGED <<test, row, attempts, appeal, request, ghost>>
    PROVE  IInv'
<1>1. TypeOK'
  BY DEF IInv, TypeOK
<1>2. Seats'
  <2>1. \A d \in Call : call'[d] = call[d] \/ call'[d].op # "start"
    BY DEF IInv, TypeOK
  <2>2. ghost.peak \in Nat
    BY Ghosts DEF IInv
  <2>3. QED
    BY <1>1, <2>1, <2>2, SeatsKept
<1>3. Asks'
  BY AsksKept
<1>4. Sums'
  BY DEF IInv, Sums
<1>5. QED
  BY <1>1, <1>2, <1>3, <1>4 DEF IInv

----------------------------------------------------------------------------

(* A handler that is done.                                                 *)
LEMMA Finished ==
    ASSUME IInv, NEW c \in Call, Done(c)
    PROVE  /\ call' \in [Call -> {Idle} \cup Loaded]
           /\ \A d \in Call : call'[d] = call[d] \/ call'[d].op # "start"
BY DEF IInv, TypeOK, Done, Idle

LEMMA LoadStartStep ==
    ASSUME IInv, NEW c \in Call, LoadStart(c)
    PROVE  IInv'
<1> DEFINE l == [op |-> "start", on |-> Len(attempts)]
<1>1. /\ row # NoRow /\ Cardinality(Completed) < MaxAttempts + row.attempts /\ ~Resumable
      /\ call' = [call EXCEPT ![c] = l]
      /\ UNCHANGED <<test, row, attempts, appeal, request, ghost>>
  BY DEF LoadStart, MayStart, Allowed, Begin
<1>2. TypeOK /\ Overlaps /\ Peaks
  BY DEF IInv, Seats
<1>3. Len(attempts) \in Nat
  BY <1>2, Attempts
<1>4. TypeOK'
  <2>1. l \in Loaded
    BY <1>3 DEF Loaded
  <2>2. QED
    BY <1>1, <1>2, <2>1 DEF TypeOK
<1>5. Len(attempts) < ghost.peak + ghost.doubleStarts
  <2>1. Cardinality(Running) <= ghost.doubleStarts
    BY <1>1, <1>2, FewRunning
  <2>2. Len(attempts) = Cardinality(Running) + Cardinality(Completed)
        /\ Cardinality(Running) \in Nat /\ Cardinality(Completed) \in Nat
    BY <1>2, Attempts
  <2>3. MaxAttempts + row.attempts <= ghost.peak
    BY <1>1, <1>2 DEF Peaks
  <2>4. row.attempts \in Nat /\ MaxAttempts \in Nat
    BY <1>1, <1>2, NumberAssumption DEF TypeOK, Row
  <2>5. ghost.peak \in Nat /\ ghost.doubleStarts \in Nat
    BY <1>2, Ghosts
  <2>6. QED
    BY <1>1, <2>1, <2>2, <2>3, <2>4, <2>5
<1>6. Starts'
  <2> SUFFICES ASSUME NEW d \in Call, call'[d].op = "start"
               PROVE  /\ call'[d].on < ghost.peak + ghost.doubleStarts
                      /\ test # "erased" => call'[d].on <= Len(attempts)
                      /\ test # "erased" /\ call'[d].on = Len(attempts) => ~Resumable
    BY <1>1 DEF Starts, Resumable
  <2>1. CASE d = c
    BY <1>1, <1>2, <1>3, <1>5, <2>1 DEF TypeOK
  <2>2. CASE d # c
    BY <1>1, <1>2, <2>2 DEF TypeOK, IInv, Seats, Starts
  <2>3. QED
    BY <2>1, <2>2
<1>7. Peaks' /\ Overlaps' /\ SeatsAreEarned'
  BY <1>1 DEF IInv, Seats, Peaks, Overlaps, SeatsAreEarned, Earlier, Running
<1>8. Asks'
  BY <1>1, AsksKept
<1>9. Sums'
  BY <1>1 DEF IInv, Sums
<1>10. QED
  BY <1>4, <1>6, <1>7, <1>8, <1>9 DEF IInv, Seats

LEMMA CommitStartStep ==
    ASSUME IInv, NEW c \in Call, CommitStart(c)
    PROVE  IInv'
<1> DEFINE n == Len(attempts)
           double == Len(attempts) # call[c].on \/ test = "erased"
<1>1. /\ call[c].op = "start"
      /\ attempts' = Append(attempts, "running") /\ appeal' = Append(appeal, "none")
      /\ ghost' = [ghost EXCEPT !.doubleStarts = @ + Count(double)]
      /\ Done(c) /\ UNCHANGED <<test, row, request>>
  BY DEF CommitStart
<1>2. TypeOK
  BY DEF IInv
<1>3. n \in Nat /\ DOMAIN attempts = 1 .. n /\ IsFiniteSet(Earlier) /\ Cardinality(Earlier) \in Nat
  BY <1>2, Attempts
<1>4. /\ attempts' \in Seq(AttemptState) /\ Len(attempts') = n + 1
      /\ DOMAIN attempts' = 1 .. n + 1
      /\ \A i \in 1 .. n : attempts'[i] = attempts[i]
      /\ attempts'[n + 1] = "running"
  <2>1. attempts \in Seq(AttemptState)
    BY <1>2 DEF TypeOK
  <2>2. QED
    BY <1>1, <2>1
<1>5. appeal' \in Seq(AppealState) /\ Len(appeal') = n + 1
  <2>1. appeal \in Seq(AppealState) /\ Len(appeal) = n
    BY <1>2 DEF TypeOK
  <2>2. QED
    BY <1>1, <2>1
<1>6. ghost.peak \in Nat /\ ghost.doubleStarts \in Nat
  BY <1>2, Ghosts
<1>7. /\ ghost' \in Ghost /\ ghost'.peak = ghost.peak
      /\ ghost'.doubleAsks = ghost.doubleAsks /\ ghost'.staleWrites = ghost.staleWrites
      /\ ghost'.owed = ghost.owed /\ ghost'.promised = ghost.promised
      /\ ghost'.doubleStarts = ghost.doubleStarts + Count(double)
  <2> HIDE DEF double
  <2>1. ghost.doubleStarts + Count(double) \in Nat
    BY <1>6 DEF Count
  <2>2. QED
    BY <1>1, <1>2, <2>1 DEF TypeOK, Ghost
<1>8. ghost'.doubleStarts \in Nat /\ ghost'.doubleStarts >= ghost.doubleStarts
      /\ (double => ghost'.doubleStarts = ghost.doubleStarts + 1)
  BY <1>6, <1>7 DEF Count
<1>9. call' \in [Call -> {Idle} \cup Loaded]
      /\ \A d \in Call : call'[d] = call[d] \/ call'[d].op # "start"
  BY <1>1, Finished
<1>10. call[c].on < ghost.peak + ghost.doubleStarts /\ (~double => ~Resumable)
  BY <1>1 DEF IInv, Seats, Starts
<1>11. call[c].on \in Nat
  BY <1>1, <1>2, Fields DEF TypeOK
<1>12. SeatsAreEarned'
  <2>1. n <= ghost.peak + ghost.doubleStarts
    BY DEF IInv, Seats, SeatsAreEarned
  <2>2. n + 1 <= ghost'.peak + ghost'.doubleStarts
    <3>1. CASE double
      BY <1>3, <1>6, <1>7, <1>8, <2>1, <3>1
    <3>2. CASE ~double
      BY <1>3, <1>6, <1>7, <1>8, <1>10, <1>11, <3>2
    <3>3. QED
      BY <3>1, <3>2
  <2>3. QED
    BY <1>4, <2>2 DEF SeatsAreEarned
<1>13. Overlaps'
  <2>1. Earlier' = Running
    BY <1>3, <1>4 DEF Earlier, Running
  <2>2. Cardinality(Running) <= 1 + Cardinality(Earlier) /\ Cardinality(Running) \in Nat
    BY <1>2, Attempts
  <2>3. Cardinality(Earlier) <= ghost.doubleStarts
    BY DEF IInv, Seats, Overlaps
  <2>4. ~double => Cardinality(Running) <= ghost.doubleStarts
    BY <1>2, <1>10, FewRunning DEF IInv, Seats
  <2>5. Cardinality(Running) <= ghost'.doubleStarts
    BY <1>3, <1>6, <1>8, <2>2, <2>3, <2>4
  <2>6. QED
    BY <2>1, <2>5 DEF Overlaps
<1>14. Starts'
  <2> SUFFICES ASSUME NEW d \in Call, call'[d].op = "start"
               PROVE  /\ call'[d].on < ghost'.peak + ghost'.doubleStarts
                      /\ test # "erased" => call'[d].on <= n
    BY <1>1, <1>3, <1>4, <1>9, <1>2, Fields DEF Starts, TypeOK
  <2>1. call'[d] = call[d] /\ call[d].op = "start" /\ call[d].on \in Nat
    BY <1>2, <1>9, Fields DEF TypeOK
  <2>2. call[d].on < ghost.peak + ghost.doubleStarts
        /\ (test # "erased" => call[d].on <= n)
    BY <2>1 DEF IInv, Seats, Starts
  <2>3. QED
    BY <1>6, <1>7, <1>8, <2>1, <2>2
<1>15. Peaks'
  BY <1>1, <1>7 DEF IInv, Seats, Peaks
<1>16. TypeOK'
  BY <1>1, <1>2, <1>4, <1>5, <1>7, <1>9 DEF TypeOK
<1>17. Asks' /\ Sums'
  BY <1>1, <1>7 DEF IInv, Asks, Sums, Pending
<1>18. QED
  BY <1>12, <1>13, <1>14, <1>15, <1>16, <1>17 DEF IInv, Seats

----------------------------------------------------------------------------

(* An attempt ends, or an appeal against it is made.                       *)
LEMMA AttemptStep ==
    ASSUME IInv, NEW i \in DOMAIN attempts,
           FinishAttempt(i) \/ Contest(i) \/ WindowCloses(i)
    PROVE  IInv'
<1>1. UNCHANGED <<test, row, request, call, ghost>>
  BY DEF FinishAttempt, Contest, WindowCloses
<1>2. TypeOK /\ Len(attempts) \in Nat /\ DOMAIN attempts = 1 .. Len(attempts)
      /\ IsFiniteSet(Earlier) /\ Cardinality(Earlier) \in Nat
  BY Attempts DEF IInv
<1>3. /\ attempts' \in Seq(AttemptState)
      /\ Len(attempts') = Len(attempts) /\ DOMAIN attempts' = DOMAIN attempts
      /\ \A j \in DOMAIN attempts : attempts'[j] = "running" => attempts[j] = "running"
  <2>1. attempts \in Seq(AttemptState)
    BY <1>2 DEF TypeOK
  <2>2. attempts' = attempts
        \/ \E end \in {"clean", "contestable"} : attempts' = [attempts EXCEPT ![i] = end]
    BY DEF FinishAttempt, Contest, WindowCloses
  <2>3. QED
    BY <2>1, <2>2
<1>4. appeal' \in Seq(AppealState) /\ Len(appeal') = Len(appeal)
  BY <1>2 DEF FinishAttempt, Contest, WindowCloses, TypeOK
<1>5. TypeOK'
  BY <1>1, <1>2, <1>3, <1>4 DEF TypeOK
<1>6. Starts'
  <2>1. Resumable' => Resumable
    BY <1>2, <1>3 DEF Resumable, TypeOK
  <2>2. QED
    BY <1>1, <1>3, <2>1 DEF IInv, Seats, Starts
<1>7. Overlaps'
  <2>1. Earlier' \subseteq Earlier
    BY <1>3 DEF Earlier, Running
  <2>2. Cardinality(Earlier') <= Cardinality(Earlier) /\ Cardinality(Earlier') \in Nat
    BY <1>2, <2>1, FS_Subset, FS_CardinalityType
  <2>3. Cardinality(Earlier) <= ghost.doubleStarts /\ ghost.doubleStarts \in Nat
    BY <1>2, Ghosts DEF IInv, Seats, Overlaps
  <2>4. QED
    BY <1>1, <1>2, <2>2, <2>3 DEF Overlaps
<1>8. Peaks' /\ SeatsAreEarned'
  BY <1>1, <1>3 DEF IInv, Seats, Peaks, SeatsAreEarned
<1>9. Asks' /\ Sums'
  BY <1>1 DEF IInv, Asks, Sums, Pending
<1>10. QED
  BY <1>5, <1>6, <1>7, <1>8, <1>9 DEF IInv, Seats

LEMMA AskStep ==
    ASSUME IInv, NEW c \in Call, NEW r \in Request, CommitAsk(c, r)
    PROVE  IInv'
<1> DEFINE double == \E q \in Request : request[q] = "pending"
<1>1. /\ request' = [request EXCEPT ![r] = "pending"]
      /\ ghost' = [ghost EXCEPT !.doubleAsks = @ + Count(double)]
      /\ Done(c) /\ UNCHANGED <<test, row, attempts, appeal>>
  BY DEF CommitAsk
<1>2. TypeOK /\ ghost.doubleAsks \in Nat /\ ghost.peak \in Nat
  BY Ghosts DEF IInv
<1>3. /\ ghost' \in Ghost /\ ghost'.peak = ghost.peak
      /\ ghost'.doubleStarts = ghost.doubleStarts /\ ghost'.staleWrites = ghost.staleWrites
      /\ ghost'.owed = ghost.owed /\ ghost'.promised = ghost.promised
      /\ ghost'.doubleAsks = ghost.doubleAsks + Count(double)
  <2> HIDE DEF double
  <2>1. ghost.doubleAsks + Count(double) \in Nat
    BY <1>2 DEF Count
  <2>2. QED
    BY <1>1, <1>2, <2>1 DEF TypeOK, Ghost
<1>4. call' \in [Call -> {Idle} \cup Loaded]
      /\ \A d \in Call : call'[d] = call[d] \/ call'[d].op # "start"
  BY <1>1, Finished
<1>5. TypeOK'
  BY <1>1, <1>2, <1>3, <1>4 DEF TypeOK
<1>6. Seats'
  BY <1>1, <1>2, <1>3, <1>4, <1>5, SeatsKept
<1>7. Sums'
  BY <1>1, <1>3 DEF IInv, Sums
<1>8. Asks'
  <2>1. Pending' = Pending \cup {r} /\ IsFiniteSet(Pending)
    BY <1>1, <1>2 DEF Pending, TypeOK, IInv, Asks
  <2>2. IsFiniteSet(Pending') /\ Cardinality(Pending) \in Nat
        /\ Cardinality(Pending') \in Nat /\ Cardinality(Pending') <= Cardinality(Pending) + 1
    <3>1. CASE r \in Pending
      <4>1. Pending' = Pending
        BY <2>1, <3>1
      <4>2. Cardinality(Pending) \in Nat
        BY <2>1, FS_CardinalityType
      <4>3. QED
        BY <2>1, <4>1, <4>2
    <3>2. CASE r \notin Pending
      <4>1. IsFiniteSet(Pending \cup {r}) /\ Cardinality(Pending \cup {r}) = Cardinality(Pending) + 1
        BY <2>1, <3>2, FS_AddElement
      <4>2. Cardinality(Pending) \in Nat
        BY <2>1, FS_CardinalityType
      <4>3. QED
        BY <2>1, <4>1, <4>2
    <3>3. QED
      BY <3>1, <3>2
  <2>3. Cardinality(Pending) <= 1 + ghost.doubleAsks
    BY DEF IInv, Asks
  <2>4. CASE double
    <3>1. ghost'.doubleAsks = ghost.doubleAsks + 1
      BY <1>3, <2>4 DEF Count
    <3>2. QED
      BY <1>2, <2>2, <2>3, <3>1 DEF Asks
  <2>5. CASE ~double
    <3>1. Cardinality(Pending) = 0
      <4>1. Pending = {}
        BY <2>5 DEF Pending
      <4>2. QED
        BY <4>1, FS_EmptySet
    <3>2. ghost'.doubleAsks \in Nat
      BY <1>2, <1>3, <2>5 DEF Count
    <3>3. QED
      BY <2>2, <3>1, <3>2 DEF Asks
  <2>6. QED
    BY <2>4, <2>5
<1>9. QED
  BY <1>5, <1>6, <1>7, <1>8 DEF IInv

(* What Store leaves, whatever else the commit counts.                     *)
LEMMA Stored ==
    ASSUME TypeOK, NEW new \in Row \cup {NoRow}, NEW g \in Ghost, Store(new, g)
    PROVE  /\ row' = new /\ ghost' \in Ghost
           /\ ghost'.owed = g.owed /\ ghost'.promised = g.promised
           /\ ghost'.doubleStarts = g.doubleStarts /\ ghost'.doubleAsks = g.doubleAsks
           /\ ghost'.staleWrites = g.staleWrites
           /\ ghost'.peak >= g.peak
           /\ new # NoRow => MaxAttempts + new.attempts <= ghost'.peak
<1>1. CASE new = NoRow
  BY <1>1 DEF Store, Ghost
<1>2. CASE new # NoRow
  <2>1. new.attempts \in Nat /\ MaxAttempts \in Nat /\ g.peak \in Nat
    BY <1>2, NumberAssumption DEF Row, Ghost
  <2>2. /\ Larger(g.peak, MaxAttempts + new.attempts) \in Nat
        /\ Larger(g.peak, MaxAttempts + new.attempts) >= g.peak
        /\ Larger(g.peak, MaxAttempts + new.attempts) >= MaxAttempts + new.attempts
    BY <2>1 DEF Larger
  <2>3. ghost' = [g EXCEPT !.peak = Larger(g.peak, MaxAttempts + new.attempts)] /\ row' = new
    BY <1>2 DEF Store
  <2>4. QED
    BY <2>1, <2>2, <2>3 DEF Ghost
<1>3. QED
  BY <1>1, <1>2

----------------------------------------------------------------------------

(* A decision that leaves the row alone, or a handler that gives up.       *)
LEMMA RefusalStep ==
    ASSUME IInv, NEW c \in Call, CommitDenial(c) \/ CommitRefusal(c) \/ GiveUp(c)
    PROVE  IInv'
<1>1. Done(c) /\ UNCHANGED <<test, row, attempts>>
  BY DEF CommitDenial, CommitRefusal, GiveUp
<1>2. TypeOK /\ call[c] \in {Idle} \cup Loaded
  BY DEF IInv, TypeOK
<1>3. \E n \in Nat : ghost' = [ghost EXCEPT !.staleWrites = ghost.staleWrites + n]
  <2>1. \A b : Count(b) \in Nat
    BY DEF Count
  <2>2. ghost = [ghost EXCEPT !.staleWrites = ghost.staleWrites + 0]
    BY <1>2 DEF TypeOK, Ghost
  <2>3. CASE GiveUp(c)
    BY <2>2, <2>3 DEF GiveUp
  <2>4. CASE CommitDenial(c)
    BY <2>1, <2>4 DEF CommitDenial
  <2>5. CASE CommitRefusal(c)
    BY <2>1, <2>5 DEF CommitRefusal
  <2>6. QED
    BY <2>3, <2>4, <2>5
<1>4. /\ ghost' \in Ghost /\ ghost'.peak = ghost.peak /\ ghost.peak \in Nat
      /\ ghost'.doubleStarts = ghost.doubleStarts /\ ghost'.doubleAsks = ghost.doubleAsks
      /\ ghost'.owed = ghost.owed /\ ghost'.promised = ghost.promised
      /\ ghost'.staleWrites = 0 => ghost.staleWrites = 0
  <2>1. PICK n \in Nat : ghost' = [ghost EXCEPT !.staleWrites = ghost.staleWrites + n]
    BY <1>3
  <2>2. ghost.staleWrites \in Nat /\ ghost.staleWrites + n \in Nat
        /\ (ghost.staleWrites + n = 0 => ghost.staleWrites = 0)
    BY <1>2, Ghosts
  <2>3. QED
    BY <1>2, <2>1, <2>2 DEF TypeOK, Ghost
<1>5. /\ request' \in [Request -> RequestState]
      /\ \A r \in Request : request'[r] = "pending" => request[r] = "pending"
  BY <1>2 DEF CommitDenial, CommitRefusal, GiveUp, TypeOK
<1>6. appeal' \in Seq(AppealState) /\ Len(appeal') = Len(appeal)
  <2>1. appeal \in Seq(AppealState)
    BY <1>2 DEF TypeOK
  <2>2. appeal' = appeal \/ \E i \in DOMAIN appeal : appeal' = [appeal EXCEPT ![i] = "denied"]
    BY DEF CommitDenial, CommitRefusal, GiveUp
  <2>3. QED
    BY <2>1, <2>2
<1>7. call' \in [Call -> {Idle} \cup Loaded]
      /\ \A d \in Call : call'[d] = call[d] \/ call'[d].op # "start"
  BY <1>1, Finished
<1>8. TypeOK'
  BY <1>1, <1>2, <1>4, <1>5, <1>6, <1>7 DEF TypeOK
<1>9. Seats'
  BY <1>1, <1>4, <1>7, <1>8, SeatsKept
<1>10. Asks'
  BY <1>4, <1>5, AsksKept
<1>11. Sums'
  BY <1>1, <1>4 DEF IInv, Sums
<1>12. QED
  BY <1>8, <1>9, <1>10, <1>11 DEF IInv

(* A commit that stores the row, and adds up what it owes.                 *)
LEMMA Storing ==
    ASSUME IInv, NEW new \in Row \cup {NoRow}, NEW g \in Ghost, Store(new, g),
           g.peak = ghost.peak, g.doubleStarts = ghost.doubleStarts,
           g.doubleAsks = ghost.doubleAsks,
           g.staleWrites = 0 =>
               /\ new = NoRow => g.owed = 0 /\ g.promised = 0
               /\ new # NoRow => new.attempts = g.owed /\ new.time >= g.promised,
           UNCHANGED <<test, attempts>>,
           appeal' \in Seq(AppealState), Len(appeal') = Len(appeal),
           request' \in [Request -> RequestState],
           \A r \in Request : request'[r] = "pending" => request[r] = "pending",
           call' \in [Call -> {Idle} \cup Loaded],
           \A d \in Call : call'[d] = call[d] \/ call'[d].op # "start"
    PROVE  IInv'
<1>1. TypeOK
  BY DEF IInv
<1>2. /\ row' = new /\ ghost' \in Ghost
      /\ ghost'.owed = g.owed /\ ghost'.promised = g.promised
      /\ ghost'.doubleStarts = ghost.doubleStarts /\ ghost'.doubleAsks = ghost.doubleAsks
      /\ ghost'.staleWrites = g.staleWrites
      /\ ghost'.peak >= ghost.peak
      /\ new # NoRow => MaxAttempts + new.attempts <= ghost'.peak
  BY <1>1, Stored
<1>3. TypeOK'
  BY <1>1, <1>2 DEF TypeOK
<1>4. Seats'
  BY <1>2, <1>3, SeatsKept
<1>5. Asks'
  BY <1>2, AsksKept
<1>6. Sums'
  BY <1>2 DEF Sums
<1>7. QED
  BY <1>3, <1>4, <1>5, <1>6 DEF IInv

LEMMA GrantStep ==
    ASSUME IInv, NEW c \in Call, CommitGrant(c)
    PROVE  IInv'
<1> DEFINE l == call[c]
           fresh == appeal[l.on] = "pending"
           stale == IF row = NoRow THEN ~fresh ELSE ~fresh \/ row.attempts # l.row.attempts
           new == IF row = NoRow THEN [time |-> 0, attempts |-> 1]
                  ELSE [row EXCEPT !.attempts = l.row.attempts + 1]
           g == [[ghost EXCEPT !.owed = @ + Count(fresh)] EXCEPT !.staleWrites = @ + Count(stale)]
<1>1. /\ l.op = "grant" /\ l.on \in DOMAIN appeal /\ (l.row = NoRow <=> row = NoRow)
      /\ appeal' = [appeal EXCEPT ![l.on] = "granted"]
      /\ Done(c) /\ UNCHANGED <<test, attempts, request>>
  BY DEF CommitGrant
<1>2. Store(new, g)
  <2>1. CASE row = NoRow
    BY <2>1 DEF CommitGrant
  <2>2. CASE row # NoRow
    BY <2>2 DEF CommitGrant
  <2>3. QED
    BY <2>1, <2>2
<1>3. TypeOK /\ l \in {Idle} \cup Loaded
  BY DEF IInv, TypeOK
<1>4. row \in Row \cup {NoRow} /\ l.row \in Row \cup {NoRow}
  BY <1>1, <1>3, Fields DEF TypeOK
<1>5. /\ new \in Row
      /\ new # NoRow
      /\ row = NoRow => new.attempts = 1 /\ new.time = 0
      /\ row # NoRow => new.attempts = l.row.attempts + 1 /\ new.time = row.time
  <2>1. CASE row = NoRow
    BY <2>1, CallAssumption DEF Row
  <2>2. CASE row # NoRow
    <3>1. row \in Row /\ l.row \in Row
      BY <1>1, <1>4, <2>2
    <3>2. QED
      BY <2>2, <3>1, CallAssumption DEF Row
  <2>3. QED
    BY <2>1, <2>2
<1>6. /\ g \in Ghost /\ g.peak = ghost.peak /\ g.promised = ghost.promised
      /\ g.doubleStarts = ghost.doubleStarts /\ g.doubleAsks = ghost.doubleAsks
      /\ g.staleWrites = 0 =>
            ghost.staleWrites = 0 /\ ~stale /\ g.owed = ghost.owed + 1
  <2> DEFINE o == ghost.owed + Count(fresh)
             s == ghost.staleWrites + Count(stale)
  <2>1. o \in Nat /\ s \in Nat /\ (fresh => o = ghost.owed + 1)
        /\ (s = 0 => ghost.staleWrites = 0 /\ ~stale)
    <3> HIDE DEF fresh, stale
    <3>1. QED
      BY <1>3, Ghosts DEF Count
  <2>2. ~stale => fresh
    OBVIOUS
  <2>3. g = [ghost EXCEPT !.owed = o, !.staleWrites = s]
    <3> HIDE DEF fresh, stale
    <3>1. QED
      BY <1>3 DEF TypeOK, Ghost
  <2> HIDE DEF o, s, g, fresh, stale
  <2>4. QED
    BY <1>3, <2>1, <2>2, <2>3 DEF TypeOK, Ghost
<1>7. g.staleWrites = 0 => new.attempts = g.owed /\ new.time >= g.promised
  <2> SUFFICES ASSUME g.staleWrites = 0
               PROVE  new.attempts = g.owed /\ new.time >= g.promised
    OBVIOUS
  <2>1. ghost.staleWrites = 0 /\ ~stale /\ g.owed = ghost.owed + 1
    BY <1>6
  <2>2. CASE row = NoRow
    <3>1. ghost.owed = 0 /\ ghost.promised = 0
      BY <2>1, <2>2 DEF IInv, Sums
    <3>2. QED
      BY <1>5, <1>6, <2>1, <2>2, <3>1
  <2>3. CASE row # NoRow
    <3>1. row.attempts = ghost.owed /\ row.time >= ghost.promised
      BY <2>1, <2>3 DEF IInv, Sums
    <3>2. row.attempts = l.row.attempts
      BY <2>1, <2>3
    <3>3. QED
      BY <1>5, <1>6, <2>1, <2>3, <3>1, <3>2
  <2>4. QED
    BY <2>2, <2>3
<1>8. appeal' \in Seq(AppealState) /\ Len(appeal') = Len(appeal)
  <2>1. appeal \in Seq(AppealState)
    BY <1>3 DEF TypeOK
  <2>2. QED
    BY <1>1, <2>1
<1>9. call' \in [Call -> {Idle} \cup Loaded]
      /\ \A d \in Call : call'[d] = call[d] \/ call'[d].op # "start"
  BY <1>1, Finished
<1>10. request' \in [Request -> RequestState]
  BY <1>1, <1>3 DEF TypeOK
<1> HIDE DEF new, g
<1>11. QED
  BY <1>1, <1>2, <1>5, <1>6, <1>7, <1>8, <1>9, <1>10, Storing

LEMMA ApprovalStep ==
    ASSUME IInv, NEW c \in Call, CommitApproval(c)
    PROVE  IInv'
<1> DEFINE l == call[c]
           fresh == request[l.on] = "pending"
           stale == ~fresh \/ row.time # l.row.time
           g == [ghost EXCEPT
                    !.promised = IF fresh THEN Larger(@, Minutes[l.on]) ELSE @,
                    !.staleWrites = @ + Count(stale)]
<1>1. /\ l.op = "approve" /\ row # NoRow
      /\ request' = [request EXCEPT ![l.on] = "approved"]
      /\ Store(Approved(l), g)
      /\ Done(c) /\ UNCHANGED <<test, attempts, appeal>>
  BY DEF CommitApproval
<1>2. TypeOK /\ l \in {Idle} \cup Loaded
  BY DEF IInv, TypeOK
<1>3. row \in Row /\ l.row \in Row /\ l.on \in Request /\ Minutes[l.on] \in Nat
  BY <1>1, <1>2, Fields, MinutesAssumption DEF TypeOK
<1>4. /\ Approved(l) \in Row /\ Approved(l) # NoRow
      /\ Approved(l).attempts = row.attempts
      /\ Approved(l).time = IF Minutes[l.on] > l.row.time THEN Minutes[l.on] ELSE row.time
  <2> HIDE DEF l
  <2>1. [row EXCEPT !.time = Minutes[l.on]] \in Row
        /\ [row EXCEPT !.time = Minutes[l.on]].attempts = row.attempts
        /\ [row EXCEPT !.time = Minutes[l.on]].time = Minutes[l.on]
    BY <1>3 DEF Row
  <2>2. \A x \in Row : x # NoRow
    BY CallAssumption DEF Row
  <2>3. QED
    BY <1>3, <2>1, <2>2 DEF Approved
<1>5. /\ g \in Ghost /\ g.peak = ghost.peak /\ g.owed = ghost.owed
      /\ g.doubleStarts = ghost.doubleStarts /\ g.doubleAsks = ghost.doubleAsks
      /\ g.staleWrites = 0 =>
            /\ ghost.staleWrites = 0 /\ fresh /\ row.time = l.row.time
            /\ g.promised = Larger(ghost.promised, Minutes[l.on])
  <2> DEFINE p == IF fresh THEN Larger(ghost.promised, Minutes[l.on]) ELSE ghost.promised
             s == ghost.staleWrites + Count(stale)
  <2>1. p \in Nat /\ s \in Nat /\ (s = 0 => ghost.staleWrites = 0 /\ ~stale)
    <3> HIDE DEF fresh, stale, l
    <3>1. QED
      BY <1>2, <1>3, Ghosts DEF Count, Larger
  <2>2. ~stale => fresh /\ row.time = l.row.time
    OBVIOUS
  <2>3. g = [ghost EXCEPT !.promised = p, !.staleWrites = s]
    OBVIOUS
  <2>4. fresh => p = Larger(ghost.promised, Minutes[l.on])
    OBVIOUS
  <2> HIDE DEF p, s, g, fresh, stale, l
  <2>5. QED
    BY <1>2, <2>1, <2>2, <2>3, <2>4 DEF TypeOK, Ghost
<1>6. g.staleWrites = 0 => Approved(l).attempts = g.owed /\ Approved(l).time >= g.promised
  <2> HIDE DEF g, l, fresh, stale
  <2> SUFFICES ASSUME g.staleWrites = 0
               PROVE  Approved(l).attempts = g.owed /\ Approved(l).time >= g.promised
    OBVIOUS
  <2>1. row.attempts = ghost.owed /\ row.time >= ghost.promised
    BY <1>1, <1>5 DEF IInv, Sums
  <2>2. row.time \in Nat /\ ghost.promised \in Nat
    BY <1>2, <1>3, Ghosts DEF Row
  <2>3. QED
    BY <1>3, <1>4, <1>5, <2>1, <2>2 DEF Larger
<1>7. /\ request' \in [Request -> RequestState]
      /\ \A r \in Request : request'[r] = "pending" => request[r] = "pending"
  BY <1>1, <1>2 DEF TypeOK
<1>8. call' \in [Call -> {Idle} \cup Loaded]
      /\ \A d \in Call : call'[d] = call[d] \/ call'[d].op # "start"
  BY <1>1, Finished
<1>9. appeal' \in Seq(AppealState) /\ Len(appeal') = Len(appeal)
  BY <1>1, <1>2 DEF TypeOK
<1> HIDE DEF g, l
<1>10. QED
  BY <1>1, <1>4, <1>5, <1>6, <1>7, <1>8, <1>9, Storing

(* An approval that fails leaves a row that grants nothing, and owes       *)
(* nothing.                                                                *)
LEMMA FailedApprovalStep ==
    ASSUME IInv, NEW c \in Call, ApprovalFails(c)
    PROVE  IInv'
<1> DEFINE new == [time |-> 0, attempts |-> 0]
<1>1. /\ row = NoRow /\ Store(new, ghost) /\ Done(c)
      /\ UNCHANGED <<test, attempts, appeal, request>>
  BY DEF ApprovalFails
<1>2. TypeOK /\ ghost \in Ghost
  BY DEF IInv, TypeOK
<1>3. /\ new \in Row /\ new # NoRow
      /\ new.attempts = 0 /\ new.time = 0
  BY CallAssumption DEF Row
<1>4. ghost.staleWrites = 0 => ghost.owed = 0 /\ ghost.promised = 0
  BY <1>1 DEF IInv, Sums
<1>5. /\ appeal' \in Seq(AppealState) /\ Len(appeal') = Len(appeal)
      /\ request' \in [Request -> RequestState]
  BY <1>1, <1>2 DEF TypeOK
<1>6. call' \in [Call -> {Idle} \cup Loaded]
      /\ \A d \in Call : call'[d] = call[d] \/ call'[d].op # "start"
  BY <1>1, Finished
<1> HIDE DEF new
<1>7. QED
  BY <1>1, <1>2, <1>3, <1>4, <1>5, <1>6, Storing

(* Staff write the row, insert one or remove it.                           *)
LEMMA SetStep ==
    ASSUME IInv, NEW c \in Call, CommitSet(c)
    PROVE  IInv'
<1> DEFINE l == call[c]
           new == [time |-> IF l.new["time"] = l.row["time"] THEN row["time"] ELSE l.new["time"],
                   attempts |-> IF l.new["attempts"] = l.row["attempts"]
                                THEN row["attempts"] ELSE l.new["attempts"]]
           stale == row # l.row
           g == [ghost EXCEPT !.owed = l.new.attempts, !.promised = l.new.time,
                              !.staleWrites = @ + Count(stale)]
<1>1. /\ l.op = "set" /\ row # NoRow
      /\ Store(new, g)
      /\ Done(c) /\ UNCHANGED <<test, attempts, appeal, request>>
  BY DEF CommitSet
<1>2. TypeOK /\ l \in {Idle} \cup Loaded
  BY DEF IInv, TypeOK
<1>3. row \in Row /\ l.row \in Row /\ l.new \in Row
  BY <1>1, <1>2, Fields DEF TypeOK
<1>4. /\ new \in Row /\ new # NoRow
      /\ ~stale => new.attempts = l.new.attempts /\ new.time = l.new.time
  <2> HIDE DEF l
  <2>1. new \in Row
    BY <1>3 DEF Row
  <2>2. QED
    BY <1>3, <2>1, CallAssumption DEF Row
<1>5. /\ g \in Ghost /\ g.peak = ghost.peak
      /\ g.doubleStarts = ghost.doubleStarts /\ g.doubleAsks = ghost.doubleAsks
      /\ g.owed = l.new.attempts /\ g.promised = l.new.time
      /\ g.staleWrites = 0 => ~stale
  <2> DEFINE s == ghost.staleWrites + Count(stale)
  <2>1. s \in Nat /\ (s = 0 => ~stale)
    <3> HIDE DEF stale, l
    <3>1. QED
      BY <1>2, Ghosts DEF Count
  <2>2. g = [ghost EXCEPT !.owed = l.new.attempts, !.promised = l.new.time, !.staleWrites = s]
    OBVIOUS
  <2>3. l.new.attempts \in Nat /\ l.new.time \in Nat
    BY <1>3 DEF Row
  <2> HIDE DEF s, g, stale, l
  <2>4. QED
    BY <1>2, <2>1, <2>2, <2>3 DEF TypeOK, Ghost
<1>6. g.staleWrites = 0 => new.attempts = g.owed /\ new.time >= g.promised
  <2>1. l.new.time \in Nat
    BY <1>3 DEF Row
  <2> HIDE DEF g, l, stale, new
  <2>2. QED
    BY <1>4, <1>5, <2>1
<1>7. call' \in [Call -> {Idle} \cup Loaded]
      /\ \A d \in Call : call'[d] = call[d] \/ call'[d].op # "start"
  BY <1>1, Finished
<1>8. /\ appeal' \in Seq(AppealState) /\ Len(appeal') = Len(appeal)
      /\ request' \in [Request -> RequestState]
  BY <1>1, <1>2 DEF TypeOK
<1> HIDE DEF g, l, new
<1>9. QED
  BY <1>1, <1>4, <1>5, <1>6, <1>7, <1>8, Storing

LEMMA AssignStep ==
    ASSUME IInv, \/ \E t \in StaffTimes, n \in StaffExtras : Assign(t, n)
                 \/ Unassign
    PROVE  IInv'
<1> DEFINE G(n, t) == [ghost EXCEPT !.owed = n, !.promised = t]
<1>1. TypeOK
  BY DEF IInv
<1>2. UNCHANGED <<test, attempts, appeal, request, call>>
  BY DEF Assign, Unassign
<1>3. /\ appeal' \in Seq(AppealState) /\ Len(appeal') = Len(appeal)
      /\ request' \in [Request -> RequestState]
      /\ call' \in [Call -> {Idle} \cup Loaded]
  BY <1>1, <1>2 DEF TypeOK
<1>4. \A n, t \in Nat :
          /\ G(n, t) \in Ghost /\ G(n, t).peak = ghost.peak
          /\ G(n, t).doubleStarts = ghost.doubleStarts /\ G(n, t).doubleAsks = ghost.doubleAsks
          /\ G(n, t).owed = n /\ G(n, t).promised = t
  BY <1>1 DEF TypeOK, Ghost
<1>5. \E n, t \in Nat, new \in Row \cup {NoRow} :
          /\ Store(new, G(n, t))
          /\ new = NoRow => n = 0 /\ t = 0
          /\ new # NoRow => new.attempts = n /\ new.time >= t
  <2>1. ASSUME NEW t \in StaffTimes, NEW n \in StaffExtras, Assign(t, n) PROVE <1>5
    <3>1. n \in Nat /\ t \in Nat
      BY NumberAssumption
    <3>2. [time |-> t, attempts |-> n] \in Row /\ [time |-> t, attempts |-> n] # NoRow
      BY <3>1, CallAssumption DEF Row
    <3>3. Store([time |-> t, attempts |-> n], G(n, t))
      BY <2>1 DEF Assign
    <3> HIDE DEF G
    <3>4. QED
      BY <3>1, <3>2, <3>3
  <2>2. ASSUME Unassign PROVE <1>5
    <3>1. Store(NoRow, G(0, 0))
      BY <2>2 DEF Unassign
    <3> HIDE DEF G
    <3>2. QED
      BY <3>1
  <2>3. QED
    BY <2>1, <2>2
<1> HIDE DEF G
<1>6. QED
  BY ZenonT(40), <1>2, <1>3, <1>4, <1>5, Storing

(* The test is offered, withdrawn, put in the trash and taken out again;   *)
(* out of the trash it goes with the row and the attempts.                 *)
LEMMA TestStep ==
    ASSUME IInv, SetTest \/ Erase
    PROVE  IInv'
<1>1. TypeOK
  BY DEF IInv
<1>2. CASE SetTest
  <2>1. TypeOK'
    BY <1>1, <1>2 DEF SetTest, TypeOK
  <2>2. ghost.peak \in Nat /\ UNCHANGED <<row, attempts, appeal, request, call, ghost>>
        /\ (test' # "erased" => test # "erased")
    BY <1>1, <1>2, Ghosts DEF SetTest
  <2>3. Seats'
    BY <2>1, <2>2, SeatsKept
  <2>4. Asks' /\ Sums'
    BY <2>2 DEF IInv, Asks, Sums, Pending
  <2>5. QED
    BY <2>1, <2>3, <2>4 DEF IInv
<1>3. CASE Erase
  <2> DEFINE g == [ghost EXCEPT !.owed = 0, !.promised = 0]
  <2>1. /\ test' = "erased" /\ attempts' = <<>> /\ appeal' = <<>>
        /\ Store(NoRow, g) /\ UNCHANGED <<request, call>>
    BY <1>3 DEF Erase
  <2>2. row' = NoRow /\ ghost' = g
    BY <2>1 DEF Store
  <2>3. /\ g \in Ghost /\ g.peak = ghost.peak /\ g.owed = 0 /\ g.promised = 0
        /\ g.doubleStarts = ghost.doubleStarts /\ g.doubleAsks = ghost.doubleAsks
    BY <1>1 DEF TypeOK, Ghost
  <2> HIDE DEF g
  <2>4. TypeOK'
    <3>1. attempts' \in Seq(AttemptState) /\ Len(attempts') = 0
          /\ appeal' \in Seq(AppealState) /\ Len(appeal') = 0
      BY <2>1
    <3>2. QED
      BY <1>1, <2>1, <2>2, <2>3, <3>1 DEF TypeOK
  <2>5. Starts'
    BY <2>1, <2>2, <2>3 DEF IInv, Seats, Starts
  <2>6. Overlaps'
    <3>1. Earlier' = {}
      BY <2>1 DEF Earlier, Running
    <3>2. Cardinality(Earlier') = 0
      BY <3>1, FS_EmptySet
    <3>3. ghost'.doubleStarts \in Nat
      BY <1>1, <2>2, <2>3, Ghosts
    <3>4. QED
      BY <3>2, <3>3 DEF Overlaps
  <2>7. SeatsAreEarned'
    <3>1. ghost'.peak \in Nat /\ ghost'.doubleStarts \in Nat /\ Len(attempts') = 0
      BY <1>1, <2>1, <2>2, <2>3, Ghosts
    <3>2. QED
      BY <3>1 DEF SeatsAreEarned
  <2>8. Peaks' /\ Asks' /\ Sums'
    BY <2>1, <2>2, <2>3 DEF Peaks, IInv, Asks, Sums, Pending
  <2>9. QED
    BY <2>4, <2>5, <2>6, <2>7, <2>8 DEF IInv, Seats
<1>4. QED
  BY <1>2, <1>3

LEMMA LoadStep ==
    ASSUME IInv, NEW c \in Call,
           \/ LoadAsk(c) \/ LoadGrant(c) \/ LoadApproval(c)
           \/ \E i \in DOMAIN appeal : LoadAppeal(c, i)
           \/ \E r \in Request : LoadRequest(c, r)
           \/ \E t \in StaffTimes, n \in StaffExtras : LoadSet(c, t, n)
    PROVE  IInv'
<1>1. TypeOK /\ call[c] \in {Idle} \cup Loaded
  BY DEF IInv, TypeOK
<1>2. row \in Row \cup {NoRow}
  BY <1>1 DEF TypeOK
<1>3. ASSUME LoadAsk(c) PROVE IInv'
  <2>1. [op |-> "ask"] \in Loaded
    BY DEF Loaded
  <2>2. QED
    BY <1>3, <2>1, Loading DEF LoadAsk, Begin
<1>4. ASSUME LoadGrant(c) PROVE IInv'
  <2> DEFINE l == [op |-> "grant", on |-> call[c].on, row |-> row]
  <2>1. call[c].on \in Nat \ {0}
    BY <1>1, <1>4, Fields DEF LoadGrant
  <2>2. l \in Loaded /\ l.op # "start"
    BY <1>2, <2>1 DEF Loaded
  <2>3. call' = [call EXCEPT ![c] = l]
    BY <1>4 DEF LoadGrant
  <2> HIDE DEF l
  <2>4. QED
    BY <1>4, <2>2, <2>3, Loading DEF LoadGrant
<1>5. ASSUME LoadApproval(c) PROVE IInv'
  <2> DEFINE l == [op |-> "approve", on |-> call[c].on, row |-> row]
  <2>1. call[c].on \in Request /\ row \in Row
    BY <1>1, <1>2, <1>5, Fields DEF LoadApproval
  <2>2. l \in Loaded /\ l.op # "start"
    BY <2>1 DEF Loaded
  <2>3. call' = [call EXCEPT ![c] = l]
    BY <1>5 DEF LoadApproval
  <2> HIDE DEF l
  <2>4. QED
    BY <1>5, <2>2, <2>3, Loading DEF LoadApproval
<1>6. ASSUME NEW i \in DOMAIN appeal, LoadAppeal(c, i) PROVE IInv'
  <2>1. i \in Nat \ {0}
    BY <1>1 DEF TypeOK
  <2>2. [op |-> "appeal", on |-> i] \in Loaded
    BY <2>1 DEF Loaded
  <2>3. QED
    BY <1>6, <2>2, Loading DEF LoadAppeal, Begin
<1>7. ASSUME NEW r \in Request, LoadRequest(c, r) PROVE IInv'
  <2>1. [op |-> "request", on |-> r] \in Loaded
    BY DEF Loaded
  <2>2. QED
    BY <1>7, <2>1, Loading DEF LoadRequest, Begin
<1>8. ASSUME NEW t \in StaffTimes, NEW n \in StaffExtras, LoadSet(c, t, n) PROVE IInv'
  <2>1. [time |-> t, attempts |-> n] \in Row /\ row \in Row
    BY <1>2, <1>8, NumberAssumption DEF Row, LoadSet
  <2>2. [op |-> "set", row |-> row, new |-> [time |-> t, attempts |-> n]] \in Loaded
    BY <2>1 DEF Loaded
  <2>3. QED
    BY <1>8, <2>2, Loading DEF LoadSet, Begin
<1>9. QED
  BY <1>3, <1>4, <1>5, <1>6, <1>7, <1>8

----------------------------------------------------------------------------

LEMMA Step == IInv /\ [Next]_vars => IInv'
<1> SUFFICES ASSUME IInv, [Next]_vars PROVE IInv'
  OBVIOUS
<1>1. CASE Student
  BY <1>1, LoadStartStep, CommitStartStep, LoadStep, AskStep, AttemptStep DEF Student
<1>2. CASE Staff
  BY <1>2, LoadStep, GrantStep, ApprovalStep, FailedApprovalStep, RefusalStep, SetStep,
     AssignStep, TestStep DEF Staff, Enroll
<1>3. CASE UNCHANGED vars
  BY <1>3 DEF vars, IInv, TypeOK, Seats, Peaks, Starts, Resumable, Overlaps, Earlier, Running,
              SeatsAreEarned, Asks, Pending, Sums
<1>4. QED
  BY <1>1, <1>2, <1>3 DEF Next

(* Every reachable state satisfies the strengthened invariant: a start     *)
(* under way found room, attempts left in progress behind the latest one   *)
(* are due to overlaps, and nothing is owed where there is no row.         *)
THEOREM Invariance == Spec => []IInv
<1>1. Init => IInv
  BY Start
<1>2. IInv /\ [Next]_vars => IInv'
  BY Step
<1>3. QED
  BY <1>1, <1>2, PTL DEF Spec

(* The type invariant holds of the row, the attempts, the appeals, the     *)
(* requests and what the handlers have loaded.                             *)
THEOREM TypeCorrect == Spec => []TypeOK
<1>1. IInv => TypeOK
  BY DEF IInv
<1>2. QED
  BY <1>1, Invariance, PTL

(* start_test never gives a student more attempts than staff ever allowed, *)
(* and one for each start that overlapped another.                         *)
THEOREM Seating == Spec => []SeatsAreEarned
<1>1. IInv => SeatsAreEarned
  BY DEF IInv, Seats
<1>2. QED
  BY <1>1, Invariance, PTL

(* A second attempt in progress (start_test) or a second pending request   *)
(* (request_accommodation) is the work of two calls that overlapped.       *)
THEOREM Doubling == Spec => []OnlyOverlapsDouble
<1>1. IInv => OnlyOverlapsDouble
  <2> SUFFICES ASSUME IInv PROVE OnlyOverlapsDouble
    OBVIOUS
  <2>1. TypeOK /\ Cardinality(Earlier) <= ghost.doubleStarts
    BY DEF IInv, Seats, Overlaps
  <2>2. /\ Cardinality(Running) <= 1 + Cardinality(Earlier)
        /\ Cardinality(Running) \in Nat /\ Cardinality(Earlier) \in Nat
    BY <2>1, Attempts
  <2>3. ghost.doubleStarts \in Nat
    BY <2>1, Ghosts
  <2>4. Cardinality(Running) <= 1 + ghost.doubleStarts
    BY <2>1, <2>2, <2>3
  <2>5. QED
    BY <2>4 DEF OnlyOverlapsDouble, IInv, Asks
<1>2. QED
  BY <1>1, Invariance, PTL

(* resolve_appeal, the decisions on extra time and update_eligibility add  *)
(* up in the row, as long as no two of them overlapped on it.              *)
THEOREM AddingUp == Spec => []DecisionsAddUp
<1>1. IInv => DecisionsAddUp
  BY DEF IInv, Sums, DecisionsAddUp
<1>2. QED
  BY <1>1, Invariance, PTL
=============================================================================
