--------------------------- MODULE MCAttemptRecord ---------------------------
(* The instance of AttemptRecord that TLC checks, with its policy.         *)
EXTENDS AttemptRecord, TLC

Entry(action, default_action, limit, escalate, grace) ==
    [action |-> action, default_action |-> default_action,
     warning_limit |-> limit, escalate_action |-> escalate, grace |-> grace]

(* The network check warns once and then ends the exam; every other type   *)
(* has a grace period and then the severity its caller gives it.           *)
MixedPolicy ==
    [e \in EventType |->
        IF e = IpEvent THEN Entry("warning", "terminate", 1, "terminate", FALSE)
        ELSE Entry("default", "default", 0, "flag", TRUE)]

(* The workers are interchangeable.                                        *)
WorkerSymmetry == Permutations(Worker)

============================================================================
