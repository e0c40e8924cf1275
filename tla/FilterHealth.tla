---------------------------- MODULE FilterHealth ----------------------------
(***************************************************************************)
(* The part of the status that says whether the admission control filter   *)
(* works: the conditions FilterEffective and SignalCollectionAvailable and *)
(* shedRateNow, which every Reconcile computes from its signals and from a *)
(* counter in memory (internal/controller/adaptivepolicy_controller.go,    *)
(* step 8).                                                                *)
(*                                                                         *)
(* Signals are told apart by what this step asks of them:                  *)
(*   inactive     success rate below the threshold at enough requests, and *)
(*                nothing rejected: the filter should act and does not     *)
(*   ejecting     requests are rejected                                    *)
(*   healthy      neither                                                  *)
(*   none         too few requests: the safe defaults                      *)
(*   unreachable  ReadSignals returns an error                             *)
(***************************************************************************)
EXTENDS Integers, Sequences

CONSTANTS
    MaxEdits,   \* bound on edits of the spec
    MaxFaults   \* bound on failed status patches and restarts together

ASSUME FilterHealthAssumption == MaxEdits \in Nat /\ MaxFaults \in Nat

Kind == {"healthy", "inactive", "ejecting", "none", "unreachable"}

FilterInactiveThreshold == 3

NoSample == "no sample"

VARIABLES
    traffic,   \* the signals of the last interval, as a scrape would show them
    pending,   \* the signal the poller has sent, if any
    spec,      \* admissionControl.enabled and dryRun
    inactive,  \* State.ConsecutiveFilterInactive, saturated at its threshold
    status,    \* the conditions and shedRateNow on the server
    echo,      \* the watch event of the last status patch waits for a Reconcile
    edits,     \* number of edits of the spec so far
    faults,    \* number of failed patches and restarts so far
    log,       \* history: the last samples this process has counted
    reported   \* history: the status patch after the newest of them succeeded

vars == <<traffic, pending, spec, inactive, status, echo, edits, faults, log, reported>>

Init ==
    /\ traffic \in Kind
    /\ pending = NoSample
    /\ spec \in [admission: BOOLEAN, dryRun: BOOLEAN]
    /\ inactive = 0
    /\ status = [effective |-> "none", collecting |-> "none", shed |-> FALSE]
    /\ echo = FALSE
    /\ edits = 0
    /\ faults = 0
    /\ log = <<>>
    /\ reported = FALSE

-----------------------------------------------------------------------------
(* What this Reconcile reads: the poller's signal if there is one, or else *)
(* a scrape. A status patch is an event that starts the next Reconcile at  *)
(* once; within 0.1 s no delta is counted, and a little later there are    *)
(* few requests, so that its scrape mostly shows none.                     *)
Sampled ==
    IF pending # NoSample THEN {pending}
    ELSE IF echo /\ traffic # "unreachable" THEN {traffic, "none"}
    ELSE {traffic}

Judged(sample) == spec.admission /\ ~spec.dryRun /\ sample # "unreachable"

(* Seeded fault: only ejections reset the counter. *)
InactiveAfterWrongKept(sample) ==
    IF ~Judged(sample) THEN inactive
    ELSE IF sample = "ejecting" THEN 0
    ELSE IF sample = "inactive" /\ inactive < FilterInactiveThreshold THEN inactive + 1
    ELSE inactive

(* Seeded fault: the counter counts past what it is compared with. *)
InactiveAfterWrongNegative(sample) ==
    IF sample = "inactive" THEN inactive + 1 ELSE inactive - 1

InactiveAfter(sample) ==
    IF ~Judged(sample) THEN inactive
    ELSE IF sample # "inactive" THEN 0
    ELSE IF inactive < FilterInactiveThreshold THEN inactive + 1 ELSE inactive

(* Seeded fault: the alarm comes one interval late. *)
EffectiveAfterWrongLate(sample) ==
    IF Judged(sample) /\ inactive >= FilterInactiveThreshold /\ sample = "inactive" THEN "False"
    ELSE IF Judged(sample) /\ sample = "ejecting" THEN "True"
    ELSE status.effective

(* Seeded fault: a condition that is set is never set again. *)
EffectiveAfterWrongSticky(sample) ==
    IF status.effective # "none" THEN status.effective
    ELSE IF Judged(sample) /\ InactiveAfter(sample) >= FilterInactiveThreshold THEN "False"
    ELSE IF Judged(sample) /\ sample = "ejecting" THEN "True"
    ELSE status.effective

(* Anything but a third inactive sample and ejections leaves the condition *)
(* as it is, also when the filter is disabled or in dryRun.                *)
EffectiveAfter(sample) ==
    IF Judged(sample) /\ InactiveAfter(sample) >= FilterInactiveThreshold THEN "False"
    ELSE IF Judged(sample) /\ sample = "ejecting" THEN "True"
    ELSE status.effective

(* Seeded fault: the rate does not look at dryRun. *)
ShedRateWrongDryRun(sample) == spec.admission /\ sample = "ejecting"

(* actualShedRate is not "0%". *)
ShedRate(sample) == spec.admission /\ ~spec.dryRun /\ sample = "ejecting"

StatusAfter(sample) ==
    [effective  |-> EffectiveAfter(sample),
     collecting |-> IF sample = "unreachable" THEN "False" ELSE "True",
     shed       |-> ShedRate(sample)]

Remember(sample) ==
    LET all == Append(log, sample)
    IN  log' = IF ~Judged(sample) THEN log
               ELSE IF Len(all) > FilterInactiveThreshold THEN Tail(all) ELSE all

(* The counter moves on whether the status patch succeeds or not. A        *)
(* Reconcile that is not an echo changes lastReconcileTime at least.       *)
Report(sample, patched) ==
    /\ inactive' = InactiveAfter(sample)
    /\ pending' = NoSample
    /\ status' = IF patched THEN StatusAfter(sample) ELSE status
    /\ echo' = (patched /\ (~echo \/ status' # status))
    /\ faults' = IF patched THEN faults ELSE faults + 1
    /\ faults' <= MaxFaults
    /\ Remember(sample)
    /\ reported' = IF Judged(sample) THEN patched ELSE reported
    /\ UNCHANGED <<traffic, spec, edits>>

Reconcile == \E sample \in Sampled : Report(sample, TRUE)

StatusPatchFails == \E sample \in Sampled : Report(sample, FALSE)

-----------------------------------------------------------------------------
(* The poller announces a breach or a recovery. *)
PollerSends ==
    /\ traffic \notin {"none", "unreachable"}
    /\ pending' = traffic
    /\ UNCHANGED <<traffic, spec, inactive, status, echo, edits, faults, log, reported>>

TrafficChanges(k) ==
    /\ k # traffic
    /\ traffic' = k
    /\ UNCHANGED <<pending, spec, inactive, status, echo, edits, faults, log, reported>>

(* An edit of the spec is an event too, and starts a Reconcile at once. *)
EditSpec(s) ==
    /\ s # spec
    /\ edits < MaxEdits
    /\ spec' = s
    /\ edits' = edits + 1
    /\ echo' = TRUE
    /\ UNCHANGED <<traffic, pending, inactive, status, faults, log, reported>>

Restart ==
    /\ faults < MaxFaults
    /\ faults' = faults + 1
    /\ inactive' = 0
    /\ pending' = NoSample
    /\ echo' = FALSE
    /\ log' = <<>>
    /\ reported' = FALSE
    /\ UNCHANGED <<traffic, spec, status, edits>>

Next ==
    \/ Reconcile \/ StatusPatchFails
    \/ PollerSends
    \/ \E k \in Kind : TrafficChanges(k)
    \/ \E s \in [admission: BOOLEAN, dryRun: BOOLEAN] : EditSpec(s)
    \/ Restart

Spec == Init /\ [][Next]_vars

(* Every Reconcile requeues itself; nothing is assumed of the rest. *)
FairSpec == Spec /\ WF_vars(Reconcile)
=============================================================================
