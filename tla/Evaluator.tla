------------------------------ MODULE Evaluator ------------------------------
(***************************************************************************)
(* The trigger evaluator over time: the State of one policy in the memory  *)
(* of the operator, called once per reconcile with the current signals,    *)
(* while the service, the clock, humans and restarts go on around it.      *)
(* Humans edit the conditions and cooldowns of the triggers too: State is  *)
(* kept by trigger name, so a counter and a fire time outlive the edit and *)
(* are compared with the new numbers.                                      *)
(*                                                                         *)
(* since[t] is time.Since(LastTriggerFireTime[t]), saturated at the        *)
(* longest cooldown: "never fired" and "fired that long ago" read alike.   *)
(***************************************************************************)
EXTENDS TriggerEval, Sequences, FiniteSets

CONSTANTS
    Cooldown,         \* trigger -> cooldownSeconds of the policy as it is
                      \* created, in clock ticks
    LongestCooldown,  \* bound on cooldowns
    TriggerEdits,     \* what humans may make of a trigger
    Samples,          \* the signals the service may show, samples = 0: no traffic
    MaxFaults,        \* bound on failed patches and restarts together
    Window            \* how many past evaluations the log remembers

ASSUME EvaluatorAssumption ==
    /\ LongestCooldown \in Nat
    /\ Cooldown \in [Trigger -> 0..LongestCooldown]
    /\ TriggerEdits \subseteq [trigger: Trigger, when: Condition, cooldown: 0..LongestCooldown]
    /\ Samples \subseteq [successRate: Int, serviceLatencyMs: Int, rps: Int, samples: Nat]
    /\ MaxFaults \in Nat
    /\ Window \in Nat

VARIABLES
    service,  \* the signals the scraper would return now
    profile,  \* spec.activeProfile
    when,     \* the conditions of spec.triggers
    cooldown, \* the cooldowns of spec.triggers
    count,    \* State.ConsecutiveBadSamples
    since,    \* time since State.LastTriggerFireTime, saturated
    faults,   \* failed patches and restarts so far
    log,      \* history: the last Window evaluations of this process that
              \* had samples
    judged    \* history: the required samples and the cooldowns that the
              \* newest of them went by

spec == <<profile, when, cooldown>>
vars == <<service, spec, count, since, faults, log, judged>>

Met == MetBy(when, service)

Needed == Required(when)

Cooling == {t \in Trigger : since[t] < cooldown[t]}

Fired == Firing(Met, profile, count, Cooling, Needed)

-----------------------------------------------------------------------------
(* An entry of the log: what the evaluation saw and what it decided. open  *)
(* are the triggers it did not skip; age is how long ago a firing was,     *)
(* saturated at the longest cooldown.                                      *)
Entry(fired) == [met |-> Met, open |-> {t \in Trigger : Eligible(t, profile, Cooling)},
                 fired |-> fired, age |-> 0]

Remember(entry) ==
    LET all == Append(log, entry)
    IN  /\ log' = SubSeq(all, Len(all) - (IF Len(all) > Window THEN Window ELSE Len(all)) + 1,
                          Len(all))
        /\ judged' = [needed |-> Needed, cooldown |-> cooldown]

-----------------------------------------------------------------------------
Init ==
    /\ service \in Samples
    /\ profile \in ActiveProfile
    /\ when = When
    /\ cooldown = Cooldown
    /\ count = [t \in Trigger |-> 0]
    /\ since = [t \in Trigger |-> LongestCooldown]
    /\ faults = 0
    /\ log = <<>>
    /\ judged = [needed |-> Needed, cooldown |-> cooldown]

(* No request in the interval: Evaluate returns at once, state untouched. *)
EvaluateNoSamples ==
    /\ service.samples = 0
    /\ UNCHANGED vars

(* An evaluation in which no trigger fires. *)
EvaluateQuiet ==
    /\ service.samples > 0
    /\ Fired = {}
    /\ count' = CountAfter(Met, profile, count, Cooling, Needed)
    /\ Remember(Entry(0))
    /\ UNCHANGED <<service, spec, since, faults>>

(* A trigger fires: fire time and counter are consumed by Evaluate, and    *)
(* only then does evaluateAndSwitch patch activeProfile, which may fail.   *)
EvaluateFire(t, patched) ==
    /\ service.samples > 0
    /\ t \in Fired
    /\ count' = CountAfter(Met, profile, count, Cooling, Needed)
    /\ since' = [since EXCEPT ![t] = 0]
    /\ IF patched
       THEN profile' = SwitchTo[t] /\ UNCHANGED faults
       ELSE faults < MaxFaults /\ faults' = faults + 1 /\ UNCHANGED profile
    /\ Remember(Entry(t))
    /\ UNCHANGED <<service, when, cooldown>>

Evaluate == EvaluateNoSamples \/ EvaluateQuiet
                \/ \E t \in Trigger : EvaluateFire(t, TRUE)

(* A human selects a profile. *)
EditProfile(p) ==
    /\ p # profile
    /\ profile' = p
    /\ UNCHANGED <<service, when, cooldown, count, since, faults, log, judged>>

(* A human edits the condition or the cooldown of a trigger. *)
EditTrigger(e) ==
    /\ when' = [when EXCEPT ![e.trigger] = e.when]
    /\ cooldown' = [cooldown EXCEPT ![e.trigger] = e.cooldown]
    /\ UNCHANGED <<service, profile, count, since, faults, log, judged>>

ServiceChanges(s) ==
    /\ s # service
    /\ service' = s
    /\ UNCHANGED <<spec, count, since, faults, log, judged>>

Tick ==
    /\ since' = [t \in Trigger |-> IF since[t] < LongestCooldown THEN since[t] + 1 ELSE since[t]]
    /\ log' = [i \in DOMAIN log |->
                 [log[i] EXCEPT !.age = IF log[i].fired # 0 /\ @ < LongestCooldown
                                        THEN @ + 1 ELSE @]]
    /\ UNCHANGED <<service, spec, count, faults, judged>>

(* The state lives in memory only: a restarted operator starts from NewState. *)
Restart ==
    /\ faults < MaxFaults
    /\ faults' = faults + 1
    /\ count' = [t \in Trigger |-> 0]
    /\ since' = [t \in Trigger |-> LongestCooldown]
    /\ log' = <<>>
    /\ UNCHANGED <<service, spec, judged>>

Next ==
    \/ Evaluate
    \/ \E t \in Trigger : EvaluateFire(t, FALSE)
    \/ \E p \in ActiveProfile : EditProfile(p)
    \/ \E e \in TriggerEdits : EditTrigger(e)
    \/ \E s \in Samples : ServiceChanges(s)
    \/ Tick
    \/ Restart

Spec == Init /\ [][Next]_vars

(* The reconcile loop requeues itself every interval and time passes;      *)
(* nothing is assumed of humans, of the service or of failures.            *)
FairSpec == Spec /\ WF_vars(Evaluate) /\ WF_vars(Tick)
=============================================================================
