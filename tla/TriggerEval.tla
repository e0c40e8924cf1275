----------------------------- MODULE TriggerEval -----------------------------
(***************************************************************************)
(* The decision procedure of internal/trigger/evaluator.go as operators.   *)
(*                                                                         *)
(* One call of Evaluate walks spec.triggers in order, updates one counter  *)
(* per trigger it reaches and returns at the first trigger that fires.     *)
(* A trigger is named by its position in spec.triggers, so the order of    *)
(* the list is the order of the integers and "the first match" is a least  *)
(* element instead of a loop.                                              *)
(*                                                                         *)
(* Signals are abstracted to what the conditions can tell apart: a record  *)
(* of integers for the success rate (in percent), the latency and the RPS. *)
(***************************************************************************)
EXTENDS Integers

CONSTANTS
    NumTriggers,   \* length of spec.triggers
    Profiles,      \* the keys of spec.profiles
    Baseline,      \* the empty activeProfile: no profile selected
    SwitchTo,      \* trigger -> the profile it switches to
    FromProfiles,  \* trigger -> the profiles it may fire from, {} for any
    When           \* trigger -> its condition in the policy as it is created
                   \* (Evaluator edits it, Reconciler and Poller keep it)

Trigger == 1..NumTriggers

SignalName == {"successRate", "serviceLatencyMs", "rps"}

(* One bound of a TriggerCondition: "the signal is below/above the limit". *)
Clause == [signal: SignalName, side: {"below", "above"}, limit: Int]

(* srSamples and latSamples are the consecutiveSamples of the success-rate *)
(* and of the latency condition, 0 where the condition is absent.          *)
Condition == [clauses: SUBSET Clause, srSamples: Nat, latSamples: Nat]

ASSUME TriggerAssumption ==
    /\ NumTriggers \in Nat
    /\ Baseline \notin Profiles
    /\ SwitchTo \in [Trigger -> Profiles]
    /\ FromProfiles \in [Trigger -> SUBSET (Profiles \cup {Baseline})]
    /\ When \in [Trigger -> Condition]

ActiveProfile == Profiles \cup {Baseline}

-----------------------------------------------------------------------------
(* All bounds of a condition must hold; a condition with none never does.  *)
ConditionMet(cond, signals) ==
    /\ cond.clauses # {}
    /\ \A c \in cond.clauses :
          IF c.side = "below" THEN signals[c.signal] < c.limit
                              ELSE signals[c.signal] > c.limit

RequiredSamples(cond) ==
    IF cond.srSamples > 0 THEN cond.srSamples
    ELSE IF cond.latSamples > 0 THEN cond.latSamples ELSE 1

(* requiredSamples of each trigger. *)
Required(when) == [t \in Trigger |-> RequiredSamples(when[t])]

MetBy(when, signals) == {t \in Trigger : ConditionMet(when[t], signals)}

-----------------------------------------------------------------------------
(* The part of a call after the guards on sampleCount and HasTriggers.     *)
(* met is the set of triggers whose condition the sample satisfies, count  *)
(* the consecutive-sample counters, cooling the triggers in cooldown,      *)
(* needed how many samples each trigger requires now.                      *)

(* Operators named ...Wrong... are seeded faults, used only to show that a *)
(* property can fail: each replaces the definition that follows it.        *)

EligibleWrongNoCooldown(t, profile, cooling) ==
    /\ FromProfiles[t] = {} \/ profile \in FromProfiles[t]
    /\ profile # SwitchTo[t]

EligibleWrongListed(t, profile, cooling) ==
    /\ profile \in FromProfiles[t]
    /\ profile # SwitchTo[t]
    /\ t \notin cooling

(* A trigger the loop does not skip with continue. *)
Eligible(t, profile, cooling) ==
    /\ FromProfiles[t] = {} \/ profile \in FromProfiles[t]
    /\ profile # SwitchTo[t]
    /\ t \notin cooling

CanFireWrongLate(t, met, profile, count, cooling, needed) ==
    /\ Eligible(t, profile, cooling)
    /\ t \in met
    /\ count[t] + 1 > needed[t]

CanFire(t, met, profile, count, cooling, needed) ==
    /\ Eligible(t, profile, cooling)
    /\ t \in met
    /\ count[t] + 1 >= needed[t]

(* The trigger that fires: none, or the first in spec order that can. *)
Firing(met, profile, count, cooling, needed) ==
    {t \in Trigger :
        /\ CanFire(t, met, profile, count, cooling, needed)
        /\ \A u \in 1..(t - 1) : ~CanFire(u, met, profile, count, cooling, needed)}

(* The loop returns when a trigger fires, so it reaches a trigger only if  *)
(* none before it fired.                                                   *)
Reached(t, met, profile, count, cooling, needed) ==
    /\ Eligible(t, profile, cooling)
    /\ \A u \in 1..(t - 1) : ~CanFire(u, met, profile, count, cooling, needed)

CountAfterWrongNoReset(met, profile, count, cooling, needed) ==
    [t \in Trigger |->
        IF ~Reached(t, met, profile, count, cooling, needed) \/ t \notin met THEN count[t]
        ELSE IF t \in Firing(met, profile, count, cooling, needed) THEN 0 ELSE count[t] + 1]

CountAfterWrongLeaks(met, profile, count, cooling, needed) ==
    [t \in Trigger |->
        IF ~Reached(t, met, profile, count, cooling, needed) THEN count[t]
        ELSE IF t \in Firing(met, profile, count, cooling, needed) THEN 0
        ELSE IF t \in met THEN count[t] + 1 ELSE count[t] - 1]

CountAfter(met, profile, count, cooling, needed) ==
    [t \in Trigger |->
        IF ~Reached(t, met, profile, count, cooling, needed) THEN count[t]
        ELSE IF t \notin met \/ t \in Firing(met, profile, count, cooling, needed) THEN 0
        ELSE count[t] + 1]
=============================================================================
