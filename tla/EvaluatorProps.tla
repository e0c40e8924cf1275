---------------------------- MODULE EvaluatorProps ----------------------------
(***************************************************************************)
(* What the trigger evaluator promises, stated over the log of its past    *)
(* evaluations.                                                            *)
(***************************************************************************)
EXTENDS Evaluator

(* Evaluation i got as far as t: no skip, and no earlier trigger fired.    *)
ReachedAt(t, i) == t \in log[i].open /\ (log[i].fired = 0 \/ log[i].fired >= t)

Last == Len(log)

-----------------------------------------------------------------------------
(* Two firings of one trigger are at least its cooldown apart, the one in  *)
(* force at the later of them, whatever profile edits, edits of the        *)
(* cooldown and failed patches come between them (evaluator.go:89-93 and   *)
(* types.go:469, cooldownSeconds).                                         *)
CooldownRespected ==
    Last > 0 /\ log[Last].age = 0 /\ log[Last].fired # 0 =>
        \A i \in 1..(Last - 1) :
            log[i].fired = log[Last].fired => log[i].age >= judged.cooldown[log[Last].fired]

(* A firing is backed by requiredSamples bad samples among the evaluations *)
(* that reached the trigger, with no good one between and none of them     *)
(* spent by an earlier firing: as many as the trigger requires when it     *)
(* fires, also when consecutiveSamples was edited while the counter ran,   *)
(* each judged by the condition of its time (evaluator.go:95-105).         *)
FiringIsBacked ==
    Last > 0 /\ log[Last].fired # 0 =>
        LET t    == log[Last].fired
            seen == {i \in 1..Last : ReachedAt(t, i)}
        IN  \A i \in seen :
                Cardinality({j \in seen : j > i}) < judged.needed[t]
                    => t \in log[i].met /\ (i < Last => log[i].fired # t)

(* No trigger is starved by another one that is still accumulating, nor    *)
(* set back by an edit: when as many evaluations in a row as it requires   *)
(* at the last of them reached t and met its condition, t fired in one of  *)
(* them, however many other triggers gained samples and whatever it        *)
(* required before (evaluator.go:97-105, 118-129).                         *)
NoMissedFire ==
    \A t \in Trigger :
        LET n == judged.needed[t] IN
        Last >= n /\ (\A i \in (Last - n + 1)..Last : ReachedAt(t, i) /\ t \in log[i].met)
            => \E i \in (Last - n + 1)..Last : log[i].fired = t

(* A breach that lasts is acted upon: a trigger whose condition holds and  *)
(* that applies to the active profile does not stay so for ever, despite   *)
(* its cooldown, restarts, failed patches and edits (evaluator.go:66-135,  *)
(* controller.go:404).                                                     *)
LastingBreachSwitches ==
    \A t \in Trigger :
        []<>~(/\ service.samples > 0
              /\ t \in Met
              /\ FromProfiles[t] = {} \/ profile \in FromProfiles[t]
              /\ profile # SwitchTo[t])
=============================================================================
