----------------------------- MODULE MCEvaluator -----------------------------
(* Two profiles and two triggers: overload (two bad samples, from any      *)
(* profile, cooldown of two ticks) and recover (two good samples with low  *)
(* latency, only from shed, no cooldown). A human may have overload need   *)
(* one sample with a short cooldown, or three, and change that back.       *)
EXTENDS EvaluatorProps

Below(s, n) == [signal |-> s, side |-> "below", limit |-> n]
Above(s, n) == [signal |-> s, side |-> "above", limit |-> n]

MCSwitchTo     == <<"shed", "normal">>
MCFromProfiles == <<{}, {"shed"}>>
Overload(n) == [clauses |-> {Below("successRate", 90)}, srSamples |-> n, latSamples |-> 0]
MCWhen ==
    <<Overload(2),
      [clauses |-> {Above("successRate", 97), Below("serviceLatencyMs", 200)},
       srSamples |-> 0, latSamples |-> 2]>>
MCCooldown == <<2, 0>>

MCTriggerEdits ==
    {[trigger |-> 1, when |-> Overload(1), cooldown |-> 1],
     [trigger |-> 1, when |-> Overload(2), cooldown |-> 2],
     [trigger |-> 1, when |-> Overload(3), cooldown |-> 2]}

Signal(sr, lat, rps, n) ==
    [successRate |-> sr, serviceLatencyMs |-> lat, rps |-> rps, samples |-> n]

(* Failing, healthy, and without traffic, where the scraper reports its    *)
(* safe defaults.                                                          *)
MCSamples == {Signal(80, 100, 50, 10), Signal(99, 100, 50, 10), Signal(99, 0, 0, 0)}
=============================================================================
