------------------------------ MODULE MCPoller ------------------------------
(* One trigger on the success rate and one on latency, which the debounce  *)
(* gate does not look at; two scrapes confirm a breach, three a recovery.  *)
EXTENDS PollerProps

MCConfig == [pollInterval |-> 50, breaches |-> 2, recoveries |-> 3]

MCSwitchTo     == <<"shed", "slow">>
MCFromProfiles == <<{}, {}>>
MCWhen ==
    <<[clauses |-> {[signal |-> "successRate", side |-> "below", limit |-> 90]},
       srSamples |-> 1, latSamples |-> 0],
      [clauses |-> {[signal |-> "serviceLatencyMs", side |-> "above", limit |-> 200]},
       srSamples |-> 0, latSamples |-> 1]>>

Signal(sr, lat) ==
    [successRate |-> sr, serviceLatencyMs |-> lat, rps |-> 50, samples |-> 10]

MCSamples == {Signal(80, 100), Signal(99, 100), Signal(99, 900)}
=============================================================================
