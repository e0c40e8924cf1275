----------------------------- MODULE MCDelivery -----------------------------
(* One Envoy that may reconnect, and a policy with one layer that switches *)
(* to shed after one bad sample.                                           *)
EXTENDS DeliveryProps

MCSwitchTo     == <<"shed">>
MCFromProfiles == <<{}>>
MCWhen ==
    <<[clauses |-> {[signal |-> "successRate", side |-> "below", limit |-> 90]},
       srSamples |-> 1, latSamples |-> 0]>>

OnlyAC  == {{"admission-control"}}
Samples == {{1}, {}}
=============================================================================
