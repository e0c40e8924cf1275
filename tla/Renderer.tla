------------------------------- MODULE Renderer -------------------------------
(***************************************************************************)
(* Rendering a policy for its mesh (internal/renderer): which backend is   *)
(* chosen, which resources and RTDS layers it generates, which of the      *)
(* policy's values each carries, and what the cluster and the Envoys have  *)
(* of them after reconciles that apply, prune and push (module Reconciler  *)
(* has the steps in between and their failures).                           *)
(*                                                                         *)
(* A filter is the record of the settings a profile or an edit can change; *)
(* the settings rendered verbatim from the spec are one value, fixed.      *)
(* Numbers stand for the strings of the spec and 0 for the empty string: a *)
(* nil filter is a disabled one with all settings empty, which is how the  *)
(* code treats it. Rendered percentages are in hundredths.                 *)
(***************************************************************************)
EXTENDS Integers, FiniteSets, Functions

CONSTANTS
    Overrides, \* spec.profiles: profile -> the settings it overrides
    Baseline,  \* the empty activeProfile
    Selector,  \* spec.selector: label -> value
    App,       \* the label "app"
    Specs,     \* the specs a policy may be edited to
    RtdsOn     \* the operator runs with --enable-rtds

Setting == {"threshold", "speed", "window", "percentile"}

Default == [threshold |-> 95, speed |-> 15, window |-> 30, percentile |-> 50]

Backend == {"istio", "cilium"}

Settings == [Setting -> Nat]

SpecType ==
    [admission: BOOLEAN, concurrency: BOOLEAN, streaming: BOOLEAN, skipPaths: BOOLEAN,
     values: Settings, dryRun: BOOLEAN, activeProfile: STRING,
     backend: Backend \cup {"", "auto"}]

(* activeProfile is an ordinary field: whatever a switch writes into it, a *)
(* human may write.                                                        *)
ASSUME RendererAssumption ==
    /\ Overrides \in [DOMAIN Overrides -> Settings]
    /\ Baseline \notin DOMAIN Overrides
    /\ Specs \subseteq SpecType
    /\ \A s \in Specs, p \in DOMAIN Overrides : [s EXCEPT !.activeProfile = p] \in Specs
    /\ RtdsOn \in BOOLEAN

VARIABLES
    spec,      \* the spec of the policy as the operator's cache has it, from
               \* which every read is answered (main.go:107, controller.go:103
               \* and 210); it lags behind the API server
    switching, \* the backend of a reconcile whose trigger has switched the
               \* profile and that has not read the object again yet, or "none"
    cluster,   \* the resources of the policy: reference -> resource
    managed,   \* status.managedResources; the cache is assumed to have heard of
               \* the operator's own last patch of it (Reconciler has one that may not)
    pushed,    \* the layers pushed so far: filter -> layer
    last       \* history: what the last complete reconcile rendered, for which
               \* backend, and how it was delivered

vars == <<spec, switching, cluster, managed, pushed, last>>

-----------------------------------------------------------------------------
(* Operators named ...Wrong... are seeded faults, each of the definition    *)
(* that follows it, used only to show that a property can fail.            *)
EffectiveWrongNoDefault(s, x) ==
    IF s.activeProfile \in DOMAIN Overrides /\ Overrides[s.activeProfile][x] # 0
    THEN Overrides[s.activeProfile][x] ELSE s.values[x]

(* The value in effect: the active profile's if it has one, else the       *)
(* baseline's, else the default. An activeProfile that does not exist      *)
(* counts as none.                                                         *)
Effective(s, x) ==
    IF s.activeProfile \in DOMAIN Overrides /\ Overrides[s.activeProfile][x] # 0
    THEN Overrides[s.activeProfile][x]
    ELSE IF s.values[x] # 0 THEN s.values[x] ELSE Default[x]

HasAdmissionControlWrongNeedsOverride(s) ==
    s.admission /\ (s.activeProfile \in DOMAIN Overrides
                      => Overrides[s.activeProfile]["threshold"] # 0)

HasAdmissionControl(s) == s.admission

(* The filters with runtime keys, which RTDS changes in a running Envoy.   *)
RuntimeFilters(s) ==
    (IF HasAdmissionControl(s) THEN {"admission-control"} ELSE {})
        \cup (IF s.concurrency THEN {"adaptive-concurrency"} ELSE {})

Percent(x) == 100 * x
Fraction(x) == Percent(x) \div 100

(* The threshold in an Istio config, and in a Cilium config or any layer.  *)
IstioThreshold(s) == Percent(Effective(s, "threshold"))
LayerThreshold(s) == Fraction(Effective(s, "threshold"))

(* The typed config of a filter: the default values Envoy starts with. The *)
(* renderers differ in the unit of the threshold.                          *)
TypedConfig(s, filter, threshold) ==
    IF filter = "admission-control"
    THEN [name |-> filter, enabled |-> ~s.dryRun, window |-> Effective(s, "window"),
          threshold |-> threshold, speed |-> Effective(s, "speed")]
    ELSE [name |-> filter, enabled |-> ~s.dryRun, percentile |-> Effective(s, "percentile")]

LayerWrongBaseline(s, filter) ==
    IF filter = "admission-control"
    THEN [enabled |-> ~s.dryRun, threshold |-> Fraction(s.values["threshold"]),
          speed |-> s.values["speed"]]
    ELSE [enabled |-> ~s.dryRun]

(* The RTDS layer of a filter: the values of its runtime keys. *)
Layer(s, filter) ==
    IF filter = "admission-control"
    THEN [enabled |-> ~s.dryRun, threshold |-> LayerThreshold(s),
          speed |-> Effective(s, "speed")]
    ELSE [enabled |-> ~s.dryRun]

Layers(s) == [filter \in RuntimeFilters(s) |-> Layer(s, filter)]

(* The service name for a selector: its app label, else the value of       *)
(* whichever label the iteration over the map yields first.                *)
Hosts ==
    IF App \in DOMAIN Selector THEN {Selector[App]}
    ELSE IF Selector = <<>> THEN {"*"} ELSE {Selector[l] : l \in DOMAIN Selector}

-----------------------------------------------------------------------------
Resource(kind, suffix, host, config) ==
    [ref |-> <<kind, suffix>>, host |-> host, config |-> config]

SkipsProbes(s) == HasAdmissionControl(s) /\ s.skipPaths

IstioResources(s, host) ==
    {Resource("EnvoyFilter", filter, "", {TypedConfig(s, filter, IstioThreshold(s))}) :
        filter \in RuntimeFilters(s)}
    \cup (IF RuntimeFilters(s) # {}
          THEN {Resource("EnvoyFilter", "stats-flush", "", {})} ELSE {})
    \cup (IF SkipsProbes(s) THEN {Resource("EnvoyFilter", "skip-paths", "", {})} ELSE {})
    \cup (IF s.streaming THEN {Resource("DestinationRule", "streaming", host, {})} ELSE {})

IstioRefsWrongNoFlush(s) ==
    {<<"EnvoyFilter", filter>> : filter \in RuntimeFilters(s)}
    \cup (IF SkipsProbes(s) THEN {<<"EnvoyFilter", "skip-paths">>} ELSE {})
    \cup (IF s.streaming THEN {<<"DestinationRule", "streaming">>} ELSE {})

(* ManagedResourceRefs, appended one by one next to each resource. *)
IstioRefs(s) ==
    {<<"EnvoyFilter", filter>> : filter \in RuntimeFilters(s)}
    \cup (IF HasAdmissionControl(s) \/ s.concurrency
          THEN {<<"EnvoyFilter", "stats-flush">>} ELSE {})
    \cup (IF SkipsProbes(s) THEN {<<"EnvoyFilter", "skip-paths">>} ELSE {})
    \cup (IF s.streaming THEN {<<"DestinationRule", "streaming">>} ELSE {})

RenderIstio(s, host) ==
    [resources |-> IstioResources(s, host), refs |-> IstioRefs(s),
     filters |-> RuntimeFilters(s)
                    \cup (IF s.streaming THEN {"streaming-protection"} ELSE {}),
     layers |-> Layers(s)]

(* One resource holds the whole filter chain. *)
CiliumEnvoyConfig(s, host) ==
    Resource("CiliumEnvoyConfig", "", host,
             {TypedConfig(s, filter, LayerThreshold(s)) : filter \in RuntimeFilters(s)})

(* Streaming protection and skip paths are not rendered.                   *)
RenderCilium(s, host) ==
    IF RuntimeFilters(s) = {}
    THEN [resources |-> {}, refs |-> {}, filters |-> {}, layers |-> Layers(s)]
    ELSE [resources |-> {CiliumEnvoyConfig(s, host)},
          refs |-> {<<"CiliumEnvoyConfig", "">>},
          filters |-> RuntimeFilters(s), layers |-> Layers(s)]

Render(backend, s, host) ==
    IF backend = "istio" THEN RenderIstio(s, host) ELSE RenderCilium(s, host)

-----------------------------------------------------------------------------
(* What Detect may answer: a control plane may come and go between two     *)
(* detections, and one that cannot be listed is taken for absent.          *)
Detections == SUBSET Backend

(* The backend of a policy: the one it names, else the first found, else    *)
(* none.                                                                   *)
Backends(s, found) ==
    IF s.backend \in Backend THEN {s.backend}
    ELSE IF "istio" \in found THEN {"istio"} ELSE found

(* A policy without filters, or with a profile that does not exist, is not *)
(* reconciled.                                                             *)
Valid(s) ==
    /\ s.admission \/ s.concurrency \/ s.streaming
    /\ s.activeProfile \in DOMAIN Overrides \cup {Baseline}

Reconciled(backend, delivery) == [of |-> spec, backend |-> backend, delivery |-> delivery]

Init ==
    /\ spec \in Specs
    /\ switching = "none"
    /\ cluster = <<>> /\ managed = {} /\ pushed = <<>>
    /\ last = [of |-> "none", backend |-> "none", delivery |-> "none"]

(* The cache hears of an edit, also while a reconcile switches: one of a   *)
(* human, or the operator's own patch of a switch that it has not heard of *)
(* yet. A larger edit is a sequence of edits of one field.                 *)
EditSpec(s) ==
    /\ Cardinality({f \in DOMAIN s : s[f] # spec[f]}) = 1
    /\ spec' = s
    /\ UNCHANGED <<switching, cluster, managed, pushed, last>>

-----------------------------------------------------------------------------
Applied(r, old) ==
    [ref \in {x.ref : x \in r.resources} \cup DOMAIN old |->
        IF \E x \in r.resources : x.ref = ref
        THEN CHOOSE x \in r.resources : x.ref = ref ELSE old[ref]]

(* What is left of the resources when those the status lists and r does    *)
(* not are deleted.                                                        *)
Pruned(r, old) == Restrict(old, DOMAIN old \ (managed \ r.refs))

(* A reconcile without a switch: detect, render, apply, prune, status.     *)
Reconcile(found, host) ==
    /\ switching = "none"
    /\ Valid(spec)
    /\ \E backend \in Backends(spec, found) :
          LET r == Render(backend, spec, host) IN
          /\ cluster' = Pruned(r, Applied(r, cluster))
          /\ managed' = r.refs
          /\ last' = Reconciled(backend, "applied")
    /\ UNCHANGED <<spec, switching, pushed>>

(* A reconcile up to the patch that switches the profile, of which the     *)
(* cache hears before the object is read again, or later (EditSpec).       *)
Switch(found, profile) ==
    /\ switching = "none"
    /\ Valid(spec)
    /\ profile # spec.activeProfile
    /\ \E backend \in Backends(spec, found) : switching' = backend
    /\ spec' \in {spec, [spec EXCEPT !.activeProfile = profile]}
    /\ UNCHANGED <<cluster, managed, pushed, last>>

RTDSSupported(backend) == backend = "istio"

(* Each layer is pushed over the one of its filter before. *)
Recorded(layers) ==
    [f \in DOMAIN layers \cup DOMAIN pushed |->
        IF f \in DOMAIN layers THEN layers[f] ELSE pushed[f]]

(* The rest of it: the object is read again from the cache and rendered,   *)
(* whatever it is there by now, also if that is the one from before the    *)
(* switch; nothing is applied, what is not rendered any more is pruned,    *)
(* and the layers are pushed.                                              *)
SwitchReconcile(host) ==
    /\ switching # "none"
    /\ LET r    == Render(switching, spec, host)
           rtds == RtdsOn /\ RTDSSupported(switching)
       IN  /\ cluster' = Pruned(r, cluster)
           /\ managed' = r.refs
           /\ pushed' = IF rtds THEN Recorded(r.layers) ELSE pushed
           /\ last' = Reconciled(switching, IF rtds THEN "pushed" ELSE "nothing")
    /\ switching' = "none"
    /\ UNCHANGED spec

(* No supported mesh, or an invalid policy: degraded, and all is kept.     *)
Degraded(found) ==
    /\ switching = "none"
    /\ ~Valid(spec) \/ Backends(spec, found) = {}
    /\ UNCHANGED vars

Next ==
    \/ \E s \in Specs : EditSpec(s)
    \/ \E found \in Detections :
          \/ Degraded(found)
          \/ \E profile \in DOMAIN Overrides : Switch(found, profile)
          \/ \E host \in Hosts : Reconcile(found, host)
    \/ \E host \in Hosts : SwitchReconcile(host)

Spec == Init /\ [][Next]_vars
=============================================================================
