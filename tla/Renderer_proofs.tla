--------------------------- MODULE Renderer_proofs ---------------------------
(***************************************************************************)
(* Theorems about rendering, for every set of profiles and values, every   *)
(* set of specs and both meshes.                                           *)
(***************************************************************************)
EXTENDS RendererProps, TLAPS

-----------------------------------------------------------------------------
(* What the renderers generate. *)

(* A value in effect is never empty: the last resort is a default. *)
LEMMA EffectiveTyped ==
    ASSUME NEW s \in SpecType, NEW x \in Setting
    PROVE  Effective(s, x) \in Value
<1>1. s.values[x] \in Nat
  BY DEF SpecType, Settings
<1>2. Default[x] \in Nat /\ Default[x] # 0
  BY DEF Setting, Default
<1>3. s.activeProfile \in DOMAIN Overrides => Overrides[s.activeProfile][x] \in Nat
  BY RendererAssumption DEF Settings
<1> QED BY <1>1, <1>2, <1>3 DEF Effective, Value

(* Neither is the threshold in either unit. *)
LEMMA ThresholdTyped ==
    ASSUME NEW s \in SpecType
    PROVE  IstioThreshold(s) \in Value /\ LayerThreshold(s) \in Value
<1>1. Effective(s, "threshold") \in Nat /\ Effective(s, "threshold") # 0
  BY EffectiveTyped DEF Setting, Value
<1>2. \A x \in Nat : (100 * x) \div 100 = x
  OBVIOUS
<1> HIDE DEF Effective
<1> QED BY <1>1, <1>2 DEF IstioThreshold, LayerThreshold, Fraction, Percent, Value

(* The static configs are well-formed. *)
LEMMA ConfigTyped ==
    ASSUME NEW s \in SpecType, NEW f \in RuntimeFilters(s), NEW threshold \in Value
    PROVE  TypedConfig(s, f, threshold) \in TypedConfigType
<1>1. /\ Effective(s, "window") \in Value /\ Effective(s, "speed") \in Value
      /\ Effective(s, "percentile") \in Value
  BY EffectiveTyped DEF Setting
<1>2. f = "admission-control" \/ f = "adaptive-concurrency"
  BY DEF RuntimeFilters
<1>3. (~s.dryRun) \in BOOLEAN
  BY DEF SpecType
<1> QED BY <1>1, <1>2, <1>3 DEF TypedConfig, TypedConfigType

(* So are the layers. *)
LEMMA LayerTyped ==
    ASSUME NEW s \in SpecType, NEW f \in RuntimeFilters(s)
    PROVE  Layer(s, f) \in LayerType
<1>1. Effective(s, "speed") \in Value /\ LayerThreshold(s) \in Value
  BY EffectiveTyped, ThresholdTyped DEF Setting
<1>2. (~s.dryRun) \in BOOLEAN
  BY DEF SpecType
<1> QED BY <1>1, <1>2 DEF Layer, LayerType

(* The resources for Istio by their references: one for each filter with   *)
(* runtime keys, which has its config, a shared one, and one each for two  *)
(* settings.                                                               *)
LEMMA IstioResourceForms ==
    ASSUME NEW s, NEW host
    PROVE  /\ \A x \in IstioResources(s, host) :
                \/ \E filter \in RuntimeFilters(s) :
                      /\ x.ref = <<"EnvoyFilter", filter>>
                      /\ x.config = {TypedConfig(s, filter, IstioThreshold(s))}
                \/ /\ RuntimeFilters(s) # {}
                   /\ x.ref = <<"EnvoyFilter", "stats-flush">> /\ x.config = {}
                \/ SkipsProbes(s) /\ x.ref = <<"EnvoyFilter", "skip-paths">> /\ x.config = {}
                \/ s.streaming /\ x.ref = <<"DestinationRule", "streaming">> /\ x.config = {}
           /\ \A filter \in RuntimeFilters(s) :
                \E x \in IstioResources(s, host) : x.ref = <<"EnvoyFilter", filter>>
           /\ RuntimeFilters(s) # {} =>
                \E x \in IstioResources(s, host) : x.ref = <<"EnvoyFilter", "stats-flush">>
           /\ SkipsProbes(s) =>
                \E x \in IstioResources(s, host) : x.ref = <<"EnvoyFilter", "skip-paths">>
           /\ s.streaming =>
                \E x \in IstioResources(s, host) : x.ref = <<"DestinationRule", "streaming">>
<1> DEFINE ForFilter(filter) ==
               Resource("EnvoyFilter", filter, "", {TypedConfig(s, filter, IstioThreshold(s))})
           Flush == Resource("EnvoyFilter", "stats-flush", "", {})
           Skip == Resource("EnvoyFilter", "skip-paths", "", {})
           Stream == Resource("DestinationRule", "streaming", host, {})
<1>1. \A x : x \in IstioResources(s, host) <=>
                \/ \E filter \in RuntimeFilters(s) : x = ForFilter(filter)
                \/ RuntimeFilters(s) # {} /\ x = Flush
                \/ SkipsProbes(s) /\ x = Skip
                \/ s.streaming /\ x = Stream
  BY Zenon DEF IstioResources
<1>2. \A filter : /\ ForFilter(filter).ref = <<"EnvoyFilter", filter>>
                  /\ ForFilter(filter).config = {TypedConfig(s, filter, IstioThreshold(s))}
  BY DEF Resource
<1>3. /\ Flush.ref = <<"EnvoyFilter", "stats-flush">> /\ Flush.config = {}
      /\ Skip.ref = <<"EnvoyFilter", "skip-paths">> /\ Skip.config = {}
      /\ Stream.ref = <<"DestinationRule", "streaming">> /\ Stream.config = {}
  BY DEF Resource
<1> HIDE DEF ForFilter, Flush, Skip, Stream
<1> QED BY <1>1, <1>2, <1>3, Zenon

(* The list of references, filled branch by branch next to the resources,  *)
(* is exactly the references of the resources.                             *)
LEMMA RefsListed ==
    ASSUME NEW backend \in Backend, NEW s, NEW host
    PROVE  {x.ref : x \in Render(backend, s, host).resources} = Render(backend, s, host).refs
<1> DEFINE r == Render(backend, s, host)
<1>1. CASE backend = "istio"
  <2>1. r.resources = IstioResources(s, host) /\ r.refs = IstioRefs(s)
    BY <1>1 DEF Render, RenderIstio
  <2>2. RuntimeFilters(s) # {} <=> HasAdmissionControl(s) \/ s.concurrency
    BY DEF RuntimeFilters
  <2>3. ASSUME NEW x \in IstioResources(s, host) PROVE x.ref \in IstioRefs(s)
    <3>1. \/ \E filter \in RuntimeFilters(s) : x.ref = <<"EnvoyFilter", filter>>
          \/ RuntimeFilters(s) # {} /\ x.ref = <<"EnvoyFilter", "stats-flush">>
          \/ SkipsProbes(s) /\ x.ref = <<"EnvoyFilter", "skip-paths">>
          \/ s.streaming /\ x.ref = <<"DestinationRule", "streaming">>
      BY <2>3, IstioResourceForms
    <3> QED BY <2>2, <3>1 DEF IstioRefs
  <2>4. ASSUME NEW ref \in IstioRefs(s) PROVE \E x \in IstioResources(s, host) : x.ref = ref
    <3>1. \/ \E filter \in RuntimeFilters(s) : ref = <<"EnvoyFilter", filter>>
          \/ RuntimeFilters(s) # {} /\ ref = <<"EnvoyFilter", "stats-flush">>
          \/ SkipsProbes(s) /\ ref = <<"EnvoyFilter", "skip-paths">>
          \/ s.streaming /\ ref = <<"DestinationRule", "streaming">>
      BY <2>2, <2>4 DEF IstioRefs
    <3> QED BY <3>1, IstioResourceForms
  <2> QED BY <2>1, <2>3, <2>4
<1>2. CASE backend = "cilium"
  <2>1. CASE RuntimeFilters(s) = {}
    BY <1>2, <2>1 DEF Render, RenderCilium
  <2>2. CASE RuntimeFilters(s) # {}
    <3>1. /\ r.resources = {CiliumEnvoyConfig(s, host)}
          /\ r.refs = {<<"CiliumEnvoyConfig", "">>}
      BY <1>2, <2>2 DEF Render, RenderCilium
    <3>2. CiliumEnvoyConfig(s, host).ref = <<"CiliumEnvoyConfig", "">>
      BY DEF CiliumEnvoyConfig, Resource
    <3> HIDE DEF r
    <3>3. {x.ref : x \in r.resources} = r.refs
      BY <3>1, <3>2
    <3> QED BY <3>3 DEF r
  <2> QED BY <2>1, <2>2
<1> QED BY <1>1, <1>2 DEF Backend

(* Which references there are depends on the backend and on the filters,   *)
(* not on the host and not on the profile.                                 *)
Refs(backend, s) ==
    IF backend = "istio" THEN IstioRefs(s)
    ELSE IF RuntimeFilters(s) = {} THEN {} ELSE {<<"CiliumEnvoyConfig", "">>}

(* The parts of a rendering. *)
LEMMA RenderParts ==
    ASSUME NEW backend \in Backend, NEW s, NEW host
    PROVE  /\ Render(backend, s, host).refs = Refs(backend, s)
           /\ Render(backend, s, host).layers = Layers(s)
BY DEF Render, RenderIstio, RenderCilium, Refs, Backend

(* A profile comes and goes with the values it overrides, with no filter. *)
LEMMA RefsOfProfile ==
    ASSUME NEW s \in SpecType, NEW p, NEW backend
    PROVE  /\ RuntimeFilters([s EXCEPT !.activeProfile = p]) = RuntimeFilters(s)
           /\ Refs(backend, [s EXCEPT !.activeProfile = p]) = Refs(backend, s)
<1> DEFINE q == [s EXCEPT !.activeProfile = p]
<1>1. /\ q.admission = s.admission /\ q.concurrency = s.concurrency
      /\ q.streaming = s.streaming /\ q.skipPaths = s.skipPaths
  BY DEF SpecType
<1> HIDE DEF q
<1>2. RuntimeFilters(q) = RuntimeFilters(s)
  BY <1>1 DEF RuntimeFilters, HasAdmissionControl
<1>3. IstioRefs(q) = IstioRefs(s)
  BY <1>1, <1>2 DEF IstioRefs, SkipsProbes, HasAdmissionControl
<1>4. Refs(backend, q) = Refs(backend, s)
  BY <1>2, <1>3 DEF Refs
<1> QED BY <1>2, <1>4 DEF q

(* The configs in what is rendered are well-formed. *)
LEMMA RenderTyped ==
    ASSUME NEW backend \in Backend, NEW s \in SpecType, NEW host,
           NEW x \in Render(backend, s, host).resources, NEW c \in x.config
    PROVE  c \in TypedConfigType
<1>0. IstioThreshold(s) \in Value /\ LayerThreshold(s) \in Value
  BY ThresholdTyped
<1>1. CASE backend = "istio"
  <2>1. x \in IstioResources(s, host)
    BY <1>1 DEF Render, RenderIstio
  <2>2. \E f \in RuntimeFilters(s) : c = TypedConfig(s, f, IstioThreshold(s))
    BY <2>1, IstioResourceForms
  <2> QED BY <1>0, <2>2, ConfigTyped
<1>2. CASE backend = "cilium"
  <2>1. x = CiliumEnvoyConfig(s, host)
    BY <1>2 DEF Render, RenderCilium
  <2>2. x.config = {TypedConfig(s, f, LayerThreshold(s)) : f \in RuntimeFilters(s)}
    BY <2>1 DEF CiliumEnvoyConfig, Resource
  <2>3. \E f \in RuntimeFilters(s) : c = TypedConfig(s, f, LayerThreshold(s))
    BY <2>2
  <2> QED BY <1>0, <2>3, ConfigTyped
<1> QED BY <1>1, <1>2 DEF Backend

-----------------------------------------------------------------------------
(* What applying and pruning leave in the cluster. *)

(* Applying replaces what is rendered and keeps the rest. *)
LEMMA AppliedParts ==
    ASSUME NEW r, NEW old
    PROVE  /\ DOMAIN Applied(r, old) = {x.ref : x \in r.resources} \cup DOMAIN old
           /\ \A ref \in DOMAIN Applied(r, old) :
                 \/ Applied(r, old)[ref] \in {x \in r.resources : x.ref = ref}
                 \/ /\ ref \in DOMAIN old /\ Applied(r, old)[ref] = old[ref]
                    /\ ~\E x \in r.resources : x.ref = ref
BY DEF Applied

(* Pruning deletes what is managed and not rendered any more. *)
LEMMA PrunedParts ==
    ASSUME NEW r, NEW old
    PROVE  /\ DOMAIN Pruned(r, old) = DOMAIN old \ (managed \ r.refs)
           /\ \A ref \in DOMAIN Pruned(r, old) : Pruned(r, old)[ref] = old[ref]
           /\ Pruned(r, old) = [ref \in DOMAIN Pruned(r, old) |-> Pruned(r, old)[ref]]
BY DEF Pruned, Restrict

-----------------------------------------------------------------------------
(* The inductive invariant: after a reconcile that applied, the cluster    *)
(* and the status hold what that reconcile rendered.                       *)

AppliedShown ==
    last.delivery = "applied" =>
        /\ last.backend \in Backend
        /\ managed = Refs(last.backend, last.of)
        /\ last.backend = "istio" =>
              \A f \in RuntimeFilters(last.of) :
                  cluster[<<"EnvoyFilter", f>>].config
                      = {TypedConfig(last.of, f, IstioThreshold(last.of))}

ClusterIsFunction == cluster = [ref \in DOMAIN cluster |-> cluster[ref]]

RendererInv == TypeOK /\ ClusterIsFunction /\ ClusterTracked /\ AppliedShown

(* A backend that is detected or named is one of the two. *)
LEMMA BackendsTyped ==
    ASSUME NEW found \in Detections, NEW s, NEW backend \in Backends(s, found)
    PROVE  backend \in Backend
BY DEF Backends, Detections, Backend

(* A reconcile without a switch. *)
LEMMA ReconcileKeepsInv ==
    ASSUME RendererInv, NEW found \in Detections, NEW host, Reconcile(found, host)
    PROVE  RendererInv'
<1>1. PICK backend \in Backends(spec, found) :
          /\ cluster' = Pruned(Render(backend, spec, host),
                               Applied(Render(backend, spec, host), cluster))
          /\ managed' = Render(backend, spec, host).refs
          /\ last' = Reconciled(backend, "applied")
  BY DEF Reconcile
<1> DEFINE r == Render(backend, spec, host)
           new == Applied(r, cluster)
<1>2. backend \in Backend
  BY BackendsTyped
<1>3. /\ {x.ref : x \in r.resources} = r.refs
      /\ r.refs = Refs(backend, spec)
  BY <1>2, RefsListed, RenderParts
<1>4. spec \in Specs /\ spec \in SpecType /\ spec' = spec
  BY RendererAssumption DEF RendererInv, TypeOK, Reconcile
<1>5. \A x \in r.resources : \A c \in x.config : c \in TypedConfigType
  BY <1>2, <1>4, RenderTyped
<1>6. /\ DOMAIN new = {x.ref : x \in r.resources} \cup DOMAIN cluster
      /\ \A ref \in DOMAIN new :
            \/ new[ref] \in {x \in r.resources : x.ref = ref}
            \/ /\ ref \in DOMAIN cluster /\ new[ref] = cluster[ref]
               /\ ~\E x \in r.resources : x.ref = ref
  BY AppliedParts
<1>7. backend = "istio" => r.resources = IstioResources(spec, host)
  BY DEF Render, RenderIstio
<1>8. /\ DOMAIN cluster' = DOMAIN new \ (managed \ r.refs)
      /\ \A ref \in DOMAIN cluster' : cluster'[ref] = new[ref]
      /\ ClusterIsFunction'
  <2>1. cluster' = Pruned(r, new)
    BY <1>1
  <2> HIDE DEF r, new
  <2>2. /\ DOMAIN Pruned(r, new) = DOMAIN new \ (managed \ r.refs)
        /\ \A ref \in DOMAIN Pruned(r, new) : Pruned(r, new)[ref] = new[ref]
        /\ Pruned(r, new) = [ref \in DOMAIN Pruned(r, new) |-> Pruned(r, new)[ref]]
    BY PrunedParts
  <2> QED BY <2>1, <2>2 DEF ClusterIsFunction
<1>9. last'.of = spec /\ last'.backend = backend /\ last'.delivery = "applied"
  BY <1>1 DEF Reconciled
<1>10. managed' = r.refs
  BY <1>1
<1> HIDE DEF r, new
<1>11. DOMAIN cluster \subseteq managed
  BY DEF RendererInv, ClusterTracked
<1>12. DOMAIN cluster' = managed'
  BY <1>3, <1>6, <1>8, <1>10, <1>11
<1>13. ClusterTracked'
  BY <1>12 DEF ClusterTracked
<1>14. \A ref \in DOMAIN cluster' : cluster'[ref] \in {x \in r.resources : x.ref = ref}
  BY <1>3, <1>6, <1>8, <1>10, <1>12
<1>15. TypeOK'
  <2>1. \A ref \in DOMAIN cluster' : \A c \in cluster'[ref].config : c \in TypedConfigType
    BY <1>5, <1>14
  <2>2. UNCHANGED <<switching, pushed>>
    BY DEF Reconcile
  <2> QED BY <1>4, <1>9, <2>1, <2>2 DEF RendererInv, TypeOK
<1>16. AppliedShown'
  <2>1. ASSUME backend = "istio", NEW f \in RuntimeFilters(spec)
        PROVE  cluster'[<<"EnvoyFilter", f>>].config
                   = {TypedConfig(spec, f, IstioThreshold(spec))}
    <3>1. PICK x \in IstioResources(spec, host) : x.ref = <<"EnvoyFilter", f>>
      BY IstioResourceForms
    <3>2. <<"EnvoyFilter", f>> \in DOMAIN cluster'
      BY <1>3, <1>7, <1>10, <1>12, <2>1, <3>1
    <3>3. PICK y \in IstioResources(spec, host) :
              y.ref = <<"EnvoyFilter", f>> /\ cluster'[<<"EnvoyFilter", f>>] = y
      BY <1>7, <1>14, <2>1, <3>2
    <3>4. f # "stats-flush" /\ f # "skip-paths"
      BY DEF RuntimeFilters
    <3>5. y.config = {TypedConfig(spec, f, IstioThreshold(spec))}
      <4>1. PICK g \in RuntimeFilters(spec) :
                /\ y.ref = <<"EnvoyFilter", g>>
                /\ y.config = {TypedConfig(spec, g, IstioThreshold(spec))}
        BY <3>3, <3>4, IstioResourceForms
      <4>2. g = f
        BY <3>3, <4>1
      <4> QED BY <4>1, <4>2
    <3> QED BY <3>3, <3>5
  <2> QED BY <1>2, <1>3, <1>9, <1>10, <2>1 DEF AppliedShown
<1> QED BY <1>8, <1>13, <1>15, <1>16 DEF RendererInv

(* The rest of a reconcile that switched: what it does to the state. *)
LEMMA SwitchReconcileEffects ==
    ASSUME RendererInv, NEW host, SwitchReconcile(host)
    PROVE  /\ switching \in Backend /\ switching' = "none" /\ spec' = spec /\ spec \in Specs
           /\ managed' = Refs(switching, spec)
           /\ DOMAIN cluster' = DOMAIN cluster \ (managed \ managed')
           /\ \A ref \in DOMAIN cluster' : cluster'[ref] = cluster[ref]
           /\ ClusterIsFunction'
           /\ last'.of = spec /\ last'.backend = switching
           /\ last'.delivery \in {"pushed", "nothing"}
           /\ last'.delivery = "pushed" => switching = "istio"
           /\ pushed' = IF last'.delivery = "pushed" THEN Recorded(Layers(spec)) ELSE pushed
<1> DEFINE r == Render(switching, spec, host)
           rtds == RtdsOn /\ RTDSSupported(switching)
<1>1. switching \in Backend /\ spec \in Specs
  BY DEF RendererInv, TypeOK, SwitchReconcile
<1>2. r.refs = Refs(switching, spec) /\ r.layers = Layers(spec)
  BY <1>1, RenderParts
<1>3. /\ cluster' = Pruned(r, cluster) /\ managed' = r.refs
      /\ pushed' = IF rtds THEN Recorded(r.layers) ELSE pushed
      /\ last' = Reconciled(switching, IF rtds THEN "pushed" ELSE "nothing")
      /\ switching' = "none" /\ spec' = spec
  BY DEF SwitchReconcile
<1> HIDE DEF r
<1>4. /\ DOMAIN Pruned(r, cluster) = DOMAIN cluster \ (managed \ r.refs)
      /\ \A ref \in DOMAIN Pruned(r, cluster) : Pruned(r, cluster)[ref] = cluster[ref]
      /\ Pruned(r, cluster) = [ref \in DOMAIN Pruned(r, cluster) |-> Pruned(r, cluster)[ref]]
  BY PrunedParts
<1>5. /\ DOMAIN cluster' = DOMAIN cluster \ (managed \ managed')
      /\ \A ref \in DOMAIN cluster' : cluster'[ref] = cluster[ref]
      /\ ClusterIsFunction'
  BY <1>3, <1>4 DEF ClusterIsFunction
<1>6. /\ last'.of = spec /\ last'.backend = switching
      /\ last'.delivery = IF rtds THEN "pushed" ELSE "nothing"
  BY <1>3 DEF Reconciled
<1>7. rtds => switching = "istio"
  BY DEF RTDSSupported
<1> HIDE DEF rtds
<1>8. pushed' = IF last'.delivery = "pushed" THEN Recorded(Layers(spec)) ELSE pushed
  BY <1>2, <1>3, <1>6
<1> QED BY <1>1, <1>2, <1>3, <1>5, <1>6, <1>7, <1>8

(* Layers are pushed over those pushed before, filter by filter. *)
LEMMA PushedOver ==
    ASSUME NEW s
    PROVE  /\ DOMAIN Recorded(Layers(s)) = RuntimeFilters(s) \cup DOMAIN pushed
           /\ \A f \in RuntimeFilters(s) : Recorded(Layers(s))[f] = Layer(s, f)
           /\ \A f \in DOMAIN pushed \ RuntimeFilters(s) : Recorded(Layers(s))[f] = pushed[f]
<1>1. /\ DOMAIN Layers(s) = RuntimeFilters(s)
      /\ \A f \in RuntimeFilters(s) : Layers(s)[f] = Layer(s, f)
  BY DEF Layers
<1> QED BY <1>1 DEF Recorded

(* It keeps the invariant. *)
LEMMA SwitchReconcileKeepsInv ==
    ASSUME RendererInv, NEW host, SwitchReconcile(host)
    PROVE  RendererInv'
<1>1. /\ switching' = "none" /\ spec' = spec /\ spec \in Specs
      /\ DOMAIN cluster' = DOMAIN cluster \ (managed \ managed')
      /\ \A ref \in DOMAIN cluster' : cluster'[ref] = cluster[ref]
      /\ ClusterIsFunction'
      /\ last'.of = spec /\ last'.delivery \in {"pushed", "nothing"}
      /\ pushed' = IF last'.delivery = "pushed" THEN Recorded(Layers(spec)) ELSE pushed
  BY SwitchReconcileEffects
<1>2. \A f \in DOMAIN pushed' : pushed'[f] \in LayerType
  <2>1. \A f \in RuntimeFilters(spec) : Layer(spec, f) \in LayerType
    BY <1>1, LayerTyped, RendererAssumption
  <2>2. \A f \in DOMAIN pushed : pushed[f] \in LayerType
    BY DEF RendererInv, TypeOK
  <2>3. CASE last'.delivery # "pushed"
    BY <1>1, <2>2, <2>3
  <2>4. CASE last'.delivery = "pushed"
    <3>1. pushed' = Recorded(Layers(spec))
      BY <1>1, <2>4
    <3>2. /\ DOMAIN pushed' = RuntimeFilters(spec) \cup DOMAIN pushed
          /\ \A f \in RuntimeFilters(spec) : pushed'[f] = Layer(spec, f)
          /\ \A f \in DOMAIN pushed \ RuntimeFilters(spec) : pushed'[f] = pushed[f]
      BY <3>1, PushedOver, Zenon
    <3> QED BY <2>1, <2>2, <3>2
  <2> QED BY <2>3, <2>4
<1>3. TypeOK'
  BY <1>1, <1>2 DEF RendererInv, TypeOK
<1>4. ClusterTracked'
  BY <1>1 DEF RendererInv, ClusterTracked
<1>5. AppliedShown'
  BY <1>1 DEF AppliedShown
<1> QED BY <1>1, <1>3, <1>4, <1>5 DEF RendererInv

(* The policy as it is created, with nothing rendered, satisfies it. *)
LEMMA InitInv == Init => RendererInv
<1> SUFFICES ASSUME Init PROVE RendererInv
  OBVIOUS
<1>1. DOMAIN cluster = {} /\ DOMAIN pushed = {} /\ ClusterIsFunction
  BY DEF Init, ClusterIsFunction
<1>2. last.delivery = "none" /\ last.backend = "none" /\ "none" \notin Backend
  BY DEF Init, Backend
<1>3. TypeOK
  BY <1>1, <1>2 DEF Init, TypeOK
<1> QED BY <1>1, <1>2, <1>3 DEF RendererInv, ClusterTracked, AppliedShown

(* The invariant is inductive. *)
LEMMA NextKeepsInv == RendererInv /\ [Next]_vars => RendererInv'
<1> SUFFICES ASSUME RendererInv, [Next]_vars PROVE RendererInv'
  OBVIOUS
<1>1. ASSUME spec' \in Specs, switching' \in Backend \cup {"none"},
             UNCHANGED <<cluster, managed, pushed, last>>
      PROVE  RendererInv'
  BY <1>1 DEF RendererInv, TypeOK, ClusterIsFunction, ClusterTracked, AppliedShown
<1>2. spec \in Specs /\ switching \in Backend \cup {"none"}
  BY DEF RendererInv, TypeOK
<1>3. CASE UNCHANGED vars
  BY <1>1, <1>2, <1>3 DEF vars
<1>4. ASSUME NEW s \in Specs, EditSpec(s) PROVE RendererInv'
  BY <1>1, <1>2, <1>4 DEF EditSpec
<1>5. ASSUME NEW found \in Detections, Degraded(found) PROVE RendererInv'
  BY <1>1, <1>2, <1>5 DEF Degraded, vars
<1>6. ASSUME NEW found \in Detections, NEW profile \in DOMAIN Overrides, Switch(found, profile)
      PROVE  RendererInv'
  <2>1. spec' \in {spec, [spec EXCEPT !.activeProfile = profile]}
    BY <1>6 DEF Switch
  <2>3. [spec EXCEPT !.activeProfile = profile] \in Specs
    BY <1>2, RendererAssumption
  <2>4. spec' \in Specs
    BY <1>2, <2>1, <2>3
  <2>2. switching' \in Backend
    BY <1>6, BackendsTyped DEF Switch
  <2> QED BY <1>1, <1>6, <2>2, <2>4 DEF Switch
<1>7. ASSUME NEW found \in Detections, NEW host \in Hosts, Reconcile(found, host)
      PROVE  RendererInv'
  BY <1>7, ReconcileKeepsInv
<1>8. ASSUME NEW host \in Hosts, SwitchReconcile(host) PROVE RendererInv'
  BY <1>8, SwitchReconcileKeepsInv
<1> QED BY <1>3, <1>4, <1>5, <1>6, <1>7, <1>8 DEF Next

(* The invariant holds throughout. *)
LEMMA InvHolds == Spec => []RendererInv
BY InitInv, NextKeepsInv, PTL DEF Spec

-----------------------------------------------------------------------------
(* What follows from it. *)

(* Whatever is rendered into a resource or a layer has a value for each of *)
(* its keys, never an empty one, whichever profile overrides what          *)
(* (types.go:1019-1082).                                                   *)
THEOREM TypeCorrect == Spec => []TypeOK
<1>1. RendererInv => TypeOK
  BY DEF RendererInv
<1> QED BY <1>1, InvHolds, PTL

(* No resource the operator created is forgotten by the status, whichever  *)
(* edits, changes of the mesh and switches came before, and a reconcile    *)
(* that applies makes the two the same (istio.go:99-177,                   *)
(* controller.go:226-249).                                                 *)
THEOREM NothingIsForgotten == Spec => []ClusterTracked
<1>1. RendererInv => ClusterTracked
  BY DEF RendererInv
<1> QED BY <1>1, InvHolds, PTL

(* The one step that ends a delivery by apply with another one is the rest *)
(* of a reconcile that switched.                                           *)
LEMMA OnlySwitchReconcile ==
    ASSUME RendererInv, Next, last.delivery = "applied", last'.delivery # "applied"
    PROVE  \E host \in Hosts : SwitchReconcile(host)
<1>1. ASSUME NEW found \in Detections, NEW host \in Hosts, Reconcile(found, host) PROVE FALSE
  <2>1. last'.delivery = "applied"
    BY <1>1 DEF Reconcile, Reconciled
  <2> QED BY <2>1
<1>2. \A s \in Specs : EditSpec(s) => last' = last
  BY DEF EditSpec
<1>3. \A found \in Detections :
          /\ Degraded(found) => last' = last
          /\ \A profile \in DOMAIN Overrides : Switch(found, profile) => last' = last
  BY DEF Degraded, Switch, vars
<1> QED BY <1>1, <1>2, <1>3 DEF Next

(* After a switch and nothing else, the resources that the last apply made *)
(* are those that would be rendered now.                                   *)
LEMMA SwitchedRefs ==
    ASSUME RendererInv, OnlySwitched, NEW host, SwitchReconcile(host)
    PROVE  /\ switching = last.backend /\ switching \in Backend
           /\ RuntimeFilters(last.of) = RuntimeFilters(spec)
           /\ managed' = managed /\ cluster' = cluster /\ DOMAIN cluster = managed
<1>1. /\ switching \in Backend /\ spec \in Specs
      /\ managed' = Refs(switching, spec)
      /\ DOMAIN cluster' = DOMAIN cluster \ (managed \ managed')
      /\ \A ref \in DOMAIN cluster' : cluster'[ref] = cluster[ref]
      /\ ClusterIsFunction'
      /\ last'.of = spec /\ last'.backend = switching
  BY SwitchReconcileEffects
<1>2. switching = last.backend /\ spec = [last.of EXCEPT !.activeProfile = spec.activeProfile]
  BY <1>1 DEF OnlySwitched
<1>3. managed = Refs(last.backend, last.of) /\ DOMAIN cluster = managed
  BY DEF RendererInv, AppliedShown, ClusterTracked, OnlySwitched
<1>4. last.of \in SpecType
  BY <1>1, <1>2, RendererAssumption DEF RendererInv, TypeOK
<1>5. PICK p : p = spec.activeProfile
  OBVIOUS
<1>6. spec = [last.of EXCEPT !.activeProfile = p]
  BY <1>2, <1>5
<1>7. RuntimeFilters(last.of) = RuntimeFilters(spec) /\ managed' = managed
  <2>1. /\ RuntimeFilters([last.of EXCEPT !.activeProfile = p]) = RuntimeFilters(last.of)
        /\ Refs(switching, [last.of EXCEPT !.activeProfile = p]) = Refs(switching, last.of)
    BY <1>4, RefsOfProfile
  <2> QED BY <1>1, <1>2, <1>3, <1>6, <2>1
<1>8. DOMAIN cluster' = DOMAIN cluster
  BY <1>1, <1>7
<1>9. cluster' = cluster
  <2>1. cluster' = [ref \in DOMAIN cluster |-> cluster'[ref]]
    BY <1>1, <1>8 DEF ClusterIsFunction
  <2>2. cluster = [ref \in DOMAIN cluster |-> cluster[ref]]
    BY DEF RendererInv, ClusterIsFunction
  <2>3. \A ref \in DOMAIN cluster : cluster'[ref] = cluster[ref]
    BY <1>1, <1>8
  <2> QED BY <2>1, <2>2, <2>3
<1> QED BY <1>1, <1>2, <1>3, <1>7, <1>9

(* A switch makes no resource come or go (controller.go:226). *)
THEOREM SwitchLeavesResources == Spec => SwitchKeepsResources
<1>1. RendererInv /\ [Next]_vars
          => [OnlySwitched => cluster' = cluster /\ managed' = managed]_vars
  <2> SUFFICES ASSUME RendererInv, Next, OnlySwitched
               PROVE  cluster' = cluster /\ managed' = managed
    OBVIOUS
  <2>1. \E host \in Hosts : SwitchReconcile(host)
    BY OnlySwitchReconcile DEF OnlySwitched
  <2> QED BY <2>1, SwitchedRefs
<1> QED BY <1>1, InvHolds, PTL DEF Spec, SwitchKeepsResources

(* A layer has the values that the static config rendered with it has, and *)
(* lacks the name of the filter and what only the static config carries.   *)
LEMMA LayerCarries ==
    ASSUME NEW s, NEW f \in RuntimeFilters(s),
           NEW key \in DOMAIN TypedConfig(s, f, IstioThreshold(s))
                          \ {"window", "percentile", "threshold"}
    PROVE  /\ key # "name" => /\ key \in DOMAIN Layer(s, f)
                              /\ Layer(s, f)[key] = TypedConfig(s, f, IstioThreshold(s))[key]
           /\ key = "name" => key \notin DOMAIN Layer(s, f)
<1>1. CASE f = "admission-control"
  <2>1. key \in {"name", "enabled", "speed"}
    BY <1>1 DEF TypedConfig
  <2> QED BY <1>1, <2>1 DEF TypedConfig, Layer
<1>2. CASE f = "adaptive-concurrency"
  <2>1. key \in {"name", "enabled"}
    BY <1>2 DEF TypedConfig
  <2> QED BY <1>2, <2>1 DEF TypedConfig, Layer
<1> QED BY <1>1, <1>2 DEF RuntimeFilters

(* The layer's threshold is a hundredth of the static config's. *)
LEMMA ThresholdCarried ==
    ASSUME NEW s \in SpecType, NEW f \in RuntimeFilters(s),
           "threshold" \in DOMAIN TypedConfig(s, f, IstioThreshold(s))
    PROVE  /\ "threshold" \in DOMAIN Layer(s, f)
           /\ 100 * Layer(s, f)["threshold"] = TypedConfig(s, f, IstioThreshold(s))["threshold"]
<1>1. f = "admission-control"
  BY DEF TypedConfig
<1>2. /\ "threshold" \in DOMAIN Layer(s, f)
      /\ Layer(s, f)["threshold"] = LayerThreshold(s)
      /\ TypedConfig(s, f, IstioThreshold(s))["threshold"] = IstioThreshold(s)
  BY <1>1 DEF Layer, TypedConfig
<1>3. 100 * LayerThreshold(s) = IstioThreshold(s)
  <2>1. Effective(s, "threshold") \in Nat
    BY EffectiveTyped DEF Setting, Value
  <2>2. \A x \in Nat : 100 * ((100 * x) \div 100) = 100 * x
    OBVIOUS
  <2> HIDE DEF Effective
  <2> QED BY <2>1, <2>2 DEF IstioThreshold, LayerThreshold, Fraction, Percent
<1> QED BY <1>2, <1>3

(* A config has the name of its filter. *)
LEMMA ConfigNamed ==
    ASSUME NEW s, NEW f, NEW threshold
    PROVE  TypedConfig(s, f, threshold).name = f
BY DEF TypedConfig

(* A switch that is pushed gives the Envoys what applying the object read  *)
(* after it would, but for the window, the percentile and the unit of the  *)
(* threshold, although the resources still hold the former profile's       *)
(* values (istio.go:265-271, controller.go:210, 258-274): every runtime    *)
(* key comes from the new layer, and what the layer lacks is the same in   *)
(* the old config.                                                         *)
THEOREM SwitchesDeliver == Spec => SwitchDelivers
<1>1. ASSUME RendererInv, Next, OnlySwitched, last'.delivery = "pushed",
             NEW f \in RuntimeFilters(spec)
      PROVE  /\ \A key \in DOMAIN TypedConfig(spec, f, IstioThreshold(spec))
                               \ {"window", "percentile", "threshold"} :
                   InEnvoy(f, key)' = TypedConfig(spec, f, IstioThreshold(spec))[key]
             /\ "threshold" \in DOMAIN TypedConfig(spec, f, IstioThreshold(spec)) =>
                   100 * InEnvoy(f, "threshold")'
                       = TypedConfig(spec, f, IstioThreshold(spec))["threshold"]
  <2>1. PICK host \in Hosts : SwitchReconcile(host)
    BY <1>1, OnlySwitchReconcile DEF OnlySwitched
  <2>2. switching = "istio" /\ pushed' = Recorded(Layers(spec))
    BY <1>1, <2>1, SwitchReconcileEffects
  <2>3. f \in DOMAIN pushed' /\ pushed'[f] = Layer(spec, f)
    BY <2>2, PushedOver
  <2>4. ASSUME NEW key \in DOMAIN TypedConfig(spec, f, IstioThreshold(spec))
                              \ {"window", "percentile", "threshold"}
        PROVE  InEnvoy(f, key)' = TypedConfig(spec, f, IstioThreshold(spec))[key]
    <3>1. CASE key # "name"
      BY <2>3, <3>1, LayerCarries DEF InEnvoy
    <3>2. CASE key = "name"
      <4>1. /\ last.backend = "istio" /\ cluster' = cluster
            /\ f \in RuntimeFilters(last.of)
        BY <1>1, <2>1, <2>2, SwitchedRefs
      <4>2. cluster'[<<"EnvoyFilter", f>>].config
                = {TypedConfig(last.of, f, IstioThreshold(last.of))}
        BY <1>1, <4>1 DEF RendererInv, AppliedShown, OnlySwitched
      <4>3. (CHOOSE c \in cluster'[<<"EnvoyFilter", f>>].config : TRUE)
                = TypedConfig(last.of, f, IstioThreshold(last.of))
        BY <4>2
      <4>4. key \notin DOMAIN pushed'[f]
        BY <2>3, <3>2, LayerCarries
      <4>5. InEnvoy(f, key)' = (CHOOSE c \in cluster'[<<"EnvoyFilter", f>>].config : TRUE)[key]
        BY <4>4 DEF InEnvoy
      <4>6. /\ TypedConfig(last.of, f, IstioThreshold(last.of)).name = f
            /\ TypedConfig(spec, f, IstioThreshold(spec)).name = f
        BY ConfigNamed
      <4>7. InEnvoy(f, key)' = TypedConfig(last.of, f, IstioThreshold(last.of))["name"]
        BY <3>2, <4>3, <4>5
      <4> QED BY <3>2, <4>6, <4>7
    <3> QED BY <3>1, <3>2
  <2>5. ASSUME "threshold" \in DOMAIN TypedConfig(spec, f, IstioThreshold(spec))
        PROVE  100 * InEnvoy(f, "threshold")'
                   = TypedConfig(spec, f, IstioThreshold(spec))["threshold"]
    <3>1. spec \in SpecType
      BY <1>1, RendererAssumption DEF RendererInv, TypeOK
    <3>2. /\ "threshold" \in DOMAIN Layer(spec, f)
          /\ 100 * Layer(spec, f)["threshold"]
                 = TypedConfig(spec, f, IstioThreshold(spec))["threshold"]
      BY <2>5, <3>1, ThresholdCarried
    <3>3. InEnvoy(f, "threshold")' = Layer(spec, f)["threshold"]
      BY <2>3, <3>2 DEF InEnvoy
    <3> QED BY <3>2, <3>3
  <2> QED BY <2>4, <2>5
<1>2. RendererInv /\ [Next]_vars
          => [OnlySwitched /\ last'.delivery = "pushed" =>
                \A f \in RuntimeFilters(spec) :
                    LET c == TypedConfig(spec, f, IstioThreshold(spec)) IN
                    /\ \A key \in DOMAIN c \ {"window", "percentile", "threshold"} :
                          InEnvoy(f, key)' = c[key]
                    /\ "threshold" \in DOMAIN c =>
                          100 * InEnvoy(f, "threshold")' = c["threshold"]]_vars
  BY <1>1
<1> QED BY <1>2, InvHolds, PTL DEF Spec, SwitchDelivers
=============================================================================
