-------------------------- MODULE Reconciler_proofs --------------------------
(***************************************************************************)
(* Theorems about the reconcile loop, for every policy, every number of    *)
(* triggers, every set of failing calls and every bound.                   *)
(***************************************************************************)
EXTENDS ReconcilerProps, SequenceTheorems, TLAPS

-----------------------------------------------------------------------------
(* What the operators the steps are built from return. *)

(* A merge of fields of a status onto another one is a status. *)
LEMMA PatchTyped ==
    ASSUME NEW new \in Status, NEW base \in Status, NEW old \in Status
    PROVE  [f \in DOMAIN new |-> IF new[f] = base[f] THEN old[f] ELSE new[f]] \in Status
BY DEF Status

(* The resources rendered for a policy are resources. *)
LEMMA RenderedTyped ==
    ASSUME NEW p \in Policy
    PROVE  Rendered(p) \in SUBSET Resource
BY DEF Rendered, Policy, Resource

(* The history a Reconcile writes is a sequence of decisions. *)
LEMMA RecordedHistoryTyped ==
    ASSUME pol \in Policy, decision \in Decision
    PROVE  RecordedHistory \in Seq(Decision)
<1> DEFINE all  == <<decision>> \o pol.status.history
           kept == IF Len(all) > HistoryMax THEN HistoryMax ELSE Len(all)
<1>1. pol.status.history \in Seq(Decision)
  BY DEF Policy, Status
<1>2. all \in Seq(Decision)
  BY <1>1
<1>3. kept \in 0..Len(all)
  BY <1>2, ReconcilerAssumption
<1> HIDE DEF all, kept
<1>4. SubSeq(all, 1, kept) \in Seq(Decision)
  BY <1>2, <1>3
<1> QED BY <1>1, <1>4 DEF RecordedHistory, all, kept

(* An evaluation of natural counters leaves natural counters, as Evaluate does. *)
LEMMA CountAfterTyped ==
    ASSUME NEW met, NEW profile, NEW c \in [Trigger -> Nat], NEW cool,
           NEW needed
    PROVE  CountAfter(met, profile, c, cool, needed) \in [Trigger -> Nat]
BY DEF CountAfter

(* A policy just created is a policy object. *)
LEMMA NewPolicyTyped ==
    ASSUME NEW p \in AnyProfile, NEW fs \in SUBSET Filter
    PROVE  NewPolicy(p, fs) \in Policy
BY DEF NewPolicy, Policy, Status, EmptyStatus, NoDecision, Decision, Conditions, AnyProfile,
       ActiveProfile

(* So is the value that stands for no object. *)
LEMMA NoPolicyTyped == NoPolicy \in Policy
<1>1. NewPolicy(Baseline, {}) \in Policy
  BY NewPolicyTyped, {} \in SUBSET Filter, Baseline \in AnyProfile DEF AnyProfile, ActiveProfile
<1> QED BY <1>1 DEF NoPolicy, Policy

(* The marker of a resource that is not there is a content. *)
LEMMA AbsentTyped == Absent \in ContentSet
BY DEF Absent, ContentSet, AnyProfile, ActiveProfile

(* What Apply writes into a resource is a content. *)
LEMMA ContentTyped ==
    ASSUME NEW p \in Policy
    PROVE  Content(p) \in ContentSet
BY DEF Content, ContentSet, Policy

(* An empty decision record is a decision record. *)
LEMMA NoDecisionTyped == NoDecision \in Decision
BY DEF NoDecision, Decision, AnyProfile, ActiveProfile

-----------------------------------------------------------------------------
(* Writes to the API server keep the objects on both sides well-typed.     *)

(* A write keeps the object, the cached object and the pending events typed. *)
LEMMA WriteTyped ==
    ASSUME NEW new \in Policy, api \in Policy, cache \in Policy, watch \in Seq(Policy),
           Write(new)
    PROVE  api' \in Policy /\ cache' \in Policy /\ watch' \in Seq(Policy)
BY DEF Write

(* So does a status patch, which merges into the object on the server. *)
LEMMA PatchStatusTyped ==
    ASSUME NEW new \in Status, TypeOK, PatchStatus(new)
    PROVE  api' \in Policy /\ cache' \in Policy /\ watch' \in Seq(Policy)
<1>1. CASE ~api.exists
  BY <1>1 DEF PatchStatus, TypeOK, server
<1>2. CASE api.exists
  <2> DEFINE merged == [f \in DOMAIN new |-> IF new[f] = pol.status[f] THEN api.status[f]
                                                                       ELSE new[f]]
  <2>1. pol.status \in Status /\ api.status \in Status
    BY DEF TypeOK, Policy
  <2>2. merged \in Status
    BY <2>1, PatchTyped
  <2>3. [api EXCEPT !.status = merged] \in Policy
    BY <2>2 DEF TypeOK, Policy
  <2>4. Write([api EXCEPT !.status = merged])
    BY <1>2 DEF PatchStatus
  <2> HIDE DEF merged
  <2> QED BY <2>3, <2>4, WriteTyped DEF TypeOK
<1> QED BY <1>1, <1>2

(* The patch of activeProfile by evaluateAndSwitch makes a policy object. *)
LEMMA SwitchedTyped ==
    ASSUME api \in Policy, decision \in Decision
    PROVE  SwitchedPolicy \in Policy
<1>1. decision.to \in AnyProfile
  BY DEF Decision
<1>2. api.gen \in Nat /\ api.gen + 1 \in Nat
  BY DEF Policy
<1> QED BY <1>1, <1>2 DEF SwitchedPolicy, Policy

(* So does every edit a human can make. *)
LEMMA EditTyped ==
    ASSUME api \in Policy
    PROVE  /\ \A p \in AnyProfile :
                [api EXCEPT !.profile = p, !.gen = IF api.profile = p THEN @ ELSE @ + 1]
                    \in Policy
           /\ \A fs \in SUBSET Filter :
                [api EXCEPT !.filters = fs, !.gen = IF api.filters = fs THEN @ ELSE @ + 1]
                    \in Policy
           /\ [api EXCEPT !.dryRun = ~@, !.gen = @ + 1] \in Policy
           /\ [api EXCEPT !.override = ~@] \in Policy
           /\ [api EXCEPT !.exists = FALSE] \in Policy
<1>1. api.gen \in Nat /\ api.gen + 1 \in Nat
  BY DEF Policy
<1>2. ASSUME NEW p \in AnyProfile
      PROVE  [api EXCEPT !.profile = p, !.gen = IF api.profile = p THEN @ ELSE @ + 1] \in Policy
  BY <1>1 DEF Policy
<1>3. ASSUME NEW fs \in SUBSET Filter
      PROVE  [api EXCEPT !.filters = fs, !.gen = IF api.filters = fs THEN @ ELSE @ + 1] \in Policy
  BY <1>1 DEF Policy
<1>4. [api EXCEPT !.dryRun = ~@, !.gen = @ + 1] \in Policy
  BY <1>1 DEF Policy
<1>5. [api EXCEPT !.override = ~@] \in Policy /\ [api EXCEPT !.exists = FALSE] \in Policy
  BY DEF Policy
<1> QED BY <1>2, <1>3, <1>4, <1>5

-----------------------------------------------------------------------------
(* Type correctness. *)

(* The operator starts in a well-typed state. *)
LEMMA InitTyped == Init => TypeOK
<1> SUFFICES ASSUME Init PROVE TypeOK
  OBVIOUS
<1>1. api \in Policy
  BY NewPolicyTyped, ReconcilerAssumption DEF Init, AnyProfile
<1>2. watch \in Seq(Policy) /\ made \in Seq(Decision)
  BY DEF Init
<1>3. applied \in [Resource -> ContentSet] /\ current \in [Runtime -> ContentSet]
  BY AbsentTyped DEF Init
<1>4. pol \in Policy /\ decision \in Decision
  BY NoPolicyTyped, NoDecisionTyped DEF Init
<1>5. edits \in 0..MaxEdits /\ edited \in SUBSET Edits /\ failed \in SUBSET Faults
  BY ReconcilerAssumption DEF Init
<1> QED BY <1>1, <1>2, <1>3, <1>4, <1>5 DEF Init, TypeOK

(* Each step of Reconcile that succeeds keeps the state typed. *)
LEMMA StepTyped ==
    ASSUME TypeOK, Step
    PROVE  TypeOK'
<1> USE DEF TypeOK, server, locals, memory, human, Goto
<1>1. CASE FetchDeleted
  BY <1>1 DEF FetchDeleted
<1>2. CASE Fetch
  BY <1>2 DEF Fetch
<1>3. CASE SkipEvaluate
  BY <1>3 DEF SkipEvaluate
<1>4. ASSUME NEW met \in Observations, Evaluate(met) PROVE TypeOK'
  <2>1. count' \in [Trigger -> Nat]
    BY <1>4, CountAfterTyped DEF Evaluate
  <2>2. cooling' \in SUBSET Trigger
    BY <1>4 DEF Evaluate, Firing
  <2>3. /\ decision' \in Decision
        /\ pc' \in {"apply", "switch"}
        /\ pol' = pol /\ switched' = switched
    <3>1. CASE Goto("apply")
      BY <3>1, <1>4 DEF Evaluate
    <3>2. ASSUME NEW t \in Firing(met, pol.profile, count, cooling, Required(When)),
                 decision' = [trigger |-> t, from |-> pol.profile, to |-> SwitchTo[t]],
                 pc' = "switch", UNCHANGED <<pol, switched>>
          PROVE  decision' \in Decision
      <4>1. t \in Trigger
        BY <3>2 DEF Firing
      <4>2. pol.profile \in AnyProfile /\ SwitchTo[t] \in AnyProfile
        BY <4>1, TriggerAssumption DEF Policy, AnyProfile, ActiveProfile
      <4> QED BY <3>2, <4>1, <4>2 DEF Decision
    <3> QED BY <3>1, <3>2, <1>4 DEF Evaluate
  <2> QED BY <2>1, <2>2, <2>3, <1>4 DEF Evaluate
<1>5. CASE Switch
  <2>1. SwitchedPolicy \in Policy
    BY SwitchedTyped
  <2> QED BY <1>5, <2>1, WriteTyped DEF Switch, Overruns
<1>6. CASE Reget
  BY <1>6, NoPolicyTyped, NoDecisionTyped DEF Reget, Return
<1>7. CASE Apply
  BY <1>7, ContentTyped DEF Apply, ApplyTo
<1>8. CASE Prune
  BY <1>8, AbsentTyped DEF Prune, DeleteFrom, AfterPrune, ToPush, RTDSLayers
<1>9. ASSUME NEW l \in Runtime, PushLayer(l) PROVE TypeOK'
  BY <1>9, ContentTyped DEF PushLayer, Recorded
<1>10. CASE UpdateStatus
  <2>1. RecordedDecision \in Decision
    BY DEF RecordedDecision, Policy, Status
  <2>2. Ready \in Conditions
    BY DEF Ready, Policy, Status, Conditions
  <2>3. NewStatus \in Status
    BY <2>1, <2>2, RenderedTyped, RecordedHistoryTyped DEF NewStatus, Status, Policy
  <2>4. api' \in Policy /\ cache' \in Policy /\ watch' \in Seq(Policy)
    BY <1>10, <2>3, PatchStatusTyped DEF UpdateStatus
  <2> QED BY <1>10, <2>4, NoPolicyTyped, NoDecisionTyped DEF UpdateStatus, Return
<1>11. CASE MarkDegraded
  <2> DEFINE degraded == [pol.status EXCEPT !.conditions =
                            [ready |-> "False", degraded |-> "True", gen |-> pol.gen]]
  <2>1. degraded \in Status
    BY DEF Policy, Status, Conditions
  <2>2. PatchStatus(degraded)
    BY <1>11 DEF MarkDegraded
  <2> HIDE DEF degraded
  <2>3. api' \in Policy /\ cache' \in Policy /\ watch' \in Seq(Policy)
    BY <2>1, <2>2, PatchStatusTyped
  <2> QED BY <1>11, <2>3, NoPolicyTyped, NoDecisionTyped DEF MarkDegraded, Return
<1>12. CASE ~api.exists /\ SwitchFails
  BY <1>12 DEF SwitchFails
<1> QED BY <1>1, <1>2, <1>3, <1>4, <1>5, <1>6, <1>7, <1>8, <1>9, <1>10, <1>11, <1>12 DEF Step

(* Each failing call and a crash of the operator keep the state typed. *)
LEMMA FailureTyped ==
    ASSUME TypeOK, Failure
    PROVE  TypeOK'
<1> USE DEF TypeOK, server, locals, memory, human, Goto, Fails
<1>1. CASE FetchDetectFails
  BY <1>1 DEF FetchDetectFails
<1>2. CASE SwitchFails
  BY <1>2 DEF SwitchFails
<1>3. CASE SwitchResponseLost
  <2>1. SwitchedPolicy \in Policy
    BY SwitchedTyped
  <2> QED BY <1>3, <2>1, WriteTyped DEF SwitchResponseLost, Overruns
<1>4. CASE ApplyFails
  BY <1>4, ContentTyped DEF ApplyFails, ApplyTo
<1>5. CASE PruneFails
  BY <1>5, AbsentTyped DEF PruneFails, DeleteFrom, AfterPrune, ToPush, RTDSLayers
<1>6. CASE UpdateStatusFails
  BY <1>6, NoPolicyTyped, NoDecisionTyped DEF UpdateStatusFails, Return
<1>7. CASE Crash
  <2>1. watch' \in Seq(Policy)
    BY <1>7 DEF Crash
  <2>2. current' \in [Runtime -> ContentSet] /\ count' \in [Trigger -> Nat]
    BY <1>7, AbsentTyped DEF Crash
  <2> QED BY <1>7, <2>1, <2>2, NoPolicyTyped, NoDecisionTyped DEF Crash, Return
<1> QED BY <1>1, <1>2, <1>3, <1>4, <1>5, <1>6, <1>7 DEF Failure, CallFails

(* What a human edit does around its write keeps the state typed. *)
LEMMA HumanTyped ==
    ASSUME TypeOK, NEW kind, NEW new \in Policy, Human(kind, new)
    PROVE  TypeOK'
<1>1. api' \in Policy /\ cache' \in Policy /\ watch' \in Seq(Policy)
  BY WriteTyped DEF Human, TypeOK
<1>2. edits' \in 0..MaxEdits
  BY ReconcilerAssumption DEF Human, TypeOK
<1> QED BY <1>1, <1>2 DEF Human, TypeOK, locals, memory

(* Each step outside Reconcile keeps the state typed. *)
LEMMA WorldTyped ==
    ASSUME TypeOK, World
    PROVE  TypeOK'
<1>1. CASE Deliver
  BY <1>1 DEF TypeOK, Deliver, locals, memory, human
<1>2. ASSUME NEW t \in Trigger, CooldownOver(t) PROVE TypeOK'
  BY <1>2 DEF TypeOK, CooldownOver, server, locals, human
<1>3. CASE CollectGarbage
  BY <1>3, AbsentTyped DEF TypeOK, CollectGarbage, server, locals, memory, human
<1> api \in Policy
  BY DEF TypeOK
<1>4. ASSUME NEW p \in AnyProfile, EditProfile(p) PROVE TypeOK'
  <2>1. [api EXCEPT !.profile = p, !.gen = IF api.profile = p THEN @ ELSE @ + 1] \in Policy
    BY EditTyped
  <2> QED BY <1>4, <2>1, HumanTyped DEF EditProfile
<1>5. ASSUME NEW fs \in FilterSets, EditFilters(fs) PROVE TypeOK'
  <2>1. [api EXCEPT !.filters = fs, !.gen = IF api.filters = fs THEN @ ELSE @ + 1] \in Policy
    BY EditTyped, ReconcilerAssumption
  <2> QED BY <1>5, <2>1, HumanTyped DEF EditFilters
<1>6. CASE EditDryRun
  BY <1>6, EditTyped, HumanTyped DEF EditDryRun
<1>7. CASE EditOverride
  BY <1>7, EditTyped, HumanTyped DEF EditOverride
<1>8. CASE Delete
  BY <1>8, EditTyped, HumanTyped DEF Delete
<1> QED BY <1>1, <1>2, <1>3, <1>4, <1>5, <1>6, <1>7, <1>8 DEF World, HumanEdit

(* Type correctness is inductive. *)
LEMMA NextTyped == TypeOK /\ [Next]_vars => TypeOK'
<1> SUFFICES ASSUME TypeOK, [Next]_vars PROVE TypeOK'
  OBVIOUS
<1>1. CASE UNCHANGED vars
  BY <1>1 DEF vars, TypeOK
<1> QED BY <1>1, StepTyped, FailureTyped, WorldTyped DEF Next

(* Every step of every reconcile, edit, failure and restart keeps the      *)
(* objects, the trigger state and the cluster state well-formed.           *)
THEOREM TypeCorrect == Spec => []TypeOK
BY InitTyped, NextTyped, PTL DEF Spec

-----------------------------------------------------------------------------
(* With a cache that is current, MaxLag = 0, the status is truthful.       *)

CacheCurrent == cache = api /\ watch = <<>>

(* The generation names the spec: the object the running Reconcile holds   *)
(* is older than the server's, or has the same profile and filters.        *)
GenerationNamesSpec ==
    pc # "idle" =>
        /\ pol.gen <= api.gen
        /\ pol.gen = api.gen => pol.profile = api.profile /\ pol.filters = api.filters

(* Only the Reconcile writes the status, so what it holds is current. *)
OneStatusWriter == pc # "idle" => pol.status = api.status

StatusInv ==
    /\ CacheCurrent
    /\ api.status.observed <= api.gen
    /\ ObservedTruthful
    /\ GenerationNamesSpec
    /\ OneStatusWriter

(* With no lag allowed, a write leaves the cache current. *)
LEMMA WriteCurrent ==
    ASSUME MaxLag = 0, NEW new, CacheCurrent, Write(new)
    PROVE  api' = new /\ CacheCurrent'
BY DEF Write, CacheCurrent

(* A status patch of a current object installs the fields it names.        *)
LEMMA PatchInstalls ==
    ASSUME MaxLag = 0, TypeOK, StatusInv, pc # "idle", NEW new \in Status, PatchStatus(new)
    PROVE  /\ CacheCurrent'
           /\ api.exists => api' = [api EXCEPT !.status = new]
           /\ ~api.exists => api' = api
<1>1. CASE ~api.exists
  BY <1>1 DEF PatchStatus, server, CacheCurrent, StatusInv
<1>2. CASE api.exists
  <2> DEFINE merged == [f \in DOMAIN new |-> IF new[f] = pol.status[f] THEN api.status[f]
                                                                       ELSE new[f]]
  <2>1. pol.status = api.status
    BY DEF StatusInv, OneStatusWriter
  <2>2. merged = new
    BY <2>1 DEF Status
  <2>3. Write([api EXCEPT !.status = merged])
    BY <1>2 DEF PatchStatus
  <2> HIDE DEF merged
  <2> QED BY <1>2, <2>2, <2>3, WriteCurrent DEF StatusInv
<1> QED BY <1>1, <1>2

(* A step that leaves the object on the server alone, and what the running *)
(* Reconcile holds of it.                                                  *)
LEMMA QuietKeepsStatus ==
    ASSUME StatusInv, api' = api, CacheCurrent',
           pc' = "idle" \/ (pc # "idle" /\ pol' = pol)
    PROVE  StatusInv'
BY DEF StatusInv, ObservedTruthful, GenerationNamesSpec, OneStatusWriter, Rendered

(* A write to the spec: a new generation, or the same profile and filters. *)
LEMMA SpecWriteKeepsStatus ==
    ASSUME TypeOK, StatusInv, CacheCurrent',
           api'.status = api.status,
           \/ api'.gen = api.gen + 1
           \/ api'.gen = api.gen /\ api'.profile = api.profile /\ api'.filters = api.filters,
           (pc' = "idle" /\ pc = "idle") \/ (pc # "idle" /\ pol' \in {pol, api'})
    PROVE  StatusInv'
<1>1. /\ api.gen \in Nat /\ api.status.observed \in Nat /\ pol.gen \in Nat
      /\ api.gen + 1 > api.gen
  BY DEF TypeOK, Policy, Status
<1>2. (api.status.observed <= api.gen)'
  BY <1>1 DEF StatusInv
<1>3. ObservedTruthful'
  BY <1>1 DEF StatusInv, ObservedTruthful, Rendered
<1>4. (GenerationNamesSpec /\ OneStatusWriter)'
  BY <1>1 DEF StatusInv, GenerationNamesSpec, OneStatusWriter
<1> QED BY <1>2, <1>3, <1>4 DEF StatusInv

(* Each step of Reconcile that succeeds keeps the status truthful. *)
LEMMA StepKeepsStatus ==
    ASSUME MaxLag = 0, TypeOK, StatusInv, Step
    PROVE  StatusInv'
<1> USE DEF server, locals, memory, human, Goto
<1> DEFINE Quiet == /\ UNCHANGED server
                    /\ pc' = "idle" \/ (pc # "idle" /\ pol' = pol)
<1>1. ASSUME Quiet PROVE StatusInv'
  <2>1. CacheCurrent' /\ api' = api
    BY <1>1 DEF StatusInv, CacheCurrent
  <2> QED BY <1>1, <2>1, QuietKeepsStatus
<1>2. CASE FetchDeleted
  BY <1>1, <1>2 DEF FetchDeleted
<1>3. CASE Fetch
  BY <1>3 DEF Fetch, StatusInv, CacheCurrent, ObservedTruthful, GenerationNamesSpec,
              OneStatusWriter, Rendered, TypeOK, Policy
<1>4. CASE SkipEvaluate
  BY <1>1, <1>4 DEF SkipEvaluate
<1>5. ASSUME NEW met \in Observations, Evaluate(met) PROVE StatusInv'
  BY <1>1, <1>5 DEF Evaluate
<1>6. CASE Switch
  <2>1. api' = SwitchedPolicy /\ CacheCurrent' /\ pol' = api'
    BY <1>6, WriteCurrent DEF Switch, StatusInv
  <2>2. \/ SwitchedPolicy.gen = api.gen + 1
        \/ /\ SwitchedPolicy.gen = api.gen /\ SwitchedPolicy.profile = api.profile
           /\ SwitchedPolicy.filters = api.filters
    BY DEF SwitchedPolicy, TypeOK, Policy
  <2>3. SwitchedPolicy.status = api.status
    BY DEF SwitchedPolicy, TypeOK, Policy
  <2> QED BY <1>6, <2>1, <2>2, <2>3, SpecWriteKeepsStatus DEF Switch
<1>7. CASE Reget
  BY <1>7 DEF Reget, Return, StatusInv, CacheCurrent, ObservedTruthful, GenerationNamesSpec,
              OneStatusWriter, Rendered, TypeOK, Policy
<1>8. CASE Apply
  BY <1>1, <1>8 DEF Apply
<1>9. CASE Prune
  BY <1>1, <1>9 DEF Prune, AfterPrune
<1>10. ASSUME NEW l \in Runtime, PushLayer(l) PROVE StatusInv'
  BY <1>1, <1>10 DEF PushLayer
<1>11. CASE UpdateStatus
  <2>1. NewStatus \in Status
    BY RenderedTyped, RecordedHistoryTyped
       DEF NewStatus, RecordedDecision, Ready, TypeOK, Policy, Status, Conditions
  <2>2. CacheCurrent' /\ (api' = api \/ api' = [api EXCEPT !.status = NewStatus])
    BY <1>11, <2>1, PatchInstalls DEF UpdateStatus
  <2>3. pc' = "idle"
    BY <1>11 DEF UpdateStatus, Return
  <2>4. CASE api' = api
    BY <2>2, <2>3, <2>4, QuietKeepsStatus
  <2>5. CASE api' = [api EXCEPT !.status = NewStatus]
    <3>1. /\ api'.status = NewStatus /\ api'.gen = api.gen
          /\ api'.profile = api.profile /\ api'.filters = api.filters
      BY <2>5 DEF TypeOK, Policy
    <3>2. /\ NewStatus.observed = pol.gen /\ NewStatus.profile = pol.profile
          /\ NewStatus.managed = Rendered(pol)
      BY DEF NewStatus
    <3>3. GenerationNamesSpec /\ pc # "idle"
      BY <1>11 DEF StatusInv, UpdateStatus
    <3> QED BY <2>2, <2>3, <3>1, <3>2, <3>3
            DEF StatusInv, ObservedTruthful, GenerationNamesSpec, OneStatusWriter, Rendered
  <2> QED BY <2>2, <2>4, <2>5
<1>12. CASE MarkDegraded
  <2> DEFINE conditions == [ready |-> "False", degraded |-> "True", gen |-> pol.gen]
             degraded   == [pol.status EXCEPT !.conditions = conditions]
  <2>1. degraded \in Status
    BY DEF TypeOK, Policy, Status, Conditions
  <2>2. PatchStatus(degraded) /\ pc # "idle" /\ pc' = "idle"
    BY <1>12 DEF MarkDegraded, Return
  <2>3. /\ degraded.observed = pol.status.observed /\ degraded.profile = pol.status.profile
        /\ degraded.managed = pol.status.managed
    BY DEF TypeOK, Policy, Status
  <2>4. pol.status = api.status
    BY <2>2 DEF StatusInv, OneStatusWriter
  <2> HIDE DEF degraded
  <2>5. CacheCurrent' /\ (api' = api \/ api' = [api EXCEPT !.status = degraded])
    BY <2>1, <2>2, PatchInstalls
  <2>6. CASE api' = api
    BY <2>2, <2>5, <2>6, QuietKeepsStatus
  <2>7. CASE api' = [api EXCEPT !.status = degraded]
    <3>1. /\ api'.status = degraded /\ api'.gen = api.gen
          /\ api'.profile = api.profile /\ api'.filters = api.filters
      BY <2>7 DEF TypeOK, Policy
    <3> QED BY <2>2, <2>3, <2>4, <2>5, <3>1
            DEF StatusInv, ObservedTruthful, GenerationNamesSpec, OneStatusWriter, Rendered
  <2> QED BY <2>5, <2>6, <2>7
<1>13. CASE ~api.exists /\ SwitchFails
  BY <1>1, <1>13 DEF SwitchFails
<1> QED BY <1>2, <1>3, <1>4, <1>5, <1>6, <1>7, <1>8, <1>9, <1>10, <1>11, <1>12, <1>13 DEF Step

(* Each failing call and a crash keep the status truthful. *)
LEMMA FailureKeepsStatus ==
    ASSUME MaxLag = 0, TypeOK, StatusInv, Failure
    PROVE  StatusInv'
<1> USE DEF server, locals, memory, human, Goto
<1>1. CASE FetchDetectFails
  BY <1>1 DEF FetchDetectFails, StatusInv, CacheCurrent, ObservedTruthful,
              GenerationNamesSpec, OneStatusWriter, Rendered, TypeOK, Policy
<1>2. CASE SwitchResponseLost
  <2>1. api' = SwitchedPolicy /\ CacheCurrent'
    BY <1>2, WriteCurrent DEF SwitchResponseLost, StatusInv
  <2>2. \/ SwitchedPolicy.gen = api.gen + 1
        \/ /\ SwitchedPolicy.gen = api.gen /\ SwitchedPolicy.profile = api.profile
           /\ SwitchedPolicy.filters = api.filters
    BY DEF SwitchedPolicy, TypeOK, Policy
  <2>3. SwitchedPolicy.status = api.status
    BY DEF SwitchedPolicy, TypeOK, Policy
  <2> QED BY <1>2, <2>1, <2>2, <2>3, SpecWriteKeepsStatus DEF SwitchResponseLost
<1>3. CASE SwitchFails \/ ApplyFails \/ PruneFails \/ UpdateStatusFails \/ Crash
  <2>1. api' = api /\ CacheCurrent' /\ (pc' = "idle" \/ (pc # "idle" /\ pol' = pol))
    BY <1>3 DEF SwitchFails, ApplyFails, PruneFails, UpdateStatusFails, Crash, Return,
                AfterPrune, StatusInv, CacheCurrent
  <2> QED BY <2>1, QuietKeepsStatus
<1> QED BY <1>1, <1>2, <1>3 DEF Failure, CallFails

(* Each step outside Reconcile keeps the status truthful. *)
LEMMA WorldKeepsStatus ==
    ASSUME MaxLag = 0, TypeOK, StatusInv, World
    PROVE  StatusInv'
<1> USE DEF server, locals, memory, human
<1>1. CASE Deliver
  BY <1>1 DEF Deliver, StatusInv, CacheCurrent
<1>2. CASE CollectGarbage \/ \E t \in Trigger : CooldownOver(t)
  <2>1. api' = api /\ CacheCurrent' /\ pc' = pc /\ pol' = pol
    BY <1>2 DEF CollectGarbage, CooldownOver, StatusInv, CacheCurrent
  <2> QED BY <2>1, QuietKeepsStatus
<1>3. ASSUME NEW kind, NEW new, Human(kind, new),
             new.status = api.status,
             \/ new.gen = api.gen + 1
             \/ new.gen = api.gen /\ new.profile = api.profile /\ new.filters = api.filters
      PROVE  StatusInv'
  <2>1. api' = new /\ CacheCurrent' /\ pc' = pc /\ pol' = pol
    BY <1>3, WriteCurrent DEF Human, StatusInv
  <2> QED BY <1>3, <2>1, SpecWriteKeepsStatus
<1>4. ASSUME NEW p \in AnyProfile, EditProfile(p) PROVE StatusInv'
  BY <1>3, <1>4 DEF EditProfile, TypeOK, Policy
<1>5. ASSUME NEW fs \in FilterSets, EditFilters(fs) PROVE StatusInv'
  BY <1>3, <1>5 DEF EditFilters, TypeOK, Policy
<1>6. CASE EditDryRun
  BY <1>3, <1>6 DEF EditDryRun, TypeOK, Policy
<1>7. CASE EditOverride
  BY <1>3, <1>7 DEF EditOverride, TypeOK, Policy
<1>8. CASE Delete
  BY <1>3, <1>8 DEF Delete, TypeOK, Policy
<1> QED BY <1>1, <1>2, <1>4, <1>5, <1>6, <1>7, <1>8 DEF World, HumanEdit

(* The invariant holds at the start. *)
LEMMA InitStatusInv == Init => StatusInv
BY DEF Init, StatusInv, CacheCurrent, ObservedTruthful, GenerationNamesSpec,
       OneStatusWriter, NewPolicy, EmptyStatus

(* The invariant is inductive. *)
LEMMA NextStatusInv ==
    ASSUME MaxLag = 0, TypeOK, StatusInv, [Next]_vars
    PROVE  StatusInv'
<1>1. CASE UNCHANGED vars
  BY <1>1 DEF vars, StatusInv, CacheCurrent, ObservedTruthful, GenerationNamesSpec,
              OneStatusWriter, Rendered
<1> QED BY <1>1, StepKeepsStatus, FailureKeepsStatus, WorldKeepsStatus DEF Next

(* The invariant holds in every state. *)
LEMMA StatusInvHolds ==
    ASSUME MaxLag = 0
    PROVE  Spec => []StatusInv
<1>1. TypeOK /\ StatusInv /\ [Next]_vars => StatusInv'
  BY NextStatusInv
<1> QED BY <1>1, InitStatusInv, TypeCorrect, PTL DEF Spec

(* With a cache that is current, a status that claims the generation on    *)
(* the server describes its profile and its resources, across every write  *)
(* that lands between fetch and status patch (controller.go:280-286).      *)
THEOREM StatusIsTruthful == MaxLag = 0 /\ Spec => []ObservedTruthful
<1> SUFFICES ASSUME MaxLag = 0 PROVE Spec => []ObservedTruthful
  OBVIOUS
<1>1. StatusInv => ObservedTruthful
  BY DEF StatusInv
<1> QED BY <1>1, StatusInvHolds, PTL

-----------------------------------------------------------------------------
(* human-override overruns by one switch at most. *)

(* A Reconcile that may still switch has read the object before the        *)
(* annotation was set, and nothing has switched since.                     *)
OverrunInv ==
    /\ OverrideOverrun
    /\ pc = "switch" => ~pol.override
    /\ pc \in {"evaluate", "switch"} /\ ~pol.override /\ api.override => overrun = 0

(* Each step of Reconcile that succeeds keeps the bound on overruns. *)
LEMMA StepKeepsOverrun ==
    ASSUME MaxLag = 0, TypeOK, CacheCurrent, OverrunInv, Step
    PROVE  OverrunInv'
<1> USE DEF server, locals, memory, human, Goto, OverrunInv, OverrideOverrun
<1>1. CASE \/ FetchDeleted \/ SkipEvaluate \/ Apply \/ Prune \/ (~api.exists /\ SwitchFails)
           \/ \E l \in Runtime : PushLayer(l)
  BY <1>1 DEF FetchDeleted, SkipEvaluate, Apply, Prune, AfterPrune, PushLayer, SwitchFails
<1>2. CASE Fetch
  BY <1>2 DEF Fetch, CacheCurrent
<1>3. ASSUME NEW met \in Observations, Evaluate(met) PROVE OverrunInv'
  BY <1>3 DEF Evaluate
<1>4. CASE Switch
  <2>1. api' = SwitchedPolicy /\ SwitchedPolicy.override = api.override
    BY <1>4, WriteCurrent DEF Switch, SwitchedPolicy, TypeOK, Policy
  <2>2. api.override => overrun = 0
    BY <1>4 DEF Switch
  <2> QED BY <1>4, <2>1, <2>2 DEF Switch, Overruns
<1>5. CASE Reget
  BY <1>5 DEF Reget, Return
<1>6. CASE UpdateStatus \/ MarkDegraded
  <2>1. api'.override = api.override
    BY <1>6, WriteCurrent DEF UpdateStatus, MarkDegraded, PatchStatus, TypeOK, Policy
  <2> QED BY <1>6, <2>1 DEF UpdateStatus, MarkDegraded, Return
<1> QED BY <1>1, <1>2, <1>3, <1>4, <1>5, <1>6 DEF Step

(* So does each failure and each step outside Reconcile. *)
LEMMA OthersKeepOverrun ==
    ASSUME MaxLag = 0, TypeOK, CacheCurrent, OverrunInv, Failure \/ World
    PROVE  OverrunInv'
<1> USE DEF server, locals, memory, human, Goto, OverrunInv, OverrideOverrun
<1>1. CASE FetchDetectFails \/ SwitchFails \/ ApplyFails \/ PruneFails \/ UpdateStatusFails
              \/ Crash
  BY <1>1 DEF FetchDetectFails, SwitchFails, ApplyFails, PruneFails, AfterPrune,
              UpdateStatusFails, Crash, Return
<1>2. CASE SwitchResponseLost
  <2>1. api' = SwitchedPolicy /\ SwitchedPolicy.override = api.override
    BY <1>2, WriteCurrent DEF SwitchResponseLost, SwitchedPolicy, TypeOK, Policy
  <2>2. api.override => overrun = 0
    BY <1>2 DEF SwitchResponseLost
  <2> QED BY <1>2, <2>1, <2>2 DEF SwitchResponseLost, Overruns
<1>3. CASE Deliver \/ CollectGarbage \/ \E t \in Trigger : CooldownOver(t)
  BY <1>3 DEF Deliver, CollectGarbage, CooldownOver
<1>4. ASSUME NEW kind, NEW new, Human(kind, new),
             kind = "override" \/ new.override = api.override
      PROVE  OverrunInv'
  <2>1. api' = new /\ UNCHANGED <<pc, pol>>
    BY <1>4, WriteCurrent DEF Human
  <2> QED BY <1>4, <2>1 DEF Human
<1>5. ASSUME NEW p \in AnyProfile, EditProfile(p) PROVE OverrunInv'
  BY <1>4, <1>5 DEF EditProfile, TypeOK, Policy
<1>6. ASSUME NEW fs \in FilterSets, EditFilters(fs) PROVE OverrunInv'
  BY <1>4, <1>6 DEF EditFilters, TypeOK, Policy
<1>7. CASE EditDryRun
  BY <1>4, <1>7 DEF EditDryRun, TypeOK, Policy
<1>8. CASE EditOverride
  BY <1>4, <1>8 DEF EditOverride, TypeOK, Policy
<1>9. CASE Delete
  BY <1>4, <1>9 DEF Delete, TypeOK, Policy
<1> QED BY <1>1, <1>2, <1>3, <1>5, <1>6, <1>7, <1>8, <1>9 DEF Failure, CallFails, World, HumanEdit

(* With a cache that is current, at most one automatic switch lands after  *)
(* a human sets the human-override annotation (controller.go:195).         *)
THEOREM OverrunsAtMostOnce == MaxLag = 0 /\ Spec => []OverrideOverrun
<1> SUFFICES ASSUME MaxLag = 0 PROVE Spec => []OverrideOverrun
  OBVIOUS
<1>1. Init => OverrunInv
  BY DEF Init, NewPolicy, EmptyStatus, OverrunInv, OverrideOverrun
<1>2. TypeOK /\ StatusInv /\ OverrunInv /\ [Next]_vars => OverrunInv'
  <2> SUFFICES ASSUME TypeOK, StatusInv, OverrunInv, [Next]_vars PROVE OverrunInv'
    OBVIOUS
  <2>1. CASE UNCHANGED vars
    BY <2>1 DEF vars, OverrunInv, OverrideOverrun
  <2> QED BY <2>1, StepKeepsOverrun, OthersKeepOverrun DEF Next, StatusInv
<1>3. OverrunInv => OverrideOverrun
  BY DEF OverrunInv
<1> QED BY <1>1, <1>2, <1>3, TypeCorrect, StatusInvHolds, PTL DEF Spec

-----------------------------------------------------------------------------
(* What the writes to the API server leave alone.                          *)

(* A switch writes the profile only. *)
LEMMA SwitchWrites ==
    ASSUME TypeOK, Switch \/ SwitchResponseLost
    PROVE  /\ api'.profile = decision.to
           /\ api'.filters = api.filters /\ api'.exists = api.exists /\ api'.status = api.status
<1>1. api' = SwitchedPolicy
  BY DEF Switch, SwitchResponseLost, Write
<1> QED BY <1>1 DEF SwitchedPolicy, TypeOK, Policy

(* A status patch leaves the spec alone. *)
LEMMA PatchWrites ==
    ASSUME TypeOK, NEW new, PatchStatus(new)
    PROVE  api'.exists = api.exists /\ api'.profile = api.profile /\ api'.filters = api.filters
<1>1. CASE ~api.exists
  BY <1>1 DEF PatchStatus, server
<1>2. CASE api.exists
  <2> DEFINE merged == [f \in DOMAIN new |-> IF new[f] = pol.status[f] THEN api.status[f]
                                                                       ELSE new[f]]
  <2>1. api' = [api EXCEPT !.status = merged]
    BY <1>2 DEF PatchStatus, Write
  <2> HIDE DEF merged
  <2> QED BY <2>1 DEF TypeOK, Policy
<1> QED BY <1>1, <1>2

(* With a cache that is current, updateStatus writes all of the status. *)
LEMMA UpdateStatusWrites ==
    ASSUME MaxLag = 0, TypeOK, StatusInv, UpdateStatus
    PROVE  /\ api'.exists = api.exists /\ api'.profile = api.profile /\ api'.filters = api.filters
           /\ api.exists => api'.status = NewStatus
<1>1. NewStatus \in Status
  BY RenderedTyped, RecordedHistoryTyped
     DEF NewStatus, RecordedDecision, Ready, TypeOK, Policy, Status, Conditions
<1>2. /\ api.exists => api' = [api EXCEPT !.status = NewStatus]
      /\ ~api.exists => api' = api
  BY <1>1, PatchInstalls DEF UpdateStatus
<1> HIDE DEF NewStatus
<1> QED BY <1>2 DEF TypeOK, Policy

(* With a cache that is current, markDegraded writes the conditions only.  *)
LEMMA MarkDegradedWrites ==
    ASSUME MaxLag = 0, TypeOK, StatusInv, MarkDegraded
    PROVE  /\ api'.exists = api.exists /\ api'.profile = api.profile /\ api'.filters = api.filters
           /\ api'.status.managed = api.status.managed
           /\ api'.status.history = api.status.history
           /\ api'.status.decision = api.status.decision
<1> DEFINE degraded == [pol.status EXCEPT !.conditions =
                          [ready |-> "False", degraded |-> "True", gen |-> pol.gen]]
<1>1. degraded \in Status
  BY DEF TypeOK, Policy, Status, Conditions
<1>2. PatchStatus(degraded) /\ pc # "idle"
  BY DEF MarkDegraded
<1>3. pol.status = api.status
  BY <1>2 DEF StatusInv, OneStatusWriter
<1>4. /\ degraded.managed = api.status.managed /\ degraded.history = api.status.history
      /\ degraded.decision = api.status.decision
  BY <1>3 DEF TypeOK, Policy, Status
<1> HIDE DEF degraded
<1>5. /\ api.exists => api' = [api EXCEPT !.status = degraded]
      /\ ~api.exists => api' = api
  BY <1>1, <1>2, PatchInstalls
<1>6. CASE api.exists
  <2>1. /\ api'.status = degraded
        /\ api'.exists = api.exists /\ api'.profile = api.profile /\ api'.filters = api.filters
    BY <1>5, <1>6 DEF TypeOK, Policy
  <2> QED BY <1>4, <2>1
<1>7. CASE ~api.exists
  BY <1>5, <1>7
<1> QED BY <1>6, <1>7

(* Humans do not write the status, and an edit of the profile or of the    *)
(* filters is known as one.                                                *)
LEMMA HumanEditWrites ==
    ASSUME TypeOK, HumanEdit
    PROVE  /\ UNCHANGED <<applied, current, locals, failed, made, missed>>
           /\ api.exists
           /\ api'.status = api.status
           /\ edited \subseteq edited'
           /\ api'.profile = api.profile \/ "profile" \in edited'
           /\ api'.filters = api.filters \/ "filters" \in edited'
<1>1. ASSUME NEW kind, NEW new, Human(kind, new), new.status = api.status,
             new.profile = api.profile \/ kind = "profile",
             new.filters = api.filters \/ kind = "filters"
      PROVE  /\ UNCHANGED <<applied, current, locals, failed, made, missed>>
             /\ api.exists
             /\ api'.status = api.status
             /\ edited \subseteq edited'
             /\ api'.profile = api.profile \/ "profile" \in edited'
             /\ api'.filters = api.filters \/ "filters" \in edited'
  <2>1. api' = new
    BY <1>1 DEF Human, Write
  <2> QED BY <1>1, <2>1 DEF Human
<1>2. CASE \E p \in AnyProfile : EditProfile(p)
  BY <1>1, <1>2 DEF EditProfile, TypeOK, Policy
<1>3. CASE \E fs \in FilterSets : EditFilters(fs)
  BY <1>1, <1>3 DEF EditFilters, TypeOK, Policy
<1>4. CASE EditDryRun
  BY <1>1, <1>4 DEF EditDryRun, TypeOK, Policy
<1>5. CASE EditOverride
  BY <1>1, <1>5 DEF EditOverride, TypeOK, Policy
<1>6. CASE Delete
  BY <1>1, <1>6 DEF Delete, TypeOK, Policy
<1> QED BY <1>2, <1>3, <1>4, <1>5, <1>6 DEF HumanEdit

-----------------------------------------------------------------------------
(* Every mesh resource in the cluster is one the status lists. *)

PresentIn(rs) == \A r \in Resource : applied[r].present => r \in rs

(* What may be in the cluster at each step of a Reconcile: what the status *)
(* lists, and from the apply on what it has rendered. After the prune it   *)
(* is only that, which is what the status is about to list.                *)
TrackedInv ==
    api.exists /\ failed \cap {"apply", "delete", "status", "crash"} = {} =>
        /\ pc \in {"idle", "evaluate", "switch", "reget", "apply", "degraded"}
              => PresentIn(api.status.managed)
        /\ pc = "prune" => PresentIn(api.status.managed \cup Rendered(pol))
        /\ pc \in {"push", "status"} => PresentIn(Rendered(pol))

(* A step that only moves on. *)
LEMMA QuietKeepsTracked ==
    ASSUME TrackedInv, api.exists, api'.status.managed = api.status.managed,
           applied' = applied, failed \subseteq failed',
           \/ pc' = pc /\ pol' = pol
           \/ /\ pc \in {"idle", "evaluate", "switch", "reget", "apply", "degraded"}
              /\ pc' \in {"idle", "evaluate", "switch", "reget", "apply", "degraded", "prune"}
           \/ /\ pc \in {"push", "status"} /\ pc' \in {"push", "status"} /\ pol' = pol
    PROVE  TrackedInv'
BY DEF TrackedInv, PresentIn, Rendered

(* Each step of Reconcile that succeeds. *)
LEMMA StepKeepsTracked ==
    ASSUME MaxLag = 0, TypeOK, StatusInv, TrackedInv, Step
    PROVE  TrackedInv'
<1> USE DEF server, locals, memory, human, Goto
<1>0. applied \in [Resource -> ContentSet]
  BY DEF TypeOK
<1>1. CASE FetchDeleted \/ (~api.exists /\ SwitchFails)
  BY <1>1 DEF FetchDeleted, SwitchFails, StatusInv, CacheCurrent, TrackedInv
<1>2. CASE Fetch \/ SkipEvaluate \/ Reget \/ \E met \in Observations : Evaluate(met)
  <2>1. /\ UNCHANGED <<api, applied, failed>>
        /\ pc \in {"idle", "evaluate", "reget"}
        /\ pc' \in {"idle", "evaluate", "switch", "apply", "degraded", "prune"}
    BY <1>2 DEF Fetch, SkipEvaluate, Reget, Return, Evaluate
  <2>2. CASE api.exists
    BY <2>1, <2>2, QuietKeepsTracked
  <2>3. CASE ~api.exists
    BY <2>1, <2>3 DEF TrackedInv
  <2> QED BY <2>2, <2>3
<1>3. CASE Switch
  <2>1. api'.status = api.status /\ api.exists
    BY <1>3, SwitchWrites DEF StatusInv, Switch
  <2>2. UNCHANGED <<applied, failed>> /\ pc = "switch" /\ pc' = "reget"
    BY <1>3 DEF Switch
  <2> QED BY <2>1, <2>2, QuietKeepsTracked
<1>4. CASE Apply
  <2>1. UNCHANGED <<api, failed, pol>> /\ pc = "apply" /\ pc' = "prune"
    BY <1>4 DEF Apply
  <2>2. \A r \in Resource : applied'[r].present => applied[r].present \/ r \in Rendered(pol)
    BY <1>0, <1>4 DEF Apply, ApplyTo
  <2> QED BY <2>1, <2>2 DEF TrackedInv, PresentIn, Rendered
<1>5. CASE Prune
  <2>1. UNCHANGED <<api, failed, pol>> /\ pc = "prune" /\ pc' \in {"push", "status"}
    BY <1>5 DEF Prune, AfterPrune
  <2>2. \A r \in Resource : applied'[r].present => applied[r].present /\ r \notin Orphans
    BY <1>0, <1>5 DEF Prune, DeleteFrom, Absent
  <2>3. pol.status = api.status
    BY <2>1 DEF StatusInv, OneStatusWriter
  <2>4. \A r \in Resource : r \notin Orphans /\ r \in api.status.managed => r \in Rendered(pol)
    BY <2>3 DEF Orphans
  <2> QED BY <2>1, <2>2, <2>4 DEF TrackedInv, PresentIn, Rendered
<1>6. ASSUME NEW l \in Runtime, PushLayer(l) PROVE TrackedInv'
  <2>1. UNCHANGED <<api, applied, failed, pol>> /\ pc = "push" /\ pc' \in {"push", "status"}
    BY <1>6 DEF PushLayer
  <2>2. CASE api.exists
    BY <2>1, <2>2, QuietKeepsTracked
  <2>3. CASE ~api.exists
    BY <2>1, <2>3 DEF TrackedInv
  <2> QED BY <2>2, <2>3
<1>7. CASE UpdateStatus
  <2>1. UNCHANGED <<applied, failed>> /\ pc = "status" /\ pc' = "idle"
    BY <1>7 DEF UpdateStatus, Return
  <2>2. api'.exists = api.exists /\ (api.exists => api'.status = NewStatus)
    BY <1>7, UpdateStatusWrites
  <2>3. NewStatus.managed = Rendered(pol)
    BY DEF NewStatus
  <2>4. api'.exists => api'.status.managed = Rendered(pol)
    BY <2>2, <2>3
  <2> QED BY <2>1, <2>2, <2>4 DEF TrackedInv, PresentIn
<1>8. CASE MarkDegraded
  <2>1. UNCHANGED <<applied, failed>> /\ pc = "degraded" /\ pc' = "idle"
    BY <1>8 DEF MarkDegraded, Return
  <2>2. api'.exists = api.exists /\ api'.status.managed = api.status.managed
    BY <1>8, MarkDegradedWrites
  <2> QED BY <2>1, <2>2 DEF TrackedInv, PresentIn
<1> QED BY <1>1, <1>2, <1>3, <1>4, <1>5, <1>6, <1>7, <1>8 DEF Step

(* Each failure and each step outside Reconcile. *)
LEMMA OthersKeepTracked ==
    ASSUME MaxLag = 0, TypeOK, StatusInv, TrackedInv, Failure \/ World
    PROVE  TrackedInv'
<1> USE DEF server, locals, memory, human, Goto
<1>1. CASE ApplyFails \/ PruneFails \/ UpdateStatusFails \/ Crash
  BY <1>1 DEF ApplyFails, PruneFails, UpdateStatusFails, Crash, Fails, TrackedInv
<1>2. CASE FetchDetectFails \/ SwitchFails \/ \E t \in Trigger : CooldownOver(t)
  <2>1. /\ UNCHANGED <<api, applied>> /\ failed \subseteq failed'
        /\ \/ pc' = pc /\ pol' = pol
           \/ pc \in {"idle", "switch"} /\ pc' \in {"apply", "degraded"}
    BY <1>2 DEF FetchDetectFails, SwitchFails, CooldownOver, Fails
  <2>2. CASE api.exists
    BY <2>1, <2>2, QuietKeepsTracked
  <2>3. CASE ~api.exists
    BY <2>1, <2>3 DEF TrackedInv
  <2> QED BY <2>2, <2>3
<1>3. CASE SwitchResponseLost
  <2>1. api'.status = api.status /\ api.exists
    BY <1>3, SwitchWrites DEF StatusInv, SwitchResponseLost
  <2>2. applied' = applied /\ failed \subseteq failed' /\ pc = "switch" /\ pc' = "apply"
    BY <1>3 DEF SwitchResponseLost, Fails
  <2> QED BY <2>1, <2>2, QuietKeepsTracked
<1>4. CASE Deliver
  BY <1>4 DEF Deliver, StatusInv, CacheCurrent
<1>5. CASE CollectGarbage
  BY <1>5 DEF CollectGarbage, TrackedInv
<1>6. CASE HumanEdit
  <2>1. /\ UNCHANGED <<applied, pc, pol, failed>>
        /\ api.exists /\ api'.status = api.status
    BY <1>6, HumanEditWrites DEF StatusInv
  <2> QED BY <2>1, QuietKeepsTracked
<1> QED BY <1>1, <1>2, <1>3, <1>4, <1>5, <1>6 DEF Failure, CallFails, World

(* With a cache that is current, no mesh resource escapes the list that    *)
(* prune and humans go by, whatever is edited between two steps, as long   *)
(* as no call fails between the apply and the status patch                 *)
(* (controller.go:246-249, 286).                                           *)
THEOREM ResourcesAreTracked == MaxLag = 0 /\ Spec => []ResourcesTracked
<1> SUFFICES ASSUME MaxLag = 0 PROVE Spec => []ResourcesTracked
  OBVIOUS
<1>1. Init => TrackedInv
  BY DEF Init, TrackedInv, PresentIn, Absent
<1>2. TypeOK /\ StatusInv /\ TrackedInv /\ [Next]_vars => TrackedInv'
  <2> SUFFICES ASSUME TypeOK, StatusInv, TrackedInv, [Next]_vars PROVE TrackedInv'
    OBVIOUS
  <2>1. CASE UNCHANGED vars
    BY <2>1 DEF vars, TrackedInv, PresentIn, Rendered
  <2> QED BY <2>1, StepKeepsTracked, OthersKeepTracked DEF Next
<1>3. TrackedInv => ResourcesTracked
  BY DEF TrackedInv, ResourcesTracked, PresentIn
<1> QED BY <1>1, <1>2, <1>3, TypeCorrect, StatusInvHolds, PTL DEF Spec

-----------------------------------------------------------------------------
(* What an Envoy that connects is given is the active profile. *)

Untouched == edited \cap {"profile", "filters"} = {} /\ "response" \notin failed

(* However far the cache is behind: if filters and profile are not edited, *)
(* it and the events on their way to it show the filters of the object on  *)
(* the server, and its profile as long as no switch was made.              *)
Shares(p) == p.exists /\ p.filters = api.filters /\ (made = <<>> => p.profile = api.profile)

Heard == Shares(cache) /\ \A i \in 1..Len(watch) : Shares(watch[i])

HeardInv == api.exists /\ Untouched => Heard

(* A layer the RTDS server holds is one of the policy's filters, so that a *)
(* switch pushes it; until the push it may show the profile before, and    *)
(* the Reconcile that switched ends only when no layer is left to push.    *)
(* Which profile it shows is known if the re-read saw the switch.          *)
LayerInv(l) ==
    current[l].present =>
        /\ RtdsOn /\ l \in api.filters
        /\ ~missed /\ (~switched \/ pc = "status" \/ (pc = "push" /\ l \notin unsent))
              => current[l].profile = api.profile

RuntimeInv ==
    api.exists /\ Untouched =>
        /\ switched => pc \in {"reget", "prune", "push", "status"}
        /\ pc = "reget" => switched
        /\ switched /\ pc # "reget" => /\ pol.filters = api.filters
                                       /\ ~missed => pol.profile = api.profile
        /\ pc = "push" => switched /\ RtdsOn /\ unsent \subseteq RTDSLayers(pol)
        /\ \A l \in Runtime : LayerInv(l)

(* What can become of the object on the server, of the cache and of the    *)
(* events between them.                                                    *)
LEMMA ObjectSteps ==
    ASSUME TypeOK, Next
    PROVE  UNCHANGED server \/ Write(api') \/ Deliver \/ (cache' = api' /\ watch' = <<>>)
<1>1. ASSUME NEW new, Write(new) PROVE Write(api')
  BY <1>1 DEF Write
<1>2. ASSUME NEW new, PatchStatus(new) PROVE UNCHANGED server \/ Write(api')
  BY <1>1, <1>2 DEF PatchStatus
<1>3. ASSUME Step PROVE UNCHANGED server \/ Write(api')
  BY <1>1, <1>2, <1>3 DEF Step, FetchDeleted, Fetch, SkipEvaluate, Evaluate, Switch, Reget, Apply,
     Prune, PushLayer, UpdateStatus, MarkDegraded, SwitchFails
<1>4. ASSUME Failure PROVE UNCHANGED server \/ Write(api') \/ (cache' = api' /\ watch' = <<>>)
  BY <1>1, <1>4 DEF Failure, CallFails, FetchDetectFails, SwitchFails, SwitchResponseLost,
     ApplyFails, PruneFails, UpdateStatusFails, Crash
<1>5. ASSUME HumanEdit PROVE Write(api')
  BY <1>1, <1>5 DEF HumanEdit, EditProfile, EditFilters, EditDryRun, EditOverride, Delete, Human
<1>6. ASSUME World PROVE UNCHANGED server \/ Write(api') \/ Deliver
  BY <1>5, <1>6 DEF World, CooldownOver, CollectGarbage
<1> QED BY <1>3, <1>4, <1>6 DEF Next

(* A deleted policy does not come back, without an edit of the filters     *)
(* they stay, and so does the profile as long as no switch is made.        *)
LEMMA SpecStays ==
    ASSUME TypeOK, Next, api'.exists, Untouched'
    PROVE  /\ api.exists /\ Untouched /\ api'.filters = api.filters
           /\ made' = <<>> => made = <<>> /\ api'.profile = api.profile
<1> USE DEF server, locals, memory, human
<1>0. made \in Seq(Decision) /\ decision \in Decision
  BY DEF TypeOK
<1>1. CASE Switch
  <2>1. api'.exists = api.exists /\ api'.filters = api.filters
    BY <1>1, SwitchWrites
  <2>2. UNCHANGED <<edited, failed>> /\ made' # <<>>
    BY <1>0, <1>1 DEF Switch
  <2> QED BY <2>1, <2>2 DEF Untouched
<1>2. CASE Step /\ ~Switch
  <2>1. UNCHANGED <<edited, failed, made>>
    BY <1>2 DEF Step, FetchDeleted, Fetch, SkipEvaluate, Evaluate, Reget, Apply, Prune,
       PushLayer, UpdateStatus, MarkDegraded, SwitchFails
  <2>2. api'.exists = api.exists /\ api'.profile = api.profile /\ api'.filters = api.filters
    BY <1>2, PatchWrites DEF Step, FetchDeleted, Fetch, SkipEvaluate, Evaluate,
       Reget, Apply, Prune, PushLayer, UpdateStatus, MarkDegraded, SwitchFails
  <2> QED BY <2>1, <2>2 DEF Untouched
<1>3. CASE SwitchResponseLost
  BY <1>3 DEF SwitchResponseLost, Fails, Untouched
<1>4. CASE Failure /\ ~SwitchResponseLost
  <2>1. UNCHANGED <<api, edited, made>> /\ failed \subseteq failed'
    BY <1>4 DEF Failure, CallFails, FetchDetectFails, SwitchFails, ApplyFails, PruneFails,
       UpdateStatusFails, Crash, Fails
  <2> QED BY <2>1 DEF Untouched
<1>5. CASE HumanEdit
  BY <1>5, HumanEditWrites DEF Untouched
<1>6. CASE Deliver \/ CollectGarbage \/ \E t \in Trigger : CooldownOver(t)
  <2>1. UNCHANGED <<api, edited, failed, made>>
    BY <1>6 DEF Deliver, CollectGarbage, CooldownOver
  <2> QED BY <2>1 DEF Untouched
<1> QED BY <1>1, <1>2, <1>3, <1>4, <1>5, <1>6 DEF Next, World

(* Each step. *)
LEMMA NextKeepsHeard ==
    ASSUME TypeOK, TypeOK', HeardInv, Next
    PROVE  HeardInv'
<1> SUFFICES ASSUME api'.exists, Untouched' PROVE Heard'
  BY DEF HeardInv
<1>1. /\ api'.filters = api.filters /\ Heard
      /\ made' = <<>> => made = <<>> /\ api'.profile = api.profile
  BY SpecStays DEF HeardInv
<1>2. watch \in Seq(Policy) /\ api' \in Policy
  BY DEF TypeOK
<1>3. CASE UNCHANGED server
  BY <1>1, <1>3 DEF server, Heard, Shares
<1>4. CASE Write(api')
  <2>1. CASE cache' = api' /\ watch' = watch
    BY <1>1, <2>1 DEF Heard, Shares
  <2>2. CASE cache' = cache /\ watch' = watch
    BY <1>1, <2>2 DEF Heard, Shares
  <2>3. CASE cache' = cache /\ watch' = Append(watch, api')
    <3>1. ASSUME NEW i \in 1..Len(watch') PROVE Shares(watch[i])'
      <4>1. /\ Len(watch) \in Nat /\ Len(watch') = Len(watch) + 1
            /\ \A k \in 1..Len(watch) : watch'[k] = watch[k]
            /\ watch'[Len(watch) + 1] = api'
        BY <1>2, <2>3, AppendProperties, LenProperties
      <4>2. i \in 1..Len(watch) \/ i = Len(watch) + 1
        BY <4>1
      <4> QED BY <1>1, <4>1, <4>2 DEF Heard, Shares
    <3> QED BY <1>1, <2>3, <3>1 DEF Heard, Shares
  <2> QED BY <1>4, <2>1, <2>2, <2>3 DEF Write
<1>5. CASE Deliver
  <2>1. /\ Len(watch) \in Nat \ {0} /\ cache' = watch[1] /\ Len(watch') = Len(watch) - 1
        /\ \A i \in 1..Len(watch') : watch'[i] = watch[i + 1]
    BY <1>2, <1>5, HeadTailProperties, LenProperties, EmptySeq DEF Deliver
  <2>2. \A i \in 1..Len(watch') : i + 1 \in 1..Len(watch)
    BY <2>1
  <2> QED BY <1>1, <2>1, <2>2 DEF Heard, Shares
<1>6. CASE cache' = api' /\ watch' = <<>>
  BY <1>6 DEF Heard, Shares
<1> QED BY <1>3, <1>4, <1>5, <1>6, ObjectSteps

(* A step that pushes nothing and is outside a Reconcile that switched. *)
LEMMA QuietKeepsRuntime ==
    ASSUME RuntimeInv, api'.exists => api.exists, Untouched' => Untouched,
           api'.exists /\ Untouched' =>
                /\ api'.profile = api.profile /\ api'.filters = api.filters
                /\ UNCHANGED <<current, missed>>
                /\ \/ UNCHANGED <<pc, pol, switched, unsent>>
                   \/ /\ pc \notin {"reget", "prune", "push", "status"}
                      /\ pc' \notin {"reget", "push"} /\ switched' = switched
                   \/ switched' = FALSE /\ pc = "status" /\ pc' = "idle"
    PROVE  RuntimeInv'
BY DEF RuntimeInv, LayerInv, RTDSLayers

(* Each step of Reconcile that succeeds. *)
LEMMA StepKeepsRuntime ==
    ASSUME TypeOK, HeardInv, RuntimeInv, Step
    PROVE  RuntimeInv'
<1> USE DEF server, locals, memory, human, Goto
<1>0. current \in [Runtime -> ContentSet]
  BY DEF TypeOK
<1>1. CASE \/ FetchDeleted \/ Fetch \/ SkipEvaluate \/ Apply \/ (~api.exists /\ SwitchFails)
           \/ \E met \in Observations : Evaluate(met)
  <2>1. /\ UNCHANGED <<api, current, edited, failed, switched, missed>>
        /\ \/ UNCHANGED <<pc, pol, unsent>>
           \/ pc \notin {"reget", "prune", "push", "status"}
        /\ UNCHANGED pc \/ pc' \notin {"reget", "push"}
    BY <1>1 DEF FetchDeleted, Fetch, SkipEvaluate, Apply, SwitchFails, Evaluate
  <2>2. CASE pc \in {"reget", "push"}
    BY <2>1, <2>2, QuietKeepsRuntime DEF Untouched
  <2>3. CASE pc \notin {"reget", "push"}
    BY <2>1, <2>3, QuietKeepsRuntime DEF Untouched
  <2> QED BY <2>2, <2>3
<1>2. CASE Switch
  <2>1. api'.filters = api.filters /\ api'.exists = api.exists
    BY <1>2, SwitchWrites
  <2>2. /\ UNCHANGED <<current, edited, failed, unsent>>
        /\ pc = "switch" /\ pc' = "reget" /\ switched'
    BY <1>2 DEF Switch
  <2> QED BY <2>1, <2>2 DEF RuntimeInv, LayerInv, Untouched
<1>3. CASE Reget
  <2>1. UNCHANGED <<api, current, edited, failed>> /\ pc = "reget"
    BY <1>3 DEF Reget
  <2>2. CASE ~(api.exists /\ Untouched)
    BY <2>1, <2>2 DEF RuntimeInv, Untouched
  <2>3. CASE api.exists /\ Untouched
    <3>1. cache.exists /\ cache.filters = api.filters
      BY <2>3 DEF HeardInv, Heard, Shares
    <3>2. /\ pol' = cache /\ pc' = "prune" /\ UNCHANGED <<switched, unsent>>
          /\ missed' = (cache.profile # api.profile)
      BY <1>3, <3>1 DEF Reget
    <3>3. switched /\ \A l \in Runtime : LayerInv(l)
      BY <2>1, <2>3 DEF RuntimeInv
    <3> QED BY <2>1, <3>1, <3>2, <3>3 DEF RuntimeInv, LayerInv
  <2> QED BY <2>2, <2>3
<1>4. CASE Prune
  <2>1. /\ UNCHANGED <<api, current, edited, failed, pol, switched, missed>>
        /\ pc = "prune" /\ unsent' = ToPush
        /\ pc' = IF ToPush = {} THEN "status" ELSE "push"
    BY <1>4 DEF Prune, AfterPrune
  <2> QED BY <2>1 DEF RuntimeInv, LayerInv, Untouched, ToPush, RTDSLayers
<1>5. ASSUME NEW l \in Runtime, PushLayer(l) PROVE RuntimeInv'
  <2>1. /\ UNCHANGED <<api, edited, failed, pol, switched, missed>>
        /\ pc = "push" /\ l \in unsent /\ unsent' = unsent \ {l}
        /\ pc' = IF unsent = {l} THEN "status" ELSE "push"
    BY <1>5 DEF PushLayer
  <2>2. /\ current'[l].profile = pol.profile
        /\ \A k \in Runtime \ {l} : current'[k] = current[k]
    BY <1>0, <1>5 DEF PushLayer, Recorded, Content
  <2> SUFFICES ASSUME api.exists, Untouched PROVE RuntimeInv'
    BY <2>1 DEF RuntimeInv, Untouched
  <2>3. /\ switched /\ RtdsOn /\ unsent \subseteq RTDSLayers(pol)
        /\ pol.filters = api.filters /\ (~missed => pol.profile = api.profile)
        /\ \A k \in Runtime : LayerInv(k)
    BY <2>1 DEF RuntimeInv
  <2>4. LayerInv(l)'
    BY <2>1, <2>2, <2>3 DEF LayerInv, RTDSLayers
  <2>5. ASSUME NEW k \in Runtime \ {l} PROVE LayerInv(k)'
    BY <2>1, <2>2, <2>3, <2>5 DEF LayerInv
  <2> QED BY <2>1, <2>3, <2>4, <2>5 DEF RuntimeInv, RTDSLayers
<1>6. CASE UpdateStatus
  <2>1. api'.exists = api.exists /\ api'.profile = api.profile /\ api'.filters = api.filters
    BY <1>6, PatchWrites DEF UpdateStatus
  <2>2. /\ UNCHANGED <<current, edited, failed, missed>>
        /\ pc = "status" /\ pc' = "idle" /\ switched' = FALSE
    BY <1>6 DEF UpdateStatus, Return
  <2> QED BY <2>1, <2>2, QuietKeepsRuntime DEF Untouched
<1>7. CASE MarkDegraded
  <2>1. api'.exists = api.exists /\ api'.profile = api.profile /\ api'.filters = api.filters
    BY <1>7, PatchWrites DEF MarkDegraded
  <2>2. /\ UNCHANGED <<current, edited, failed, missed>>
        /\ pc = "degraded" /\ pc' = "idle" /\ switched' = FALSE
    BY <1>7 DEF MarkDegraded, Return
  <2> QED BY <2>1, <2>2 DEF RuntimeInv, LayerInv, Untouched
<1> QED BY <1>1, <1>2, <1>3, <1>4, <1>5, <1>6, <1>7 DEF Step

(* Each failure and each step outside Reconcile. *)
LEMMA OthersKeepRuntime ==
    ASSUME TypeOK, RuntimeInv, Failure \/ World
    PROVE  RuntimeInv'
<1> USE DEF server, locals, memory, human, Goto
<1>1. CASE FetchDetectFails \/ SwitchFails \/ ApplyFails
  <2>1. /\ UNCHANGED <<api, current, edited, switched, missed>> /\ failed \subseteq failed'
        /\ pc \in {"idle", "switch", "apply"} /\ pc' \in {"degraded", "apply"}
    BY <1>1 DEF FetchDetectFails, SwitchFails, ApplyFails, Fails
  <2> QED BY <2>1, QuietKeepsRuntime DEF Untouched
<1>2. CASE SwitchResponseLost
  BY <1>2 DEF SwitchResponseLost, Fails, RuntimeInv, Untouched
<1>3. CASE PruneFails
  <2>1. /\ UNCHANGED <<api, current, edited, pol, switched, missed>> /\ failed \subseteq failed'
        /\ pc = "prune" /\ unsent' = ToPush
        /\ pc' = IF ToPush = {} THEN "status" ELSE "push"
    BY <1>3 DEF PruneFails, AfterPrune, Fails
  <2> QED BY <2>1 DEF RuntimeInv, LayerInv, Untouched, ToPush, RTDSLayers
<1>4. CASE UpdateStatusFails
  <2>1. /\ UNCHANGED <<api, current, edited, missed>> /\ failed \subseteq failed'
        /\ pc \in {"status", "degraded"} /\ pc' = "idle" /\ switched' = FALSE
    BY <1>4 DEF UpdateStatusFails, Return, Fails
  <2> QED BY <2>1 DEF RuntimeInv, LayerInv, Untouched
<1>5. CASE Crash
  <2>1. \A l \in Runtime : ~current'[l].present
    BY <1>5 DEF Crash, Absent
  <2>2. switched' = FALSE /\ pc' = "idle"
    BY <1>5 DEF Crash, Return
  <2> QED BY <2>1, <2>2 DEF RuntimeInv, LayerInv
<1>6. CASE Deliver \/ CollectGarbage \/ \E t \in Trigger : CooldownOver(t)
  <2>1. UNCHANGED <<api, current, edited, failed, pc, pol, switched, unsent, missed>>
    BY <1>6 DEF Deliver, CollectGarbage, CooldownOver
  <2> QED BY <2>1, QuietKeepsRuntime DEF Untouched
<1>7. CASE HumanEdit
  <2>1. /\ UNCHANGED <<current, pc, pol, switched, unsent, failed, missed>>
        /\ api.exists /\ edited \subseteq edited'
        /\ api'.profile = api.profile \/ "profile" \in edited'
        /\ api'.filters = api.filters \/ "filters" \in edited'
    BY <1>7, HumanEditWrites
  <2>2. Untouched' => Untouched /\ api'.profile = api.profile /\ api'.filters = api.filters
    BY <2>1 DEF Untouched
  <2> QED BY <2>1, <2>2, QuietKeepsRuntime
<1> QED BY <1>1, <1>2, <1>3, <1>4, <1>5, <1>6, <1>7 DEF Failure, CallFails, World

(* The invariants hold in every state. *)
LEMMA RuntimeInvHolds == Spec => [](HeardInv /\ RuntimeInv)
<1>1. Init => HeardInv /\ RuntimeInv
  <2> SUFFICES ASSUME Init PROVE HeardInv /\ RuntimeInv
    OBVIOUS
  <2>1. HeardInv
    BY DEF Init, HeardInv, Heard, Shares, NewPolicy
  <2>2. RuntimeInv
    BY DEF Init, RuntimeInv, LayerInv, Absent
  <2> QED BY <2>1, <2>2
<1>2. TypeOK /\ HeardInv /\ RuntimeInv /\ [Next]_vars => (HeardInv /\ RuntimeInv)'
  <2> SUFFICES ASSUME TypeOK, HeardInv, RuntimeInv, [Next]_vars PROVE HeardInv' /\ RuntimeInv'
    OBVIOUS
  <2>1. CASE UNCHANGED vars
    <3>1. RuntimeInv'
      BY <2>1, QuietKeepsRuntime DEF vars, Untouched
    <3> QED BY <2>1, <3>1 DEF vars, HeardInv, Heard, Shares, Untouched
  <2>2. CASE Next
    <3>1. TypeOK'
      BY <2>2, NextTyped
    <3> QED BY <2>2, <3>1, NextKeepsHeard, StepKeepsRuntime, OthersKeepRuntime DEF Next
  <2> QED BY <2>1, <2>2
<1> QED BY <1>1, <1>2, TypeCorrect, PTL DEF Spec

(* Once a Reconcile that switched is over, the RTDS server holds no layer  *)
(* with another profile than the active one, however far the cache lags,   *)
(* if the re-read after the latest switch saw it; whatever calls failed (a *)
(* lost response of a switch apart) and whatever restarts came between     *)
(* (controller.go:203-213, 259-274).                                       *)
THEOREM RuntimeShowsProfile == Spec => []RuntimeFollowsProfile
<1>1. RuntimeInv => RuntimeFollowsProfile
  BY DEF RuntimeInv, LayerInv, RuntimeFollowsProfile, Untouched
<1> QED BY <1>1, RuntimeInvHolds, PTL

-----------------------------------------------------------------------------
(* Every switch is on record. *)

Latest(m) == IF Len(m) < HistoryMax THEN Len(m) ELSE HistoryMax

(* The status st is a record of the switches m. *)
Records(st, m) ==
    /\ st.history = [i \in 1..Latest(m) |-> m[Len(m) + 1 - i]]
    /\ st.decision = IF m = <<>> THEN NoDecision ELSE m[Len(m)]

(* One decision put before others. *)
LEMMA PrependProperties ==
    ASSUME NEW d \in Decision, NEW h \in Seq(Decision)
    PROVE  /\ <<d>> \o h \in Seq(Decision)
           /\ Len(<<d>> \o h) = 1 + Len(h)
           /\ (<<d>> \o h)[1] = d
           /\ \A i \in 2..(1 + Len(h)) : (<<d>> \o h)[i] = h[i - 1]
<1> DEFINE one == <<d>>
<1>1. one \in Seq(Decision) /\ Len(one) = 1 /\ one[1] = d
  OBVIOUS
<1>2. Len(h) \in Nat
  BY LenProperties
<1> HIDE DEF one
<1>3. /\ one \o h \in Seq(Decision)
      /\ Len(one \o h) = Len(one) + Len(h)
      /\ \A i \in 1..Len(one) + Len(h) :
            (one \o h)[i] = IF i <= Len(one) THEN one[i] ELSE h[i - Len(one)]
  BY <1>1, ConcatProperties, Zenon
<1> DEFINE all == one \o h
<1> HIDE DEF all
<1>4. /\ all \in Seq(Decision)
      /\ Len(all) = 1 + Len(h)
      /\ all[1] = d
      /\ \A i \in 2..(1 + Len(h)) : all[i] = h[i - 1]
  BY <1>1, <1>2, <1>3 DEF all
<1> QED BY <1>4 DEF one, all

(* Putting a decision before the history and cutting it to its limit gives *)
(* the latest decisions, newest first: none lost below the limit, none     *)
(* twice, the oldest dropped at it.                                        *)
LEMMA HistoryPrepends ==
    ASSUME NEW m \in Seq(Decision), NEW d \in Decision, NEW h \in Seq(Decision),
           h = [i \in 1..Latest(m) |-> m[Len(m) + 1 - i]]
    PROVE  LET all  == <<d>> \o h
               kept == IF Len(all) > HistoryMax THEN HistoryMax ELSE Len(all)
               n    == Append(m, d)
           IN  SubSeq(all, 1, kept) = [i \in 1..Latest(n) |-> n[Len(n) + 1 - i]]
<1> DEFINE all  == <<d>> \o h
           kept == IF Len(all) > HistoryMax THEN HistoryMax ELSE Len(all)
           n    == Append(m, d)
           cut  == SubSeq(all, 1, kept)
           recs == [i \in 1..Latest(n) |-> n[Len(n) + 1 - i]]
<1>1. Len(m) \in Nat /\ HistoryMax \in Nat /\ HistoryMax >= 1
  BY LenProperties, ReconcilerAssumption
<1>2. /\ Len(n) = Len(m) + 1 /\ n[Len(m) + 1] = d
      /\ \A i \in 1..Len(m) : n[i] = m[i]
  BY AppendProperties
<1>3. Latest(m) \in Nat /\ Latest(m) <= Len(m) /\ Latest(m) <= HistoryMax
  BY <1>1 DEF Latest
<1>4. Len(h) = Latest(m)
  <2>1. Len(h) \in Nat /\ DOMAIN h = 1..Len(h)
    BY LenProperties
  <2>2. DOMAIN h = 1..Latest(m)
    OBVIOUS
  <2>3. \A x, y \in Nat : 1..x = 1..y => x = y
    <3> SUFFICES ASSUME NEW x \in Nat, NEW y \in Nat, x < y PROVE 1..x # 1..y
      OBVIOUS
    <3>1. y \in 1..y /\ y \notin 1..x
      OBVIOUS
    <3> QED BY <3>1
  <2> QED BY <1>3, <2>1, <2>2, <2>3
<1>5. /\ all \in Seq(Decision) /\ Len(all) = 1 + Latest(m)
      /\ all[1] = d
      /\ \A i \in 2..(1 + Latest(m)) : all[i] = h[i - 1]
  <2>1. /\ all \in Seq(Decision) /\ Len(all) = 1 + Len(h) /\ all[1] = d
        /\ \A i \in 2..(1 + Len(h)) : all[i] = h[i - 1]
    BY PrependProperties, Zenon
  <2> HIDE DEF all
  <2> QED BY <1>4, <2>1
<1>6. kept = Latest(n) /\ kept \in 1..Len(all)
  <2> HIDE DEF all, n
  <2> QED BY <1>1, <1>2, <1>3, <1>5 DEF Latest
<1>7. cut \in Seq(Decision) /\ Len(cut) = kept /\ \A i \in 1..kept : cut[i] = all[i]
  <2> HIDE DEF all, kept
  <2>1. 1 \in 1..(Len(all) + 1) /\ kept \in 0..Len(all)
    BY <1>5, <1>6, <1>3
  <2> QED BY <1>5, <1>6, <2>1, SubSeqProperties
<1>8. ASSUME NEW i \in 1..kept PROVE all[i] = n[Len(n) + 1 - i]
  <2> HIDE DEF all, kept, n
  <2>0. i \in Nat /\ i >= 1 /\ i <= 1 + Latest(m)
    BY <1>3, <1>5, <1>6
  <2>1. CASE i = 1
    BY <1>1, <1>2, <1>5, <2>1
  <2>2. CASE i # 1
    <3>1. i - 1 \in 1..Latest(m) /\ all[i] = h[i - 1]
      BY <1>3, <1>5, <2>0, <2>2
    <3>2. h[i - 1] = m[Len(m) + 1 - (i - 1)]
      BY <3>1
    <3>3. Len(m) + 1 - (i - 1) = Len(n) + 1 - i /\ Len(n) + 1 - i \in 1..Len(m)
      BY <1>1, <1>2, <1>3, <3>1
    <3> QED BY <1>2, <3>1, <3>2, <3>3
  <2> QED BY <2>1, <2>2
<1>9. cut = [i \in 1..kept |-> cut[i]]
  <2> HIDE DEF cut, kept
  <2>1. cut \in [1..Len(cut) -> Decision]
    BY <1>7, LenProperties
  <2> QED BY <1>7, <2>1
<1> HIDE DEF all, kept, n, cut
<1>10. cut = recs
  BY <1>6, <1>7, <1>8, <1>9
<1> QED BY <1>10 DEF cut, recs, all, kept, n

(* updateStatus after a switch turns a record of the switches before it    *)
(* into a record of all of them.                                           *)
LEMMA StatusRecords ==
    ASSUME TypeOK, decision.trigger # 0, NEW m \in Seq(Decision), Records(pol.status, m)
    PROVE  Records(NewStatus, Append(m, decision))
<1>1. pol.status.history \in Seq(Decision) /\ decision \in Decision
  BY DEF TypeOK, Policy, Status
<1>2. RecordedHistory = [i \in 1..Latest(Append(m, decision)) |->
                            Append(m, decision)[Len(Append(m, decision)) + 1 - i]]
  <2>1. pol.status.history = [i \in 1..Latest(m) |-> m[Len(m) + 1 - i]]
    BY DEF Records
  <2> QED BY <1>1, <2>1, HistoryPrepends, Zenon DEF RecordedHistory
<1>3. /\ Append(m, decision) # <<>>
      /\ Append(m, decision)[Len(Append(m, decision))] = decision
  BY <1>1, AppendProperties
<1>4. NewStatus.history = RecordedHistory /\ NewStatus.decision = decision
  BY DEF NewStatus, RecordedDecision
<1> HIDE DEF NewStatus
<1> QED BY <1>2, <1>3, <1>4 DEF Records

(* The switches made, but for the one whose Reconcile has still to write   *)
(* its status, are on record.                                              *)
RecordInv ==
    api.exists /\ failed \cap {"patch", "apply", "status", "crash"} = {} =>
        /\ pc \in {"idle", "evaluate", "degraded"} => decision.trigger = 0
        /\ pc = "switch" => decision.trigger # 0
        /\ pc = "switch" \/ decision.trigger = 0 => Records(api.status, made)
        /\ pc # "switch" /\ decision.trigger # 0
              => \E m \in Seq(Decision) : made = Append(m, decision) /\ Records(api.status, m)

(* A step that neither switches nor writes what the record is made of. *)
LEMMA QuietKeepsRecord ==
    ASSUME RecordInv, api'.exists => api.exists, failed \subseteq failed', made' = made,
           api'.status.history = api.status.history, api'.status.decision = api.status.decision,
           \/ UNCHANGED <<pc, decision>>
           \/ /\ UNCHANGED decision
              /\ pc \in {"idle", "evaluate"} /\ pc' \in {"evaluate", "degraded", "apply"}
           \/ /\ UNCHANGED decision
              /\ pc \in {"reget", "apply", "prune", "push"}
              /\ pc' \in {"prune", "push", "status"}
           \/ pc = "evaluate" /\ pc' = "switch" /\ decision'.trigger # 0
           \/ pc = "degraded" /\ pc' = "idle" /\ decision'.trigger = 0
    PROVE  RecordInv'
<1> SUFFICES ASSUME api'.exists /\ failed' \cap {"patch", "apply", "status", "crash"} = {}
             PROVE  RecordInv'
  BY DEF RecordInv
<1>1. api.exists /\ failed \cap {"patch", "apply", "status", "crash"} = {}
  OBVIOUS
<1>2. \A m : Records(api.status, m) => Records(api'.status, m)
  BY DEF Records
<1>3. Records(api.status, made) => Records(api.status, made)'
  BY <1>2 DEF Records
<1> QED BY <1>1, <1>2, <1>3 DEF RecordInv

(* A switch that reached the server is the one still to be recorded. *)
LEMMA SwitchKeepsRecord ==
    ASSUME MaxLag = 0, TypeOK, StatusInv, RecordInv, Switch \/ SwitchResponseLost
    PROVE  RecordInv'
<1>1. api'.status = api.status /\ api.exists
  BY SwitchWrites DEF StatusInv, Switch, SwitchResponseLost
<1>2. /\ failed \subseteq failed' /\ decision' = decision
      /\ made' = Append(made, decision)
      /\ pc = "switch" /\ pc' \in {"reget", "apply"}
  BY DEF Switch, SwitchResponseLost, Fails, Goto
<1>3. made \in Seq(Decision)
  BY DEF TypeOK
<1> SUFFICES ASSUME failed' \cap {"patch", "apply", "status", "crash"} = {} PROVE RecordInv'
  BY DEF RecordInv
<1>4. decision.trigger # 0 /\ Records(api.status, made)
  BY <1>1, <1>2 DEF RecordInv
<1>5. Records(api'.status, made)
  BY <1>1, <1>4
<1>6. \E m \in Seq(Decision) : made' = Append(m, decision') /\ Records(api'.status, m)
  BY <1>2, <1>3, <1>5
<1> QED BY <1>2, <1>4, <1>6 DEF RecordInv

(* Each step of Reconcile that succeeds. *)
LEMMA StepKeepsRecord ==
    ASSUME MaxLag = 0, TypeOK, StatusInv, RecordInv, Step
    PROVE  RecordInv'
<1> USE DEF server, locals, memory, human, Goto
<1>1. CASE \/ FetchDeleted \/ Fetch \/ SkipEvaluate \/ Apply \/ Prune
           \/ \E l \in Runtime : PushLayer(l)
  <2>1. /\ UNCHANGED <<api, failed, made, decision>>
        /\ \/ UNCHANGED pc
           \/ pc \in {"idle", "evaluate"} /\ pc' \in {"evaluate", "degraded", "apply"}
           \/ pc \in {"reget", "apply", "prune", "push"} /\ pc' \in {"prune", "push", "status"}
    BY <1>1 DEF FetchDeleted, Fetch, SkipEvaluate, Apply, Prune, AfterPrune, PushLayer
  <2> QED BY <2>1, QuietKeepsRecord
<1>2. ASSUME NEW met \in Observations, Evaluate(met) PROVE RecordInv'
  <2>1. /\ UNCHANGED <<api, failed, made>> /\ pc = "evaluate"
        /\ \/ pc' = "apply" /\ UNCHANGED decision
           \/ /\ pc' = "switch"
              /\ decision'.trigger \in Firing(met, pol.profile, count, cooling, Required(When))
    BY <1>2 DEF Evaluate
  <2>2. \A t \in Firing(met, pol.profile, count, cooling, Required(When)) : t # 0
    BY TriggerAssumption DEF Firing, Trigger
  <2> QED BY <2>1, <2>2, QuietKeepsRecord
<1>3. CASE Switch
  BY <1>3, SwitchKeepsRecord
<1>4. CASE Reget
  <2>1. CASE cache.exists
    <3>1. /\ UNCHANGED <<api, failed, made, decision>>
          /\ pc = "reget" /\ pc' = "prune"
      BY <1>4, <2>1 DEF Reget
    <3> QED BY <3>1, QuietKeepsRecord
  <2>2. CASE ~cache.exists
    BY <1>4, <2>2 DEF Reget, StatusInv, CacheCurrent, RecordInv
  <2> QED BY <2>1, <2>2
<1>5. CASE UpdateStatus
  <2>1. api'.exists = api.exists /\ (api.exists => api'.status = NewStatus)
    BY <1>5, UpdateStatusWrites
  <2>2. UNCHANGED <<failed, made>> /\ pc = "status" /\ pc' = "idle" /\ decision' = NoDecision
    BY <1>5 DEF UpdateStatus, Return
  <2>3. decision'.trigger = 0
    BY <2>2 DEF NoDecision
  <2>4. pol.status = api.status
    BY <2>2 DEF StatusInv, OneStatusWriter
  <2> SUFFICES ASSUME api.exists, failed \cap {"patch", "apply", "status", "crash"} = {}
               PROVE  RecordInv'
    BY <2>1, <2>2 DEF RecordInv
  <2>5. CASE decision.trigger = 0
    <3>1. /\ NewStatus.history = api.status.history
          /\ NewStatus.decision = api.status.decision
      BY <2>4, <2>5 DEF NewStatus, RecordedHistory, RecordedDecision
    <3>2. Records(api.status, made)
      BY <2>5 DEF RecordInv
    <3>3. Records(NewStatus, made)
      BY <3>1, <3>2 DEF Records
    <3> QED BY <2>1, <2>2, <2>3, <3>3 DEF RecordInv
  <2>6. CASE decision.trigger # 0
    <3>1. PICK m \in Seq(Decision) : made = Append(m, decision) /\ Records(api.status, m)
      BY <2>2, <2>6 DEF RecordInv
    <3>2. Records(NewStatus, made)
      BY <2>4, <2>6, <3>1, StatusRecords
    <3> QED BY <2>1, <2>2, <2>3, <3>2 DEF RecordInv
  <2> QED BY <2>5, <2>6
<1>6. CASE MarkDegraded
  <2>1. pc = "degraded" /\ pc' = "idle" /\ decision' = NoDecision /\ UNCHANGED <<failed, made>>
    BY <1>6 DEF MarkDegraded, Return
  <2>2. decision'.trigger = 0
    BY <2>1 DEF NoDecision
  <2> QED BY <1>6, <2>1, <2>2, MarkDegradedWrites, QuietKeepsRecord
<1>7. CASE ~api.exists /\ SwitchFails
  BY <1>7 DEF SwitchFails, RecordInv
<1> QED BY <1>1, <1>2, <1>3, <1>4, <1>5, <1>6, <1>7 DEF Step

(* Each failure and each step outside Reconcile. *)
LEMMA OthersKeepRecord ==
    ASSUME MaxLag = 0, TypeOK, StatusInv, RecordInv, Failure \/ World
    PROVE  RecordInv'
<1> USE DEF server, locals, memory, human, Goto
<1>1. CASE FetchDetectFails \/ PruneFails
  <2>1. /\ UNCHANGED <<api, made, decision>> /\ failed \subseteq failed'
        /\ \/ pc = "idle" /\ pc' = "degraded"
           \/ pc = "prune" /\ pc' \in {"push", "status"}
    BY <1>1 DEF FetchDetectFails, PruneFails, AfterPrune, Fails
  <2> QED BY <2>1, QuietKeepsRecord
<1>2. CASE SwitchFails \/ ApplyFails \/ UpdateStatusFails \/ Crash
  BY <1>2 DEF SwitchFails, ApplyFails, UpdateStatusFails, Crash, Fails, RecordInv
<1>3. CASE SwitchResponseLost
  BY <1>3, SwitchKeepsRecord
<1>4. CASE Deliver \/ CollectGarbage \/ \E t \in Trigger : CooldownOver(t)
  <2>1. UNCHANGED <<api, failed, made, pc, decision>>
    BY <1>4 DEF Deliver, CollectGarbage, CooldownOver
  <2> QED BY <2>1, QuietKeepsRecord
<1>5. CASE HumanEdit
  <2>1. /\ UNCHANGED <<failed, made, pc, decision>>
        /\ api.exists /\ api'.status = api.status
    BY <1>5, HumanEditWrites DEF StatusInv
  <2> QED BY <2>1, QuietKeepsRecord
<1> QED BY <1>1, <1>2, <1>3, <1>4, <1>5 DEF Failure, CallFails, World

(* With a cache that is current, decisionHistory is the latest switches    *)
(* that reached the server, newest first, each once and at most HistoryMax *)
(* of them, for any limit and any number of switches                       *)
(* (controller.go:298-319).                                                *)
THEOREM SwitchesAreRecorded == MaxLag = 0 /\ Spec => []DecisionsRecorded
<1> SUFFICES ASSUME MaxLag = 0 PROVE Spec => []DecisionsRecorded
  OBVIOUS
<1>1. Init => RecordInv
  <2> SUFFICES ASSUME Init PROVE RecordInv
    OBVIOUS
  <2>1. api.status = EmptyStatus
    BY DEF Init, NewPolicy
  <2>2. Len(made) = 0 /\ made = <<>>
    BY DEF Init
  <2>3. Latest(made) = 0
    BY <2>2, ReconcilerAssumption DEF Latest
  <2>4. [i \in 1..Latest(made) |-> made[Len(made) + 1 - i]] = <<>>
    BY <2>3
  <2>5. Records(api.status, made)
    BY <2>1, <2>2, <2>4 DEF Records, EmptyStatus
  <2> QED BY <2>5 DEF Init, RecordInv, NoDecision
<1>2. TypeOK /\ StatusInv /\ RecordInv /\ [Next]_vars => RecordInv'
  <2> SUFFICES ASSUME TypeOK, StatusInv, RecordInv, [Next]_vars PROVE RecordInv'
    OBVIOUS
  <2>1. CASE UNCHANGED vars
    BY <2>1, QuietKeepsRecord DEF vars
  <2> QED BY <2>1, StepKeepsRecord, OthersKeepRecord DEF Next
<1>3. RecordInv => DecisionsRecorded
  BY DEF RecordInv, DecisionsRecorded, Records, Latest
<1> QED BY <1>1, <1>2, <1>3, TypeCorrect, StatusInvHolds, PTL DEF Spec
=============================================================================
