# A TLA+ model of shedpilot

shedpilot is a Kubernetes operator. For every `AdaptivePolicy` it renders Envoy
filters for Istio or Cilium, watches the signals of the selected sidecars, and
switches the policy between *profiles* when a trigger fires. A switch reaches
running Envoys over RTDS, without new static configuration.

The modules here model that program part by part, TLC checks them on small
instances and TLAPS proves every safety property of the runs for all instances.
`PROJECT.json` maps every definition to the source lines it stands for.

Run `tlc -config <name>.cfg <Module>` for a run of the table below and
`tlapm <Module>_proofs.tla` for the proofs of a module.

## 1. The system

| Part | State it keeps | Operations |
|---|---|---|
| Trigger evaluator (`internal/trigger`) | per policy and trigger: consecutive samples, time of the last firing | `Evaluate` |
| Reconcile loop (`internal/controller`) | `triggerStates`, `pollers` by policy; on the API server: `spec.activeProfile`, `status` | `Reconcile`, `evaluateAndSwitch`, `applyResources`, `pruneOrphans`, `markDegraded`, `ensurePoller` |
| Filter health (step 8 of `Reconcile`) | `ConsecutiveFilterInactive`; in status: `FilterEffective`, `SignalCollectionAvailable`, `shedRateNow` | part of `Reconcile` |
| Poller (`internal/signal/poller.go`) | breach and recovery counters, `firing`, a channel of capacity one | `Run`, `tick`, `sendNonBlocking` |
| Scraper (`internal/signal/scraper.go`) | `previous`: the last counters by pod name | `ReadSignals` |
| RTDS server (`internal/rtds`) | `streams` by node id, `current` by layer, `version`, `registry` | `StreamRuntime`, `PushLayer`, `RegisterLayer` |
| Renderers and detection (`internal/renderer`) | none | `Detect`, `DetectAndBuild`, `Render` |
| API types (`api/v1alpha1`) | the object | `Effective...`, `Has...` predicates |
| `cmd/main.go`, generated deepcopy, test helpers | none | wiring |

How they interact:

- controller-runtime calls `Reconcile`, one call per policy at a time. It reads the
  policy from the **informer cache**, which lags behind the API server, and writes to
  the API server with merge patches that carry no `resourceVersion`.
- Each `Reconcile` makes sure a **poller** goroutine runs for the policy's generation
  and reads its **channel** without blocking, or scrapes itself when it is empty.
- The signals go to the **evaluator**. A firing consumes its fire time and its counter,
  and only then is `spec.activeProfile` patched.
- Without a switch the rendered resources are **applied**; after a switch the apply is
  skipped. Orphans, which are the entries of `status.managedResources` no longer
  rendered, are **pruned** in both cases, and after a switch the layers are **pushed**.
- The RTDS server keeps one gRPC stream per **Envoy**. It records a layer, sends it to
  every stream, waits for all sends, and replays what it holds to an Envoy that connects.
- The poller keeps a **pointer to the policy** of the reconcile that started it, into which
  that reconcile still decodes the responses of its patches: a data race.
- A status patch is itself a watch event, so most reconciles are followed at once by a second one,
  whose scrape sees next to no traffic.
- The RTDS server runs **in the operator's process**: a restart takes the server, its layers
  and all streams with it, while the Envoys keep the values they hold.
- The reconcile loop and the pollers have a scraper each. Inside one a mutex serialises
  the reads of all policies, which share one history of counters.

What is hard to get right is listed line by line under `hazards` in `PROJECT.json`:
a state consumed before the write that may fail, an object read before a call and
used after it, an apply that is skipped and must be made up for, three selects with a
reader in between, a replay racing a push, a handler that cleans up after the entry was
replaced, counters that restart unnoticed, and several lists that must stay in step.

What makes each part correct:

- *Evaluator*: it fires on enough consecutive samples, never twice on one of them, never
  within the cooldown, and a lasting breach is acted upon.
- *Reconcile loop*: status describes the spec of the generation it names, nothing is
  left in the cluster that status does not list, the mesh converges to the spec, a human
  override wins, deletion leaves nothing.
- *Filter health*: an alarm is backed by three samples in a row, an alarm and a shed
  rate do not contradict each other, and the condition ends up describing what goes on.
- *Poller*: it confirms each breach and recovery exactly, the reader gets the newest
  signal, of its own policy, and no poller outlives its policy.
- *Scraper*: it counts each request once, as what it was.
- *RTDS server*: an Envoy that is served holds the current values and never goes back,
  and a hanging Envoy stops nobody for ever.
- *Loop and server together*: when a switch is over, every Envoy that is served enforces the
  profile the spec names. This holds if the read after the switch has seen it, which the code
  does not make sure of.
- *Renderers*: no resource is ever forgotten, and a switch, which applies nothing, gives the
  Envoys what applying the resources would have given them.

## 2. The modules

| Module | Models | How it corresponds to the code |
|---|---|---|
| `TriggerEval` | one call of `Evaluate`, pure | A trigger is its position in `spec.triggers`. The loop with its early return is a least element: `Firing` is the first trigger that `CanFire`, `CountAfter` the counters the loop leaves. |
| `Evaluator`, `EvaluatorProps` | the evaluator over time | `since` is the time since the last firing, saturated at the cooldown. Edits of the profile, of a trigger's condition (`consecutiveSamples` included) and of its cooldown, failed patches, restarts and the service come between calls; counters and fire times outlive the edits. `log` is a history of the last `Window` evaluations, `judged` of what the newest went by. |
| `Reconciler`, `ReconcilerProps` | `Reconcile` of one policy | One step per call to the outside, with a program counter. `pol` is the Go variable `policy`; `api`, `cache` and `watch` are the object on the server, in the cache and on its way. `unsent` are the layers still to be pushed, one step each, and the decision history is part of the status. The read after a switch (`Reget`) is one of the cache; `missed` is a history of whether it missed the switch. Between any two steps humans, watch events, failures and restarts occur. |
| `FilterHealth`, `FilterHealthProps` | the conditions of step 8 | A sample is one of five kinds, told apart by what the step asks of it. `echo` is the watch event of the last status patch, after which a scrape may show no requests. The counter moves whether or not the status patch succeeds. |
| `Debounce` | what debouncing promises | A breach is confirmed when the last `Breaches` scrapes show it, a recovery when the last `Recoveries` are clean. It has no counters. |
| `Poller`, `PollerProps` | poller goroutine and its reader | Each select of `sendNonBlocking` is a step, and so is each of `ensurePoller`, the receive, the evaluation and the decoding of responses; a reconcile may also return before it comes to the poller. Policies are deleted and created again under their name with a new `uid`; the operator restarts. A tick in the middle of the decoding sees the first triggers only. Implements `Debounce`. |
| `Rtds`, `RtdsProps` | RTDS server and Envoys | One handler per connection, one step per send. The critical sections under `s.mu` are single steps. Values of a layer are the number of the push that brought them. |
| `Delivery`, `DeliveryProps` | reconcile loop and RTDS server in one process | `Reconciler` and an instance of `Rtds` with joint steps: a `PushLayer` of the loop is a `Record` of the server, and a crash of one is a restart of the other. The worker does nothing while a push has sends outstanding (`wg.Wait`). `value` remembers what each push carried. |
| `Scraper`, `ScraperProps` | `ReadSignals` and the sidecars | A read is one step because of the mutex. Counters are kept per status class, and one for rejections, which is read apart from them; `since` is a history of what was really served, `restarted` of the pods whose restart falls into a read. |
| `Renderer`, `RendererProps` | both renderers and detection, and what reconciles make of them | A spec is the settings a profile or an edit can change; settings rendered verbatim are one value. The spec as the cache has it, the cluster, the list in the status and the layers pushed are state; edits and switches the cache hears of, sooner or later, changes of mesh and failed detections are actions. |
| `Evaluator_proofs`, `Reconciler_proofs`, `FilterHealth_proofs`, `Poller_proofs`, `Rtds_proofs`, `Delivery_proofs`, `Scraper_proofs`, `Renderer_proofs` | the theorems | see section 5 |
| `MC...` | the instances for TLC | small definitions of the constants |

`Evaluator`, `Reconciler` and `Poller` all extend `TriggerEval`, so the decision procedure
is written once and composed with the clock, with the reconcile loop and with the signal
path. `Reconciler` abstracts the other parts to what they do to it: the poller and scraper
to the set of conditions a sample meets, the evaluator's clock to `cooling`, the RTDS server
to `current`, a renderer to the resources a set of filters needs. `Delivery` takes the abstraction
of the RTDS server back and shows the composition to implement `Rtds`; `Renderer` has
reconciles as single steps and in exchange the values each resource and layer carries. In the reconciler skip
paths go with admission control, and a resource's content is the profile and the dry-run
flag it was rendered from.

Operators whose name contains `Wrong` are seeded faults. No specification uses them.
Each is a plausible mistake in the definition that follows it and serves to show that a
property can fail.

## 3. What the runs check

The states are distinct states.

| Run | States | What it shows |
|---|---|---|
| `evaluator` | 348,000 | Cooldowns hold across failed patches and edits of profile, threshold and cooldown; a firing is backed by enough consecutive samples not spent before; enough samples in a row always fire; a lasting breach is acted upon. |
| `reconciler_current` | 3.92 million | With a current cache: a status that claims the generation is true of it; between reconciles every resource is listed in status unless a call failed; after `human-override` at most one more switch lands; every switch is in the decision history once, newest first. |
| `reconciler_live` | 640,000 | With a lagging cache, failures and restarts: resources converge to the spec once it settles, a deletion cleans up mesh resources and trigger state, and the runtime shows the active profile unless the read after the switch missed it. |
| `filter_health` | 697,000 | An alarm has three judged samples in a row behind it; the status shows the verdict on the newest judged sample unless its patch failed; a policy that reports shedding reports an effective filter; a filter that never acts is reported, and ejections that go on end the alarm. |
| `poller` | 546,000 | The counters implement `Debounce`; the newest signal is pending or received; a pending signal is not outdated; a reader that stays with one poller learns the truth; a reconcile gets signals of the policy it has read; the poller of a deleted policy ends. |
| `rtds` | 296,000 | A registered Envoy that has replayed holds what the server holds; no Envoy goes back; no dead stream stays registered; a push always returns. |
| `delivery` | 190,000 | With a lagging cache: after a switch that its re-read has seen, every served Envoy enforces the profile of the spec, whichever connections broke meanwhile; the server in the operator is the one of `Rtds`; Envoys that hang do not stop the reconciles. |
| `scraper` | 2.32 million | No request and no rejection is counted twice or out of nothing; pods that stay are counted whatever happens to the others, and their failures shown unless a counted pod restarted; all-success and all-failure read as such. |
| `renderer` | 525,000 | Whatever edits, changes of mesh and switches came before, each resource in the cluster is listed in status; a profile switch moves no resource; a switch pushed over RTDS gives an Envoy the values applying the object it read would, the threshold a hundredth of it. |

Three runs state what the repository says of the program, and TLC finds a behaviour
of the code against it:

| Run | Statement | What the code does |
|---|---|---|
| `scraper_policies` | `adaptivepolicy_controller.go:50-51`, the shared scraper "maintains counter history" | Each read drops the entries of all pods not its own (`scraper.go:170`), so policies over different pods that alternate have no history and see no samples. |
| `rtds_reconnect` | `client.go:258`, a push goes to "all connected Envoy instances" | The handler of an old connection deletes the entry of its node id (`client.go:236`), which may be the new connection's. |
| `reconciler_reread` | `adaptivepolicy_controller.go:208`, "Re-fetch after spec patch to get updated activeProfile" | The read is one of the informer cache, which need not have the patch yet: the profile from before the switch is rendered and pushed, and since layers are pushed only by a reconcile that switches, nothing corrects it before the next switch. With `MaxLag` = 0 the statement holds. |

The exceptions to a property are written in the property, not left out of the model:

- `HoldsCurrent`, `NoRollback` and `EnvoysFollowProfile` except a stream whose replay a push
  has overtaken: `StreamRuntime` copies the layers under the lock and sends the copy after
  releasing it, so the copy may arrive last.
- `RuntimeFollowsProfile` and `EnvoysFollowProfile` except a read after the switch that missed it
  (`missed`), which `reconciler_reread` shows to happen, and switches the operator did not hear of or
  did not make.
- `EnvoysFollowProfile` also excepts a lost response of the spec patch (the operator does not know it
  switched) and a crash, which leaves values with Envoys that the new process knows nothing of and
  so neither replaces nor removes.
- `SteadyPodsAreCounted` excepts pods another policy read in between, which is the first
  finding. What it says of failures excepts a read that counts a restarted pod: the scraper skips an interval
  only if the total went down, and then takes the classes that went up (`scraper.go:140-157`), whose
  successes may hide the failure of a pod that stayed. Without this exception TLC finds the case.
- `ResourcesTracked` and `DecisionsRecorded` name the failures and edits
  under which they hold; outside of them they do not.
- `PollerBelongs` excepts a policy deleted and created again between two reconciles at the same
  generation: `ensurePoller` compares generations only.
- `PendingIsCurrent` and `DeliversTheTruth` except a signal sent by a tick that read a policy half
  decoded.
- `ConditionSettles` supposes, for the alarm, that from some time on no reconcile started by a
  status patch scrapes an interval without requests and thereby starts the count again.
- `SwitchDelivers` compares with the object the switch has read, which may be an old one, and leaves
  out the window and the percentile, which no layer carries. Of the threshold it says what the code does: the
  value in the Envoy is a hundredth of the one an apply gives (`istio.go:269` and `230`).

### Bounds

- *Evaluator*: two triggers, the first with a cooldown of two ticks, two samples and any
  source profile, the second with none, two samples and one source profile. This is enough for
  one trigger to fire while the other accumulates, cools down or is skipped. Edits of the first
  lower its samples to one with a shorter cooldown, raise them to three, and restore them, any number of
  times and at any moment, so that a counter may rest above its threshold. One failed
  patch or restart; `Window` = 3 covers the two samples of a threshold and the one before, or the three of an edited one.
- *Reconciler, current cache*: `MaxLag` = 0, every kind of edit (two edits), every kind of
  failure (one), triggers fire up to generation 4, which is three switches, one more than the
  history of two records holds. Two edits and one failure are what a reconcile
  can meet between its first and last call and still have a reconcile follow.
- *Reconciler, lagging cache*: `MaxLag` = 1, one edit of profile, dryRun or a deletion, one failure of
  the patch, its response, the apply, the status patch, or a crash; one filter, and switches up to
  generation 3, which are two. A lag of one event makes each read of the cache, the one after a switch
  included, either current or stale. The size of the liveness graph is what keeps these bounds low.
  `reconciler_reread` has the same setting without edits and failures.
- *Filter health*: two edits, to turn dryRun on and off or disable the filter and enable
  it again, and two faults, to lose a status patch and, by a restart, the counter. The counter
  saturates at its threshold of three, above which the code does not tell values apart.
- *Poller*: one list of triggers; two scrapes confirm a breach and three a recovery; counters saturate at the
  larger, above which the code does not tell them apart. Two generations in each of two lives of
  the policy and one restart of the operator: a poller replaced by an edit, by a re-creation
  at the same and at another generation, and by a restart.
- *RTDS*: two Envoys, two layers, two connections, three pushes: one reconnection, or two
  Envoys at once. The run allows the system to stop, since connections and pushes are
  used up.
- *Delivery*: one Envoy with one reconnection, one layer, one trigger that needs one sample, two
  pushes, a cache that lags by one write, one restart of the operator or one failed spec patch, a
  history of one record, no human edits: those, the switch back and the other failures are in the
  runs of `Reconciler`.
- *Scraper*: two policies, one selecting both of two pods and one selecting one; three
  requests, one restart or loss, so that a total can go down, stay or hide a restart.
- *Renderer*: settings partly set; no profile or one of two that override different settings;
  a selector without the label `app`. Skip paths are always set; dry runs and an explicit
  backend are combined with admission control alone, and streaming protection not with
  adaptive concurrency, because the filters are rendered independently of each other.

`MaxEdits`, `MaxFaults`, `MaxGen`, `MaxLag`, `MaxConns`, `MaxPushes`, `MaxRequests`,
`MaxDisruptions`, `MaxLives`, `MaxRestarts` are the bounds; each is a guard of the actions that count. In
`Reconciler` a failure kind occurs at most once, and `MaxGen` limits triggers, by the object's generation and
by the switches made, not humans; `LongestCooldown` bounds the cooldowns an edit may set;
`HistoryMax` is the code's limit of ten records, reduced. The saturations of `since`, `age` and
the counters lose nothing the code compares. `Baseline` is the empty `activeProfile`.

## 4. Fairness

- `Evaluator`: `WF(Evaluate)`, since every reconcile requeues itself after the interval
  (`adaptivepolicy_controller.go`, the result of `Reconcile`), and `WF(Tick)`, since time passes.
- `Reconciler`: `WF(Step)`, since controller-runtime runs every requeued reconcile and each call returns; `WF(Deliver)`
  for the watch; `WF(CollectGarbage)` for Kubernetes' collector, which the owner references
  rely on. Humans, samples, cooldowns and failures are under no obligation.
- `FilterHealth`: `WF(Reconcile)`, since every reconcile requeues itself; a status patch may
  fail `MaxFaults` times, and neither traffic nor the poller is under any obligation.
- `Poller`: `WF(Run)`, the ticker and the goroutine; `WF(Reconcile)` as above, where a reconcile that
  returns early changes nothing, so that fairness asks for one that does not: the policy becomes valid and a
  mesh is found. For a policy that stays invalid the property says nothing. Nothing is
  assumed of the service or of humans. `TickFails` changes nothing, so an unreachable service
  may stay so for ever.
- `Rtds`: weak fairness per connection of its handler, of the keepalive
  (`client.go:149-152`), and of a send on a connection that is not silently broken. A send on a
  silent one may hang until the keepalive closes it. Nobody has to connect or push.
- `Delivery`: the fairness of `Rtds`, of the watch, and of the reconcile worker while it is not waiting for
  a push. A worker that waits gets on only through the sends and the keepalive.
- `Scraper` and `Renderer` have safety properties only.

## 5. What is proved

Every invariant and every action property that a passing run checks is also a theorem, and so are the
two refinements. The theorems hold for every value of the constants: any
number of triggers, profiles, Envoys, pods and policies, and any value of each bound.

| Theorem | Statement | Rests on |
|---|---|---|
| `Evaluator_proofs.CooldownHolds` | `Spec => []CooldownRespected` | `EvaluatorInv` |
| `Evaluator_proofs.FiringsAreBacked` | `Spec => []FiringIsBacked` | `EvaluatorInv` |
| `Evaluator_proofs.NoFireIsMissed` | `Spec => []NoMissedFire` | `EvaluatorInv` |
| `Reconciler_proofs.TypeCorrect` | `Spec => []TypeOK` | itself |
| `Reconciler_proofs.StatusIsTruthful` | `MaxLag = 0 /\ Spec => []ObservedTruthful` | `StatusInv` |
| `Reconciler_proofs.OverrunsAtMostOnce` | `MaxLag = 0 /\ Spec => []OverrideOverrun` | `OverrunInv` |
| `Reconciler_proofs.ResourcesAreTracked` | `MaxLag = 0 /\ Spec => []ResourcesTracked` | `TrackedInv` |
| `Reconciler_proofs.RuntimeShowsProfile` | `Spec => []RuntimeFollowsProfile` | `HeardInv`, `RuntimeInv` |
| `Reconciler_proofs.SwitchesAreRecorded` | `MaxLag = 0 /\ Spec => []DecisionsRecorded` | `RecordInv` |
| `FilterHealth_proofs.TypeCorrect` | `Spec => []TypeOK` | itself |
| `FilterHealth_proofs.VerdictIsShown`, `SheddingAgrees` | `Spec => []VerdictShown`, `Spec => []SheddingIsEffective` | `HealthInv` |
| `FilterHealth_proofs.AlarmIsBacked` | `Spec => AlarmBacked` (an action property) | `HealthInv` |
| `Poller_proofs.TypeCorrect`, `NewestArrives`, `PendingShowsVerdict`, `PollerIsOfPolicy` | `Spec => []TypeOK`, `[]NewestIsNotLost`, `[]PendingIsCurrent`, `[]PollerBelongs` | `PollerInv` |
| `Poller_proofs.PollerDebounces` | `Spec => Debounced`: `Poller` implements `Debounce` | `PollerInv` |
| `Rtds_proofs.TypeCorrect`, `NoDeadStreams`, `EnvoysHoldCurrent` | `Spec => []TypeOK`, `[]DeadStreamsLeave`, `[]HoldsCurrent` | `RtdsInv` |
| `Rtds_proofs.EnvoysDoNotRollBack` | `Spec => NoRollback` (an action property) | `RtdsInv` |
| `Delivery_proofs.ServerIsImplemented` | `DeliverySpec => ImplementsServer`: `Delivery` implements `Rtds` | step by step |
| `Delivery_proofs.SwitchesReachEnvoys` | `RtdsOn /\ DeliverySpec => []EnvoysFollowProfile` | `HeardInv`, `RuntimeInv`, `ShownInv`, `RtdsInv`, `LinkInv` |
| `Scraper_proofs.NothingIsInvented`, `SteadyPodsCount`, `ExtremesShow` | `Spec => []NothingInvented`, `[]SteadyPodsAreCounted`, `[]ExtremesAreHonest` | `ScraperInv` |
| `Renderer_proofs.TypeCorrect`, `NothingIsForgotten` | `Spec => []TypeOK`, `[]ClusterTracked` | `RendererInv` |
| `Renderer_proofs.SwitchLeavesResources`, `SwitchesDeliver` | `Spec => SwitchKeepsResources`, `Spec => SwitchDelivers` (action properties) | `RendererInv` |

### The inductive invariants and why they are needed

*Evaluator.* The properties speak of the log of evaluations, the code of a counter and a time.
`SinceLastFire` and `RunCounted` tie the two: the time kept is at most that since each firing the log remembers,
and the counter is at least the run of bad samples at its end. `CountBacked` is the converse, that
each unit of the counter is an evaluation in the log that accumulated, which `FiringIsBacked` needs for
a trigger that was skipped in between. None of them mentions a threshold, which is why an edit cannot
break them; that a counter stays below its threshold is not an invariant, since an edit may lower
the threshold.

*Reconciler.* `ObservedTruthful` is not inductive: nothing in it speaks of the object a running
reconcile holds. `StatusInv` adds that the cache is current (`CacheCurrent`), that two objects of the
same generation, the reconcile's and the server's, have the same profile and filters
(`GenerationNamesSpec`), and that the status on the server
is the one the running reconcile read (`OneStatusWriter`). The last conjunct is what
makes a merge patch computed from `pol` install the whole new status, and it is the reason
for `MaxLag = 0`: with a lagging cache the patch may leave out a field that only looks
unchanged.

`OverrideOverrun` needs to know that a switch is under way at most once: `OverrunInv` says
that with the override set, a reconcile that has read the object before has its one
switch still ahead, or has made it, and that one that has read it since makes none.

`TrackedInv` follows the resources through one reconcile: before the prune they are those of the
status or those just rendered, after it only the latter, which the status patch then
writes. `RuntimeInv` says the same of the layers, at every lag: while a reconcile that switched is under way each
layer shows the active profile, if the re-read saw it, or is still to be pushed. For this the filters the re-read
finds must be those of the server, which `HeardInv` says of the cache and of every event on its way, as
long as no human edits them. `RecordInv` says that the history lacks the
switch just made, and no other, from the spec patch to the status patch.

*Filter health.* `HealthInv` adds `CounterIsRun`: the counter in memory is the length of the run
of inactive samples at the end of the log, up to the threshold. Verdicts are about the log, the code
looks at the counter.

*Poller.* `SignalHandled` says where the signal is at each of the three selects, and `NewestIsNotLost`
follows when the last is over. `SignalIsVerdict` ties the signal to the poller's flag, `PollerKnown` a poller
to a policy that was there, and `CountersAreRuns` the two counters to the runs at the
end of the log. With the last one each tick is a step of `Debounce` and every other step a stutter.

*RTDS.* `StreamsOwned` says whose handler an entry of `streams` has, and `LinksOpen` that an Envoy uses an open
connection. `PushesCurrent` says that a running push carries the current value of its layer (the worker waits for its sends), `NothingNewer` that no Envoy is ahead of the
server, and `ReplayFresh` that the copy a stream still has to replay is current unless a push has overtaken it.

*Delivery.* Each joint step is a step or a stutter of `Rtds` and of `Reconciler`, so what is proved of
either holds of the composition. What the composition adds is `LinkInv`: pushes run only while a
reconcile that switched waits (`PushesSwitch`), the value the server has last recorded is the one the loop believes to
have pushed (`ValuesAgree`), and without a crash no Envoy has a layer that the server lacks
(`NothingLeftOver`). An Envoy with no layer shows the mesh resource. That one dates from before the first
switch, when cache and server had one profile, since by `ShownInv` every filter of the policy has
a layer once a switch was made, or is about to be given it by the reconcile that switched.

*Scraper.* `CountersBounded` says that no counter has grown since the snapshot by more than
the pod served since a given policy last scraped it, whoever took the snapshot; `SteadyExact` that for
a pod that stayed, and whose account no other policy's read came across, it has grown by just
that; `NeverBelow` that without a restart no counter is below its snapshot, whoever took that. The theorems then compare sums over classes and pods. A sum is shown to be the number of
its units (`SumCounts`), whatever order the fold takes; that gives `SumGrows`, `SumOfSupport` and
`SumZero`, and `SumAdds` by induction over the finite set. That induction is stated of the collection of the
sets for which a fact holds (`SubsetInduction`), with no operator as parameter. For `ExtremesAreHonest`
the case that counts is a restart which later requests hide: a class that fails has not
grown, so the positive deltas of the others make up for the difference of the totals (`DeltaWithoutFailure`). That failures of pods that stayed show
(`ReadShowsFailures`) rests on the total of a pod that did not restart being its successes and its failures,
each at least zero.

*Renderer.* `AppliedShown` says that after a reconcile that applied the cluster holds what it rendered, and for which
spec. A switch is then compared with the spec rendered last, which differs from the one it has read in the profile only, or not
at all if it has read an old object. `ThresholdCarried` ties the unit of the layer to that of the resource.

### Assumptions

The theorems use the ASSUMEs of the modules, which TLC evaluates in every run of a module that extends them:

- `TriggerAssumption`, `EvaluatorAssumption`, `ReconcilerAssumption`, `PollerAssumption`: the constants are
  well-typed, every `switchTo` names a profile (`validatePolicy` rejects others), and the values that
  stand for nothing are none of the ordinary ones.
- `FilterHealthAssumption`, `RtdsAssumption`, `DeliveryAssumption`: the bounds are naturals.
- `ScraperAssumption`: the pods are finitely many, the classes are among 2 to 5, no snapshot equals `Absent`.
- `RendererAssumption`: the specs are closed under a switch to a profile that the policy defines, which
  is what a trigger may write.

`MaxLag = 0` is a hypothesis of the four theorems marked so, and the run they generalise, `reconciler_current`, has it: with a lagging
cache a reconcile may work on an object older than the one it patches, and a merge patch may lose fields (section 6).
`RtdsOn` says that the client is there and the mesh supports RTDS; without it no switch is delivered to an Envoy
before the next apply.

**Model-checked only** are the liveness properties, `LastingBreachSwitches`, `AppliedConverges`,
`DeletionCleansUp`, `DeliversTheTruth`, `StopsWithPolicy`, `PushReturns`, `ReconcilesGoOn` and
`ConditionSettles`: fairness and ENABLED are out of the prover's reach. `Debounced` and
`ImplementsServer` are refinements of safety specifications and are proved. The modules have no
RECURSIVE operator.

## 6. What is not modelled, and what is assumed

- `RTDSConnected`, times and texts in the status, request rates and the division by the
  interval: they are reported, nothing decides on them, except the request rate,
  which a trigger may name and which `Evaluator` takes as a signal.
- Several policies in one reconcile loop. They share the scraper (modelled) and the RTDS
  server; nothing else is shared between two keys of `triggerStates` and `pollers`.
- Edits of the list of triggers itself: how many there are, their order, their targets and their
  `fromProfiles` are fixed everywhere. Conditions and cooldowns are edited in `Evaluator`; `Reconciler` takes the set of
  conditions a sample meets as an input but keeps the numbers of samples, and `Poller` keeps the triggers it
  judges by.
- That the status is stale in `Renderer`: it assumes that the cache has the operator's own last patch of
  `managedResources`. In `Reconciler` it need not.
- The layers of a deleted policy: `Reconcile` removes none from the RTDS server, which goes on to replay them. Nothing
  is claimed of them after a deletion.
- The registry of `RegisterLayer`, which no code reads, and the two unimplemented RTDS
  methods. Pods of one name in two namespaces.
- Parsing Prometheus text, formatting of names, hashes, YAML layout, logs and metrics.
- Schedules: the API has them, no code runs them.
- Flags, probes and leader election of `cmd/main.go`; that it makes server and reconciler in one
  process is the initial state of `Delivery`. Generated code and test helpers.
- Of the data race between poller and `Reconcile`: that a tick may read some of the triggers, and
  that a concurrent map access aborts the process, are modelled. A torn read of a single
  trigger is not.
- External, modelled from use: the API server, its watch and garbage collection; Envoy,
  assumed to accept each layer it is sent and to keep its values per layer; gRPC; pods.

Divergences met while reading, which no run states:

- A skipped trigger keeps its counter, so "consecutive" samples may lie far apart
  (`evaluator.go:82-92`). Samples counted under one condition count for another that an edit puts in its
  place, and a counter may rest above a threshold that was lowered.
- `evaluator.go:59-61` says that all counters are updated on every call, "regardless of which trigger fires": the
  loop returns at the first trigger that fires (`evaluator.go:105-116`), and later triggers count nothing.
- `Degraded` is set to True and never set back (`adaptivepolicy_controller.go:454`).
- Istio's static threshold is the percentage, commented "0.0-1.0 range" (`istio.go:230`), its layer's a
  hundredth of it, commented "matching typedConfig" (`istio.go:269`); Cilium divides both. A switch thus gives
  Envoys 0.95 where an apply gives 95. `SwitchDelivers` has the factor in its statement.
- `runbook.md:45` says of dryRun "All request rejection stops immediately": layers are pushed only by a reconcile whose
  own trigger switched (`adaptivepolicy_controller.go:260`), so a layer pushed before an edit of dryRun, which overrides the
  resource, keeps the filter enabled.
- `architecture.md:110` says that the interval in which a counter decreases is skipped: the scraper skips it only if
  the total decreases, and otherwise counts the classes that went up (`scraper.go:140-157`).
- Every layer goes to every Envoy; the registry of selectors is never read, and layer names
  leave out the namespace. The bootstrap asks for `shedpilot-runtime` (`client.go:449`) while the
  server sends resources named after policy and filter. ACK and NACK are not told apart.
- Skip paths and streaming protection are not rendered for Cilium, so a policy with
  streaming protection only is Ready with nothing applied; `adaptivepolicy_types.go:320-322`
  recommends skip paths there.
- `interface.go:40` calls detection cached; it runs in every reconcile, and a list that
  fails reads as "mesh not present".
- Without the label `app` the host is whatever label the map iteration yields first
  (`istio.go:597`), against the idempotence that `interface.go:49-50` asks for.
- A read in which no pod answers returns defaults and no error (`scraper.go:176`), and the
  request rate always divides by 30 s.
- `window` and `percentile` of a profile are not among the values RTDS delivers.
- A switch does not apply anything, against `architecture.md:155`; the comment at
  `adaptivepolicy_controller.go:265` calls the re-render "already applied" when it was skipped. On Cilium
  a switch thus delivers nothing until the next reconcile, while `interface.go:57-59` speaks of
  a full re-render.
- Disabling the last filter of a policy leaves its resources: `validatePolicy` fails
  before anything is pruned, while `adaptivepolicy_types.go:266` says that a disabled filter's
  EnvoyFilter "is deleted".
- A recovery need not be signalled: the switch a breach leads to is a new generation, which
  restarts the poller without its `firing` flag (`poller.go:211-212`). The reconcile's own
  scrape makes up for it.
- `FilterEffective` asks for evidence of three intervals (`adaptivepolicy_controller.go:347-349`), but
  reconciles started by status patches and edits count as intervals, and reset the count when
  they see no traffic. Once set, the condition keeps its value until the opposite is
  seen, also with the filter disabled or in dryRun; `README.md:471` reads it as the present state.
- `Connected()` (`client.go:383-388`) does not look at connections, so `deliveryMethod` is
  `rtds` also with no Envoy connected.
- After a crash of the operator Envoys keep runtime values that no layer of the new process
  replaces until the next switch.
- Every replica serves RTDS, but only the leader pushes: an Envoy connected to another replica
  gets nothing.
- With a lagging cache a merge patch of the status may lose `managedResources` or a record of the
  decision history; a failed patch of the spec is recorded as a decision, outcome pending.

## 7. Plan

Done, in this order: `TriggerEval`, `Evaluator`, `Reconciler` with its theorems, `Poller` with `Debounce`,
`Rtds`, `Scraper`, `Renderer`; then the decision history, `Delivery`, the lives of
policies and pollers, `FilterHealth`, detection and pruning over time, the rejection counter;
then the theorems about all of them.

All safety and action properties of the runs are proved; what is left to prove:

1. Type invariants of `Evaluator`, `Scraper` and `Delivery` as theorems of their own; they are
   conjuncts of the inductive invariants now.
2. What the abstractions of `Reconciler` promise where another module has the detail: that `TriggerEval`
   with the clock of `Evaluator` gives the `cooling` of `Reconciler`.
3. For the liveness properties, their safety core: the step of the fair action that each waits for
   makes progress, and nothing undoes it.

To extend the model, in case the code grows there: several policies in one operator whose
layers share one server, and a clock that bounds how long a confirmed breach takes to
become a switch.
