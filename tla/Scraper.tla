------------------------------- MODULE Scraper -------------------------------
(***************************************************************************)
(* One Scraper (internal/signal/scraper.go): the counter history that the  *)
(* reads of all policies share, and the sidecars whose counters they read. *)
(* The operator has two, one for the reconcile loop and one for the        *)
(* pollers; they share nothing.                                            *)
(*                                                                         *)
(* A mutex makes ReadSignals one step. Counters are kept per status class, *)
(* next to the one of rejected requests; rates are left out, sums kept.    *)
(***************************************************************************)
EXTENDS Integers, FiniteSets, Functions

CONSTANTS
    Policy,         \* the policies, all in one namespace
    Pod,            \* pod names
    Selects,        \* policy -> the pods its selector matches
    Class,          \* the status classes that occur, of 2..5
    SuccessRanges,  \* policy -> its successCodes, a set of [start, end]
    Shed,           \* the counter of requests admission control rejected
    MaxRequests,    \* bound on requests and rejections together
    MaxDisruptions, \* bound on restarts and losses of pods together
    Absent          \* no snapshot of a pod

ASSUME ScraperAssumption ==
    /\ Selects \in [Policy -> SUBSET Pod]
    /\ IsFiniteSet(Pod)
    /\ Class \subseteq 2..5 /\ Shed \notin Class
    /\ Absent \notin Policy /\ Absent \notin [Class \cup {Shed} -> Nat]
    /\ SuccessRanges \in [Policy -> SUBSET [start: Nat, end: Nat]]
    /\ MaxRequests \in Nat /\ MaxDisruptions \in Nat

VARIABLES
    stats,       \* the counters of each pod's sidecar
    running,     \* the pods that exist
    reachable,   \* the pods whose stats endpoint answers
    previous,    \* Scraper.previous
    recent,      \* the snapshots younger than 0.1 s
    result,      \* the signals of the read just made, and, as history, the
                 \* pods it scraped: those that answered, that stayed since this
                 \* policy's last read, that no other policy read meanwhile, and
                 \* that restarted and are counted all the same
    requests,    \* number of requests and rejections so far
    disruptions, \* number of restarts and losses so far
    since        \* history: policy and pod -> what the pod served since that
                 \* policy last scraped it, whether its counters were reset and
                 \* whether another policy has read meanwhile

world == <<stats, running, reachable, requests, disruptions>>
vars == <<stats, running, reachable, previous, recent, result, requests, disruptions, since>>

-----------------------------------------------------------------------------
Counter == Class \cup {Shed}

Zero == [c \in Counter |-> 0]

Total(counters) == SumFunctionOnSet(counters, Class)

(* A class succeeds if its representative code lies in a success range. *)
Succeeds(q, c) == \E r \in SuccessRanges[q] : c * 100 \in r.start..r.end

NonNegDelta(new, old) == IF new > old THEN new - old ELSE 0

(* Seeded fault: deltas may be negative. *)
SuccessDeltaWrongSigned(q, new, old) ==
    SumFunctionOnSet([c \in Class |-> new[c] - old[c]], {c \in Class : Succeeds(q, c)})

SuccessDelta(q, new, old) ==
    SumFunctionOnSet([c \in Class |-> NonNegDelta(new[c], old[c])],
                     {c \in Class : Succeeds(q, c)})

(* Seeded fault: a total that went down is counted. *)
MeasuredWrongCountsResets(scraped) ==
    {p \in scraped : previous[p] # Absent /\ p \notin recent}

(* The pods a read counts: scraped before, not just now, and not restarted *)
(* as far as the total shows.                                              *)
Measured(scraped) ==
    {p \in scraped :
        /\ previous[p] # Absent
        /\ p \notin recent
        /\ Total(stats[p]) >= Total(previous[p])}

NoResult == [policy |-> Absent, samples |-> 0, success |-> 0, shed |-> 0,
             answered |-> {}, kept |-> {},
             steady |-> {}, restarted |-> {}, served |-> [p \in Pod |-> Zero]]

TotalDelta(measured) ==
    SumFunction([p \in measured |-> Total(stats[p]) - Total(previous[p])])

SuccessSum(q, measured) ==
    SumFunction([p \in measured |-> SuccessDelta(q, stats[p], previous[p])])

ShedSum(measured) ==
    SumFunction([p \in measured |-> NonNegDelta(stats[p][Shed], previous[p][Shed])])

(* What a read returns: sampleCount and, instead of the success rate, its  *)
(* numerator, the denominator being sampleCount, and of shedRejectedRPS    *)
(* too. No samples: safe defaults, also when requests were rejected.       *)
Signals(q, measured) ==
    LET total   == TotalDelta(measured)
        success == SuccessSum(q, measured)
    IN  IF total < 1 THEN [samples |-> 0, success |-> 0, shed |-> 0]
        ELSE [samples |-> total, success |-> IF success > total THEN total ELSE success,
              shed |-> ShedSum(measured)]

(* Entries of pods that are not listed are dropped. *)
Pruned(pods, snapshots) == [p \in Pod |-> IF p \in pods THEN snapshots[p] ELSE Absent]

(* Seeded fault: a snapshot is taken once. *)
TakenWrongOnce(scraped) ==
    [p \in Pod |-> IF p \in scraped /\ previous[p] = Absent THEN stats[p] ELSE previous[p]]

Taken(scraped) == [p \in Pod |-> IF p \in scraped THEN stats[p] ELSE previous[p]]

-----------------------------------------------------------------------------
NothingSeen == [seen |-> FALSE, reset |-> FALSE, crossed |-> FALSE, served |-> Zero]

Init ==
    /\ stats = [p \in Pod |-> Zero]
    /\ running = Pod
    /\ reachable = Pod
    /\ previous = [p \in Pod |-> Absent]
    /\ recent = {}
    /\ result = NoResult
    /\ requests = 0
    /\ disruptions = 0
    /\ since = [q \in Policy |-> [p \in Pod |-> NothingSeen]]

(* History: the pods this policy has scraped before, and that stayed.      *)
Kept(q, scraped) == {p \in scraped \ recent : since[q][p].seen /\ ~since[q][p].reset}

Observed(q, pods, scraped) ==
    [r \in Policy |-> [p \in Pod |->
        IF r # q THEN [since[r][p] EXCEPT !.crossed = TRUE]
        ELSE IF p \in scraped THEN [NothingSeen EXCEPT !.seen = TRUE]
        ELSE [since[q][p] EXCEPT !.seen = @ /\ p \in pods]]]

(* Pods are listed, running ones are scraped, every answer replaces the    *)
(* snapshot of its pod, and the entries of pods not listed go.             *)
ReadSignals(q) ==
    LET pods    == Selects[q] \cap running
        scraped == pods \cap reachable
        s       == Signals(q, Measured(scraped))
    IN  /\ pods # {}
        /\ previous' = Pruned(pods, Taken(scraped))
        /\ recent' = (recent \cap pods) \cup scraped
        /\ result' = [policy |-> q, samples |-> s.samples, success |-> s.success,
                      shed |-> s.shed, answered |-> scraped, kept |-> Kept(q, scraped),
                      steady |-> {p \in Kept(q, scraped) : ~since[q][p].crossed},
                      restarted |-> {p \in Measured(scraped) : since[q][p].reset},
                      served |-> [p \in Pod |-> since[q][p].served]]
        /\ since' = Observed(q, pods, scraped)
        /\ UNCHANGED world

(* No pod matches, or the list call fails: an error, and no state changes. *)
DiscoveryFails ==
    /\ result' = NoResult
    /\ UNCHANGED <<world, previous, recent, since>>

-----------------------------------------------------------------------------
(* The pods. *)

(* The sidecar counts a request that ended, or one it rejected. *)
Serve(p, c) ==
    /\ p \in running
    /\ requests < MaxRequests
    /\ requests' = requests + 1
    /\ stats' = [stats EXCEPT ![p][c] = @ + 1]
    /\ since' = [q \in Policy |-> [since[q] EXCEPT ![p].served[c] = @ + 1]]
    /\ result' = NoResult
    /\ UNCHANGED <<running, reachable, disruptions, previous, recent>>

Disrupt(p) ==
    /\ disruptions < MaxDisruptions
    /\ disruptions' = disruptions + 1
    /\ stats' = [stats EXCEPT ![p] = Zero]
    /\ since' = [q \in Policy |-> [since[q] EXCEPT ![p].reset = TRUE]]
    /\ result' = NoResult

(* The sidecar restarts: its counters start again. *)
Restart(p) ==
    /\ p \in running
    /\ Disrupt(p)
    /\ UNCHANGED <<running, reachable, requests, previous, recent>>

(* The pod goes, and may come back under the same name. *)
Leave(p) ==
    /\ p \in running
    /\ running' = running \ {p}
    /\ Disrupt(p)
    /\ UNCHANGED <<reachable, requests, previous, recent>>

Return(p) ==
    /\ p \notin running
    /\ running' = running \cup {p}
    /\ result' = NoResult
    /\ UNCHANGED <<stats, reachable, requests, disruptions, previous, recent, since>>

(* The stats endpoint stops answering, or answers again. *)
Toggle(p) ==
    /\ reachable' = IF p \in reachable THEN reachable \ {p} ELSE reachable \cup {p}
    /\ result' = NoResult
    /\ UNCHANGED <<stats, running, requests, disruptions, previous, recent, since>>

(* 0.1 s pass. *)
Age ==
    /\ recent # {}
    /\ recent' = {}
    /\ result' = NoResult
    /\ UNCHANGED <<world, previous, since>>

Next ==
    \/ \E q \in Policy : ReadSignals(q)
    \/ DiscoveryFails
    \/ \E p \in Pod, c \in Counter : Serve(p, c)
    \/ \E p \in Pod : Restart(p) \/ Leave(p) \/ Return(p) \/ Toggle(p)
    \/ Age

Spec == Init /\ [][Next]_vars
=============================================================================
