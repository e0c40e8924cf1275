-------------------------- MODULE Evaluator_proofs --------------------------
(***************************************************************************)
(* Theorems about the trigger evaluator over time, for every list of       *)
(* triggers, every cooldown, every sequence of samples, edits, failed      *)
(* patches and restarts, and a log of any length.                          *)
(***************************************************************************)
EXTENDS EvaluatorProps, SequenceTheorems, FiniteSetTheorems, WellFoundedInduction, TLAPS

-----------------------------------------------------------------------------
(* The natural numbers are well-founded. *)

(* A set of naturals that is not empty has a least element. *)
LEMMA LeastElement ==
    ASSUME NEW S \in SUBSET Nat, S # {}
    PROVE  \E least \in S : \A n \in S : least <= n
<1> DEFINE Less == OpToRel(<, Nat)
<1>1. IsWellFoundedOn(Less, Nat)
  BY NatLessThanWellFounded
<1>2. \A x, y \in Nat : <<x, y>> \in Less <=> x < y
  BY DEF OpToRel
<1> HIDE DEF Less
<1>3. PICK least \in S : \A n \in S : ~(<<n, least>> \in Less)
  BY <1>1, WFMin
<1>4. ASSUME NEW n \in S PROVE least <= n
  <2>1. n \in Nat /\ least \in Nat /\ ~(n < least)
    BY <1>2, <1>3, Zenon
  <2> QED BY <2>1
<1> QED BY <1>4

(* A set of naturals shifted has as many elements. *)
LEMMA ShiftedCardinality ==
    ASSUME NEW A \in SUBSET Nat, IsFiniteSet(A), NEW B \in SUBSET Nat, NEW d \in Nat,
           \A x \in B : x + d \in A,
           \A y \in A : y >= d /\ y - d \in B
    PROVE  IsFiniteSet(B) /\ Cardinality(B) = Cardinality(A)
<1> DEFINE f == [y \in A |-> y - d]
<1>1. f \in Injection(A, B)
  BY DEF Injection, IsInjective
<1>2. f \in Surjection(A, B)
  <2>1. \A x \in B : f[x + d] = x
    OBVIOUS
  <2> QED BY <1>1, <2>1 DEF Injection, Surjection
<1> HIDE DEF f
<1>3. ExistsBijection(A, B)
  BY <1>1, <1>2 DEF ExistsBijection, Bijection
<1> QED BY <1>3, FS_Bijection

-----------------------------------------------------------------------------
(* The decision procedure. *)

(* A trigger needs at least one sample: requiredSamples never returns 0. *)
LEMMA RequiredPositive ==
    ASSUME NEW w \in [Trigger -> Condition]
    PROVE  /\ Required(w) \in [Trigger -> Nat]
           /\ \A t \in Trigger : Required(w)[t] >= 1
BY DEF Required, RequiredSamples, Condition

(* The loop over the triggers fires none only if none can fire. *)
LEMMA NoneFires ==
    ASSUME NEW met, NEW prof, NEW c, NEW cool, NEW need, Firing(met, prof, c, cool, need) = {},
           NEW t \in Trigger
    PROVE  ~CanFire(t, met, prof, c, cool, need)
<1> DEFINE S == {u \in Trigger : CanFire(u, met, prof, c, cool, need)}
<1> SUFFICES ASSUME CanFire(t, met, prof, c, cool, need) PROVE FALSE
  OBVIOUS
<1>1. S \in SUBSET Nat /\ S # {}
  BY TriggerAssumption DEF Trigger
<1>2. PICK least \in S : \A n \in S : least <= n
  BY <1>1, LeastElement
<1>3. ASSUME NEW u \in 1..(least - 1) PROVE ~CanFire(u, met, prof, c, cool, need)
  <2>1. least \in Trigger /\ u \in Trigger /\ ~(least <= u)
    BY <1>1, <1>2, TriggerAssumption DEF Trigger
  <2> QED BY <1>2, <2>1
<1>4. least \in Firing(met, prof, c, cool, need)
  BY <1>2, <1>3 DEF Firing
<1> QED BY <1>4

(* f is what the loop fires: no trigger (0), or the first that can. *)
Outcome(f, met, prof, c, cool, need) ==
    \/ f = 0 /\ Firing(met, prof, c, cool, need) = {}
    \/ f \in Firing(met, prof, c, cool, need)

(* The loop reaches the triggers up to the one that fires. *)
LEMMA ReachesUpToFiring ==
    ASSUME NEW met, NEW prof, NEW c, NEW cool, NEW need, NEW f, Outcome(f, met, prof, c, cool, need),
           NEW t \in Trigger
    PROVE  Reached(t, met, prof, c, cool, need) <=> Eligible(t, prof, cool) /\ (f = 0 \/ f >= t)
<1>1. CASE f = 0 /\ Firing(met, prof, c, cool, need) = {}
  <2>1. \A u \in Trigger : ~CanFire(u, met, prof, c, cool, need)
    BY <1>1, NoneFires
  <2>2. \A u \in 1..(t - 1) : u \in Trigger
    BY TriggerAssumption DEF Trigger
  <2> QED BY <1>1, <2>1, <2>2 DEF Reached
<1>2. CASE f \in Firing(met, prof, c, cool, need)
  <2>1. /\ f \in Trigger /\ CanFire(f, met, prof, c, cool, need)
        /\ \A u \in 1..(f - 1) : ~CanFire(u, met, prof, c, cool, need)
    BY <1>2 DEF Firing
  <2>2. f \in Nat /\ f >= 1 /\ t \in Nat /\ t >= 1
    BY <2>1, TriggerAssumption DEF Trigger
  <2>3. CASE f >= t
    BY <2>1, <2>2, <2>3 DEF Reached
  <2>4. CASE f < t
    BY <2>1, <2>2, <2>4 DEF Reached
  <2> QED BY <2>2, <2>3, <2>4
<1> QED BY <1>1, <1>2 DEF Outcome

(* What an evaluation does to the counter of a trigger. *)
LEMMA CountChanges ==
    ASSUME NEW met, NEW prof, NEW c \in [Trigger -> Nat], NEW cool,
           NEW need \in [Trigger -> Nat], NEW f,
           Outcome(f, met, prof, c, cool, need), NEW t \in Trigger
    PROVE  LET after == CountAfter(met, prof, c, cool, need)[t] IN
           /\ ~Reached(t, met, prof, c, cool, need) => after = c[t]
           /\ Reached(t, met, prof, c, cool, need) =>
                 after = IF t \in met /\ f # t THEN c[t] + 1 ELSE 0
           /\ f = t => /\ Reached(t, met, prof, c, cool, need) /\ t \in met /\ t \notin cool
                       /\ c[t] + 1 >= need[t]
           /\ Reached(t, met, prof, c, cool, need) /\ t \in met /\ f # t => c[t] + 1 < need[t]
<1>1. t \in Firing(met, prof, c, cool, need) <=> f = t
  <2>1. \A u, v \in Firing(met, prof, c, cool, need) : u = v
    BY TriggerAssumption DEF Firing, Trigger
  <2>2. t # 0
    BY TriggerAssumption DEF Trigger
  <2> QED BY <2>1, <2>2 DEF Outcome
<1>2. f = t => /\ Reached(t, met, prof, c, cool, need) /\ t \in met /\ t \notin cool
               /\ c[t] + 1 >= need[t]
  BY <1>1 DEF Firing, CanFire, Eligible, Reached
<1>3. Reached(t, met, prof, c, cool, need) /\ t \in met /\ f # t => c[t] + 1 < need[t]
  <2> SUFFICES ASSUME Reached(t, met, prof, c, cool, need), t \in met, f # t
               PROVE  c[t] + 1 < need[t]
    OBVIOUS
  <2>1. ~CanFire(t, met, prof, c, cool, need)
    BY <1>1 DEF Firing, Reached
  <2> QED BY <2>1 DEF CanFire, Reached
<1> QED BY <1>1, <1>2, <1>3 DEF CountAfter

-----------------------------------------------------------------------------
(* The log. *)

LogEntry == [met: SUBSET Trigger, open: SUBSET Trigger, fired: Trigger \cup {0}, age: Nat]

(* Remembering an entry puts it last and drops the oldest ones, so that    *)
(* the entries before it are earlier ones shifted by the number dropped.   *)
LEMMA RememberShifts ==
    ASSUME log \in Seq(LogEntry), NEW e \in LogEntry, Remember(e)
    PROVE  /\ log' \in Seq(LogEntry) /\ Len(log') \in Nat
           /\ \E d \in Nat :
                 /\ Len(log') = Len(log) + 1 - d
                 /\ Len(log') > 0 => log'[Len(log')] = e
                 /\ \A i \in 1..(Len(log') - 1) :
                       i + d \in 1..Len(log) /\ log'[i] = log[i + d]
<1> DEFINE all == Append(log, e)
           kept == IF Len(all) > Window THEN Window ELSE Len(all)
           d == Len(all) - kept
<1>1. Len(log) \in Nat
  BY LenProperties
<1>2. /\ all \in Seq(LogEntry) /\ Len(all) = Len(log) + 1
      /\ all[Len(log) + 1] = e /\ \A i \in 1..Len(log) : all[i] = log[i]
  BY AppendProperties
<1>3. log' = SubSeq(all, d + 1, Len(all))
  BY DEF Remember
<1> HIDE DEF all
<1>4. kept \in Nat /\ kept <= Len(all) /\ d \in Nat
  BY <1>1, <1>2, EvaluatorAssumption
<1> HIDE DEF kept
<1>5. /\ log' \in Seq(LogEntry) /\ Len(log') = kept
      /\ \A i \in 1..kept : log'[i] = all[i + d]
  <2>1. \A i \in (d + 1)..Len(all) : all[i] \in LogEntry
    <3>1. all \in [1..Len(all) -> LogEntry]
      BY <1>2, LenProperties
    <3> QED BY <1>1, <1>2, <1>4, <3>1
  <2>2. d + 1 \in Int /\ Len(all) \in Int
    BY <1>1, <1>2, <1>4
  <2> DEFINE b == d + 1
             n == Len(all)
             cut == SubSeq(all, b, n)
  <2>0. b \in Int /\ n \in Int /\ \A i \in b..n : all[i] \in LogEntry
    BY <2>1, <2>2
  <2> HIDE DEF b, n
  <2>3. /\ cut \in Seq(LogEntry)
        /\ Len(cut) = IF b <= n THEN n - b + 1 ELSE 0
        /\ \A i \in 1..(n - b + 1) : cut[i] = all[b + i - 1]
    BY <2>0, SubSeqProperties
  <2>4. n - b + 1 = kept /\ (b <= n <=> kept > 0)
    BY <1>1, <1>2, <1>4 DEF b, n
  <2>5. \A i \in 1..kept : b + i - 1 = i + d
    BY <1>1, <1>2, <1>4 DEF b, n
  <2>6. log' = cut
    BY <1>3 DEF b, n
  <2> HIDE DEF cut, d
  <2>7. cut \in Seq(LogEntry) /\ Len(cut) = kept
    BY <1>4, <2>0, <2>3, <2>4
  <2>8. ASSUME NEW i \in 1..kept PROVE cut[i] = all[i + d]
    <3>1. cut[i] = all[b + i - 1]
      BY <2>3, <2>4
    <3> QED BY <2>5, <3>1
  <2> QED BY <2>6, <2>7, <2>8
<1>6. Len(log') = Len(log) + 1 - d
  BY <1>1, <1>2, <1>4, <1>5
<1>7. Len(log') > 0 => log'[Len(log')] = e
  BY <1>1, <1>2, <1>4, <1>5
<1>8. \A i \in 1..(Len(log') - 1) : i + d \in 1..Len(log) /\ log'[i] = log[i + d]
  <2> TAKE i \in 1..(Len(log') - 1)
  <2>1. i \in 1..kept /\ i + d \in 1..Len(log)
    BY <1>1, <1>2, <1>4, <1>5
  <2> QED BY <1>2, <1>5, <2>1
<1> QED BY <1>4, <1>5, <1>6, <1>7, <1>8

-----------------------------------------------------------------------------
(* The inductive invariant. *)

Judgement == [needed: [Trigger -> Nat \ {0}], cooldown: [Trigger -> 0..LongestCooldown]]

Typed ==
    /\ service \in Samples /\ profile \in ActiveProfile
    /\ when \in [Trigger -> Condition]
    /\ cooldown \in [Trigger -> 0..LongestCooldown]
    /\ count \in [Trigger -> Nat]
    /\ since \in [Trigger -> Nat]
    /\ log \in Seq(LogEntry)
    /\ judged \in Judgement

(* The clocks stay within their limit. *)
Bounded == \A t \in Trigger : since[t] <= LongestCooldown

(* The fire time of a trigger is at least as recent as each firing of it   *)
(* that the log remembers.                                                 *)
SinceLastFire ==
    \A i \in 1..Last : log[i].fired # 0 => since[log[i].fired] <= log[i].age

(* A bad sample of t that did not make it fire. *)
Accumulates(t, i) == ReachedAt(t, i) /\ t \in log[i].met /\ log[i].fired # t

(* Bad samples at the end of the log have been counted. *)
RunCounted ==
    \A t \in Trigger : \A k \in 0..Last :
        (\A i \in (Last - k + 1)..Last : Accumulates(t, i)) => count[t] >= k

(* The evaluations after i that reached t. *)
Later(t, i) == {j \in 1..Last : ReachedAt(t, j) /\ j > i}

(* The last count[t] evaluations that reached t accumulated. *)
CountBacked ==
    \A t \in Trigger : \A i \in 1..Last :
        ReachedAt(t, i) /\ Cardinality(Later(t, i)) < count[t] => Accumulates(t, i)

EvaluatorInv ==
    /\ Typed /\ Bounded /\ SinceLastFire /\ RunCounted /\ CountBacked
    /\ CooldownRespected /\ FiringIsBacked /\ NoMissedFire

-----------------------------------------------------------------------------
(* An evaluation with samples, whatever becomes of the patch. *)

Evaluates(f) ==
    /\ Outcome(f, Met, profile, count, Cooling, Needed)
    /\ count' = CountAfter(Met, profile, count, Cooling, Needed)
    /\ since' = IF f = 0 THEN since ELSE [since EXCEPT ![f] = 0]
    /\ Remember(Entry(f))

ReachedNow(t) == Reached(t, Met, profile, count, Cooling, Needed)

(* What the triggers require and what an evaluation goes by. *)
LEMMA JudgementTyped ==
    ASSUME Typed
    PROVE  /\ Needed \in [Trigger -> Nat] /\ \A t \in Trigger : Needed[t] >= 1
           /\ cooldown \in [Trigger -> Nat]
           /\ [needed |-> Needed, cooldown |-> cooldown] \in Judgement
<1>1. Needed \in [Trigger -> Nat] /\ \A t \in Trigger : Needed[t] >= 1
  BY RequiredPositive DEF Typed, Needed
<1> QED BY <1>1, EvaluatorAssumption DEF Typed, Judgement

(* What it fires is a trigger or none. *)
LEMMA OutcomeTyped ==
    ASSUME NEW f, Evaluates(f)
    PROVE  f \in Trigger \cup {0} /\ (f # 0 => f \in Trigger)
BY DEF Evaluates, Outcome, Firing

(* The counters and fire times after it. *)
LEMMA EvaluatesState ==
    ASSUME Typed, NEW f, Evaluates(f)
    PROVE  /\ count' \in [Trigger -> Nat] /\ since' \in [Trigger -> Nat]
           /\ \A t \in Trigger :
                /\ ~ReachedNow(t) => count'[t] = count[t]
                /\ ReachedNow(t) =>
                      count'[t] = IF t \in Met /\ f # t THEN count[t] + 1 ELSE 0
                /\ f = t => /\ ReachedNow(t) /\ t \in Met
                            /\ since[t] >= cooldown[t] /\ count[t] + 1 >= Needed[t]
                /\ ReachedNow(t) /\ t \in Met /\ f # t
                      => count[t] + 1 < Needed[t]
                /\ since'[t] = IF f = t THEN 0 ELSE since[t]
<1>1. count \in [Trigger -> Nat] /\ since \in [Trigger -> Nat]
  BY DEF Typed
<1>2. count' = CountAfter(Met, profile, count, Cooling, Needed)
  BY DEF Evaluates
<1>0. Needed \in [Trigger -> Nat] /\ cooldown \in [Trigger -> Nat]
  BY JudgementTyped
<1>3. count' \in [Trigger -> Nat]
  BY <1>1, <1>2 DEF CountAfter
<1>4. since' \in [Trigger -> Nat]
  BY <1>1, OutcomeTyped DEF Evaluates
<1>5. ASSUME NEW t \in Trigger
      PROVE  /\ ~ReachedNow(t) => count'[t] = count[t]
             /\ ReachedNow(t) =>
                   count'[t] = IF t \in Met /\ f # t THEN count[t] + 1 ELSE 0
             /\ f = t => /\ ReachedNow(t) /\ t \in Met /\ t \notin Cooling
                         /\ count[t] + 1 >= Needed[t]
             /\ ReachedNow(t) /\ t \in Met /\ f # t => count[t] + 1 < Needed[t]
  BY <1>0, <1>1, <1>2, CountChanges DEF Evaluates, ReachedNow
<1>6. \A t \in Trigger : t \notin Cooling => since[t] >= cooldown[t]
  BY <1>0, <1>1 DEF Cooling
<1>7. \A t \in Trigger : since'[t] = IF f = t THEN 0 ELSE since[t]
  <2>1. \A t \in Trigger : t # 0
    BY TriggerAssumption DEF Trigger
  <2> QED BY <1>1, <2>1, OutcomeTyped DEF Evaluates
<1> QED BY <1>3, <1>4, <1>5, <1>6, <1>7

(* What it puts into the log. *)
LEMMA EntryTyped ==
    ASSUME Typed, NEW f, Evaluates(f)
    PROVE  Entry(f) \in LogEntry
BY OutcomeTyped DEF Typed, Entry, LogEntry, Met, MetBy

(* The log after it: the evaluation last, and what it remembers of before. *)
LEMMA EvaluatesLog ==
    ASSUME Typed, NEW f, Evaluates(f), NEW n, n = Last'
    PROVE  /\ log' \in Seq(LogEntry) /\ n \in Nat /\ Last \in Nat
           /\ n > 0 => /\ log'[n].fired = f /\ log'[n].age = 0
                       /\ \A t \in Trigger : /\ ReachedAt(t, n)' <=> ReachedNow(t)
                                             /\ t \in log'[n].met <=> t \in Met
           /\ \E d \in Nat :
                 /\ n = Last + 1 - d
                 /\ \A i \in 1..(n - 1) : i + d \in 1..Last /\ log'[i] = log[i + d]
<1>1. Entry(f) \in LogEntry
  BY EntryTyped
<1>2. /\ log' \in Seq(LogEntry) /\ n \in Nat
      /\ n > 0 => log'[n] = Entry(f)
      /\ \E d \in Nat :
            /\ n = Last + 1 - d
            /\ \A i \in 1..(n - 1) : i + d \in 1..Last /\ log'[i] = log[i + d]
  BY <1>1, RememberShifts DEF Typed, Evaluates, Last
<1>3. ASSUME n > 0
      PROVE  /\ log'[n].fired = f /\ log'[n].age = 0
             /\ \A t \in Trigger : /\ ReachedAt(t, n)' <=> ReachedNow(t)
                                   /\ t \in log'[n].met <=> t \in Met
  <2>1. /\ log'[n].fired = f /\ log'[n].age = 0 /\ log'[n].met = Met
        /\ log'[n].open = {t \in Trigger : Eligible(t, profile, Cooling)}
    BY <1>2, <1>3 DEF Entry
  <2>2. ASSUME NEW t \in Trigger
        PROVE  ReachedNow(t) <=> Eligible(t, profile, Cooling) /\ (f = 0 \/ f >= t)
    BY ReachesUpToFiring DEF Evaluates, ReachedNow
  <2>3. ASSUME NEW t \in Trigger PROVE ReachedAt(t, n)' <=> ReachedNow(t)
    BY <2>1, <2>2 DEF ReachedAt
  <2> QED BY <2>1, <2>3
<1>4. Last \in Nat
  BY LenProperties DEF Typed, Last
<1> QED BY <1>2, <1>3, <1>4

(* An evaluation keeps the clocks within their limit. *)
LEMMA EvaluatesBounded ==
    ASSUME EvaluatorInv, NEW f, Evaluates(f)
    PROVE  Bounded'
BY EvaluatesState, EvaluatorAssumption DEF EvaluatorInv, Bounded

(* A trigger that fires has not fired for a cooldown, as far as the log    *)
(* goes back, and its fire time is reset.                                  *)
LEMMA EvaluatesCooldown ==
    ASSUME EvaluatorInv, NEW f, Evaluates(f)
    PROVE  SinceLastFire' /\ CooldownRespected'
<1> DEFINE n == Last'
<1>1. Typed /\ SinceLastFire
  BY DEF EvaluatorInv
<1>2. /\ log' \in Seq(LogEntry) /\ n \in Nat /\ Last \in Nat
      /\ n > 0 => log'[n].fired = f /\ log'[n].age = 0
  BY <1>1, EvaluatesLog
<1>3. PICK d \in Nat : /\ n = Last + 1 - d
                       /\ \A i \in 1..(n - 1) : i + d \in 1..Last /\ log'[i] = log[i + d]
  BY <1>1, EvaluatesLog
<1>4. since \in [Trigger -> Nat] /\ since' \in [Trigger -> Nat]
  BY <1>1, EvaluatesState DEF Typed
<1>5. \A t \in Trigger : since'[t] = IF f = t THEN 0 ELSE since[t]
  BY <1>1, EvaluatesState
<1>6. \A i \in 1..Last : log[i] \in LogEntry
  BY <1>1, LenProperties DEF Typed, Last
<1>7. \A i \in 1..n : log'[i] \in LogEntry
  BY <1>2, LenProperties DEF Last
<1> HIDE DEF n
<1>8. ASSUME NEW i \in 1..n, log'[i].fired # 0
      PROVE  since'[log'[i].fired] <= log'[i].age
  <2> DEFINE t == log'[i].fired
  <2>1. t \in Trigger /\ log'[i].age \in Nat
    BY <1>7, <1>8 DEF LogEntry
  <2>2. CASE i = n
    BY <1>2, <1>5, <2>1, <2>2
  <2>3. CASE i # n
    <3>1. i \in 1..(n - 1)
      BY <1>2, <2>3
    <3>2. log'[i] = log[i + d] /\ i + d \in 1..Last
      BY <1>3, <3>1
    <3>3. since[t] <= log'[i].age
      BY <1>1, <1>8, <3>2 DEF SinceLastFire
    <3> HIDE DEF t
    <3> QED BY <1>4, <1>5, <2>1, <3>3 DEF t
  <2> QED BY <2>2, <2>3
<1>9. SinceLastFire'
  BY <1>8 DEF SinceLastFire, n
<1>10. ASSUME n > 0, f # 0, NEW i \in 1..(n - 1), log'[i].fired = f
       PROVE  log'[i].age >= cooldown[f]
  <2>1. f \in Trigger
    BY <1>10, OutcomeTyped
  <2>2. since[f] >= cooldown[f] /\ since[f] \in Nat /\ cooldown[f] \in Nat
    BY <1>1, <1>4, <2>1, EvaluatesState, JudgementTyped
  <2>3. log'[i] = log[i + d] /\ i + d \in 1..Last
    BY <1>3
  <2>4. since[f] <= log'[i].age
    BY <1>1, <1>10, <2>3 DEF SinceLastFire
  <2>5. log'[i].age \in Nat
    BY <1>6, <2>3 DEF LogEntry
  <2> QED BY <2>2, <2>4, <2>5
<1>11. judged'.cooldown = cooldown
  BY DEF Evaluates, Remember
<1>12. CooldownRespected'
  BY <1>2, <1>10, <1>11 DEF CooldownRespected, n
<1> QED BY <1>9, <1>12

(* What a remembered evaluation was is not changed by the next one. *)
LEMMA ShiftedEntries ==
    ASSUME NEW t \in Trigger, NEW i, NEW k, log'[i] = log[k]
    PROVE  (ReachedAt(t, i)' <=> ReachedAt(t, k)) /\ (Accumulates(t, i)' <=> Accumulates(t, k))
BY DEF Accumulates, ReachedAt

(* The bad samples at the end of the log are counted. *)
LEMMA EvaluatesCounted ==
    ASSUME EvaluatorInv, NEW f, Evaluates(f)
    PROVE  RunCounted'
<1>0. PICK n : n = Last'
  OBVIOUS
<1>1. Typed /\ RunCounted
  BY DEF EvaluatorInv
<1>2. /\ n \in Nat /\ Last \in Nat
      /\ n > 0 => /\ log'[n].fired = f
                  /\ \A t \in Trigger : /\ ReachedAt(t, n)' <=> ReachedNow(t)
                                        /\ t \in log'[n].met <=> t \in Met
  BY <1>0, <1>1, EvaluatesLog
<1>3. PICK d \in Nat : /\ n = Last + 1 - d
                       /\ \A i \in 1..(n - 1) : i + d \in 1..Last /\ log'[i] = log[i + d]
  BY <1>0, <1>1, EvaluatesLog
<1>4. count \in [Trigger -> Nat] /\ count' \in [Trigger -> Nat]
  BY <1>1, EvaluatesState DEF Typed
<1>5. ASSUME NEW t \in Trigger, NEW k \in 0..n,
             \A i \in (n - k + 1)..n : Accumulates(t, i)'
      PROVE  count'[t] >= k
  <2>1. CASE k = 0
    BY <1>4, <2>1
  <2>2. CASE k # 0
    <3>1. n > 0 /\ n \in (n - k + 1)..n /\ k - 1 \in 0..Last
      BY <1>2, <1>3, <2>2
    <3>2. Accumulates(t, n)'
      BY <1>5, <3>1
    <3>3. ReachedNow(t) /\ t \in Met /\ f # t
      BY <1>2, <3>1, <3>2 DEF Accumulates
    <3>4. count'[t] = count[t] + 1
      BY <1>1, <3>3, EvaluatesState
    <3>5. ASSUME NEW j \in (Last - (k - 1) + 1)..Last PROVE Accumulates(t, j)
      <4>1. j - d \in 1..(n - 1) /\ j - d \in (n - k + 1)..n /\ (j - d) + d = j
        BY <1>2, <1>3, <3>1
      <4>2. log'[j - d] = log[j] /\ Accumulates(t, j - d)'
        BY <1>3, <1>5, <4>1
      <4> QED BY <4>2, ShiftedEntries
    <3>6. count[t] >= k - 1
      BY <1>1, <3>1, <3>5 DEF RunCounted
    <3> QED BY <1>4, <3>1, <3>4, <3>6
  <2> QED BY <2>1, <2>2
<1> QED BY <1>0, <1>5 DEF RunCounted

(* The evaluations of t after one that is remembered are those before,     *)
(* shifted, and the new one if it reached t.                               *)
LEMMA LaterGrows ==
    ASSUME Typed, NEW f, Evaluates(f), NEW n, n = Last', NEW d \in Nat, n = Last + 1 - d,
           \A i \in 1..(n - 1) : i + d \in 1..Last /\ log'[i] = log[i + d],
           NEW t \in Trigger, NEW i \in 1..(n - 1)
    PROVE  /\ Cardinality(Later(t, i + d)) \in Nat
           /\ Cardinality(Later(t, i)') = IF ReachedNow(t) THEN Cardinality(Later(t, i + d)) + 1
                                          ELSE Cardinality(Later(t, i + d))
<1> DEFINE A == Later(t, i + d)
           B == {j \in 1..(n - 1) : ReachedAt(t, j)' /\ j > i}
<1>1. n \in Nat /\ Last \in Nat /\ (n > 0 => (ReachedAt(t, n)' <=> ReachedNow(t)))
  BY EvaluatesLog
<1>2. A \in SUBSET (1..Last) /\ A \in SUBSET Nat /\ IsFiniteSet(A) /\ Cardinality(A) \in Nat
  <2>1. A \in SUBSET (1..Last) /\ A \in SUBSET Nat
    BY <1>1 DEF Later
  <2>2. IsFiniteSet(1..Last)
    BY <1>1, FS_Interval
  <2> HIDE DEF A
  <2>3. IsFiniteSet(A)
    BY <2>1, <2>2, FS_Subset
  <2> QED BY <2>1, <2>3, FS_CardinalityType
<1>3. IsFiniteSet(B) /\ Cardinality(B) = Cardinality(A)
  <2>1. ASSUME NEW x \in B PROVE x + d \in A
    <3>1. x \in 1..(n - 1) /\ ReachedAt(t, x)' /\ x > i
      OBVIOUS
    <3>2. log'[x] = log[x + d] /\ x + d \in 1..Last /\ x + d > i + d
      BY <1>1, <3>1
    <3>3. ReachedAt(t, x + d)
      BY <3>1, <3>2, ShiftedEntries
    <3> QED BY <3>2, <3>3 DEF Later
  <2>2. ASSUME NEW y \in A PROVE y >= d /\ y - d \in B
    <3>1. y \in 1..Last /\ ReachedAt(t, y) /\ y > i + d
      BY DEF Later
    <3>2. y - d \in 1..(n - 1) /\ y - d > i /\ y >= d /\ (y - d) + d = y
      BY <1>1, <3>1
    <3>3. log'[y - d] = log[y]
      BY <3>2
    <3>4. ReachedAt(t, y - d)'
      BY <3>1, <3>3, ShiftedEntries
    <3> QED BY <3>2, <3>4
  <2>3. B \in SUBSET Nat
    BY <1>1
  <2> HIDE DEF A, B
  <2> QED BY <1>2, <2>1, <2>2, <2>3, ShiftedCardinality
<1>4. n \notin B /\ n \in 1..n /\ n > i /\ 1..n = (1..(n - 1)) \cup {n}
  BY <1>1
<1>5. Later(t, i)' = IF ReachedNow(t) THEN B \cup {n} ELSE B
  <2>1. Later(t, i)' = {j \in 1..n : ReachedAt(t, j)' /\ j > i}
    BY DEF Later
  <2>2. ReachedAt(t, n)' <=> ReachedNow(t)
    BY <1>1
  <2> QED BY <1>4, <2>1, <2>2
<1> HIDE DEF A, B
<1>6. IsFiniteSet(B \cup {n}) /\ Cardinality(B \cup {n}) = Cardinality(B) + 1
  BY <1>3, <1>4, FS_AddElement
<1> QED BY <1>2, <1>3, <1>5, <1>6 DEF A

(* The counter is backed, and so is a firing. *)
LEMMA EvaluatesBacked ==
    ASSUME EvaluatorInv, NEW f, Evaluates(f)
    PROVE  CountBacked' /\ FiringIsBacked'
<1>0. PICK n : n = Last'
  OBVIOUS
<1>1. Typed /\ CountBacked
  BY DEF EvaluatorInv
<1>2. /\ n \in Nat /\ Last \in Nat
      /\ n > 0 => /\ log'[n].fired = f
                  /\ \A t \in Trigger : /\ ReachedAt(t, n)' <=> ReachedNow(t)
                                        /\ t \in log'[n].met <=> t \in Met
  BY <1>0, <1>1, EvaluatesLog
<1>3. PICK d \in Nat : /\ n = Last + 1 - d
                       /\ \A i \in 1..(n - 1) : i + d \in 1..Last /\ log'[i] = log[i + d]
  BY <1>0, <1>1, EvaluatesLog
<1>4. count \in [Trigger -> Nat] /\ count' \in [Trigger -> Nat]
  BY <1>1, EvaluatesState DEF Typed
<1>5. ASSUME NEW t \in Trigger, NEW i \in 1..(n - 1)
      PROVE  /\ Cardinality(Later(t, i + d)) \in Nat
             /\ Cardinality(Later(t, i)') = IF ReachedNow(t)
                                            THEN Cardinality(Later(t, i + d)) + 1
                                            ELSE Cardinality(Later(t, i + d))
  BY <1>0, <1>1, <1>3, LaterGrows
<1>6. ASSUME NEW t \in Trigger, NEW i \in 1..(n - 1), ReachedAt(t, i)',
             Cardinality(Later(t, i + d)) < count[t]
      PROVE  Accumulates(t, i)'
  <2>1. log'[i] = log[i + d] /\ i + d \in 1..Last
    BY <1>3
  <2>2. ReachedAt(t, i + d)
    BY <1>6, <2>1, ShiftedEntries
  <2>3. Accumulates(t, i + d)
    BY <1>1, <1>6, <2>1, <2>2 DEF CountBacked
  <2> QED BY <2>1, <2>3, ShiftedEntries
<1>7. CountBacked'
  <2> SUFFICES ASSUME NEW t \in Trigger, NEW i \in 1..n, ReachedAt(t, i)',
                      Cardinality(Later(t, i)') < count'[t]
               PROVE  Accumulates(t, i)'
    BY <1>0 DEF CountBacked
  <2>1. /\ ~ReachedNow(t) => count'[t] = count[t]
        /\ ReachedNow(t) =>
              count'[t] = IF t \in Met /\ f # t THEN count[t] + 1 ELSE 0
    BY <1>1, EvaluatesState
  <2>2. CASE i = n
    <3>1. Later(t, n)' = {}
      BY <1>0, <1>2 DEF Later
    <3>2. Cardinality(Later(t, n)') = 0
      BY <3>1, FS_EmptySet
    <3>3. count'[t] # 0 /\ ReachedNow(t) /\ n > 0
      BY <1>2, <1>4, <2>2, <3>2
    <3>4. t \in Met /\ f # t
      BY <2>1, <3>3
    <3> QED BY <1>2, <2>2, <3>3, <3>4 DEF Accumulates
  <2>3. CASE i # n
    <3>1. i \in 1..(n - 1)
      BY <1>2, <2>3
    <3>2. Cardinality(Later(t, i + d)) < count[t]
      BY <1>4, <1>5, <2>1, <3>1
    <3> QED BY <1>6, <3>1, <3>2
  <2> QED BY <2>2, <2>3
<1>8. ASSUME n > 0, f # 0, NEW i \in 1..n, ReachedAt(f, i)', Cardinality(Later(f, i)') < Needed[f]
      PROVE  f \in log'[i].met /\ (i < n => log'[i].fired # f)
  <2>1. f \in Trigger
    BY <1>8, OutcomeTyped
  <2>2. ReachedNow(f) /\ f \in Met /\ count[f] + 1 >= Needed[f]
    BY <1>1, <2>1, EvaluatesState
  <2>3. CASE i = n
    BY <1>2, <1>8, <2>1, <2>2, <2>3
  <2>4. CASE i # n
    <3>1. i \in 1..(n - 1)
      BY <1>2, <2>4
    <3>2. Cardinality(Later(f, i + d)) < count[f]
      <4>1. Needed[f] \in Nat /\ count[f] \in Nat
        BY <1>1, <1>4, <2>1, JudgementTyped
      <4> QED BY <1>5, <1>8, <2>1, <2>2, <3>1, <4>1
    <3>3. Accumulates(f, i)'
      BY <1>6, <1>8, <2>1, <3>1, <3>2
    <3> QED BY <3>3 DEF Accumulates
  <2> QED BY <2>3, <2>4
<1>9. FiringIsBacked'
  <2> SUFFICES ASSUME n > 0, log'[n].fired # 0,
                      NEW i \in {k \in 1..n : ReachedAt(f, k)'},
                      Cardinality({j \in {k \in 1..n : ReachedAt(f, k)'} : j > i}) < Needed[f]
               PROVE  f \in log'[i].met /\ (i < n => log'[i].fired # f)
    <3>1. judged'.needed = Needed
      BY DEF Evaluates, Remember
    <3> QED BY <1>0, <1>2, <3>1 DEF FiringIsBacked
  <2>1. {j \in {k \in 1..n : ReachedAt(f, k)'} : j > i} = Later(f, i)'
    BY <1>0 DEF Later
  <2>2. f # 0
    BY <1>2
  <2> QED BY <1>8, <2>1, <2>2
<1> QED BY <1>7, <1>9

(* Enough bad samples in a row make the trigger fire: otherwise each of    *)
(* them was counted, and the last one found the counter high enough.       *)
LEMMA EvaluatesMissesNone ==
    ASSUME EvaluatorInv, NEW f, Evaluates(f)
    PROVE  NoMissedFire'
<1>0. PICK n : n = Last'
  OBVIOUS
<1>1. Typed /\ judged'.needed = Needed
  BY DEF EvaluatorInv, Evaluates, Remember
<1>2. /\ n \in Nat
      /\ n > 0 => /\ log'[n].fired = f
                  /\ \A t \in Trigger : /\ ReachedAt(t, n)' <=> ReachedNow(t)
                                        /\ t \in log'[n].met <=> t \in Met
  BY <1>0, <1>1, EvaluatesLog
<1> SUFFICES ASSUME NEW t \in Trigger, NEW k, k = Needed[t], n >= k,
                    \A i \in (n - k + 1)..n : ReachedAt(t, i)' /\ t \in log'[i].met,
                    \A i \in (n - k + 1)..n : log'[i].fired # t
             PROVE  FALSE
  BY <1>0, <1>1 DEF NoMissedFire
<1>3. k \in Nat /\ k >= 1
  BY <1>1, JudgementTyped
<1>4. \A i \in (n - k + 1)..n : Accumulates(t, i)'
  BY DEF Accumulates
<1>5. count'[t] >= k
  <2>1. RunCounted'
    BY EvaluatesCounted
  <2>2. k \in 0..Last'
    BY <1>0, <1>2, <1>3
  <2>3. (\A i \in (Last' - k + 1)..Last' : Accumulates(t, i)') => count'[t] >= k
    BY <2>1, <2>2, Zenon DEF RunCounted
  <2> QED BY <1>0, <1>4, <2>3
<1>6. n \in (n - k + 1)..n /\ n > 0
  BY <1>2, <1>3
<1>7. ReachedNow(t) /\ t \in Met /\ f # t
  BY <1>2, <1>6
<1>8. count'[t] = count[t] + 1 /\ count[t] + 1 < k /\ count[t] \in Nat
  BY <1>1, <1>7, EvaluatesState DEF Typed
<1> QED BY <1>3, <1>5, <1>8

(* An evaluation keeps the invariant. *)
LEMMA EvaluatesKeepsInv ==
    ASSUME EvaluatorInv, NEW f, Evaluates(f), UNCHANGED <<service, when, cooldown>>,
           profile' \in ActiveProfile
    PROVE  EvaluatorInv'
<1>1. Typed'
  <2>1. Typed
    BY DEF EvaluatorInv
  <2>2. log' \in Seq(LogEntry)
    BY <2>1, EvaluatesLog
  <2>3. judged' \in Judgement
    BY <2>1, JudgementTyped DEF Evaluates, Remember
  <2> QED BY <2>1, <2>2, <2>3, EvaluatesState DEF Typed
<1> QED BY <1>1, EvaluatesBounded, EvaluatesCooldown, EvaluatesCounted, EvaluatesBacked,
           EvaluatesMissesNone
        DEF EvaluatorInv

-----------------------------------------------------------------------------
(* The other steps. *)

(* Time passes: clocks and ages go on, each to its limit. *)
LEMMA TickEffects ==
    ASSUME Typed, Tick
    PROVE  /\ log' \in Seq(LogEntry) /\ Last \in Nat /\ Last' = Last
           /\ since' \in [Trigger -> Nat]
           /\ \A t \in Trigger :
                since'[t] = IF since[t] < LongestCooldown THEN since[t] + 1 ELSE since[t]
           /\ \A i \in 1..Last :
                /\ log[i].fired \in Trigger \cup {0} /\ log[i].age \in Nat
                /\ log'[i].met = log[i].met /\ log'[i].open = log[i].open
                /\ log'[i].fired = log[i].fired
                /\ log'[i].age = IF log[i].fired # 0 /\ log[i].age < LongestCooldown
                                 THEN log[i].age + 1 ELSE log[i].age
<1> DEFINE older(i) == [log[i] EXCEPT !.age = IF log[i].fired # 0 /\ @ < LongestCooldown
                                              THEN @ + 1 ELSE @]
<1>1. log \in Seq(LogEntry) /\ since \in [Trigger -> Nat]
  BY DEF Typed
<1>2. Last \in Nat /\ DOMAIN log = 1..Last /\ log \in [1..Last -> LogEntry]
  BY <1>1, LenProperties DEF Last
<1>3. log' = [i \in 1..Last |-> older(i)]
  BY <1>2 DEF Tick
<1>4. ASSUME NEW i \in 1..Last
      PROVE  /\ older(i) \in LogEntry
             /\ log[i].fired \in Trigger \cup {0} /\ log[i].age \in Nat
             /\ older(i).met = log[i].met /\ older(i).open = log[i].open
             /\ older(i).fired = log[i].fired
             /\ older(i).age = IF log[i].fired # 0 /\ log[i].age < LongestCooldown
                               THEN log[i].age + 1 ELSE log[i].age
  <2>1. log[i] \in LogEntry
    BY <1>2
  <2> QED BY <2>1, EvaluatorAssumption DEF LogEntry
<1> HIDE DEF older
<1>5. log' \in Seq(LogEntry) /\ Len(log') = Last
  BY <1>2, <1>3, <1>4
<1>6. Last' = Last
  BY <1>5 DEF Last
<1>7. \A i \in 1..Last : log'[i] = older(i)
  BY <1>3
<1>8. /\ since' \in [Trigger -> Nat]
      /\ \A t \in Trigger :
           since'[t] = IF since[t] < LongestCooldown THEN since[t] + 1 ELSE since[t]
  BY <1>1, EvaluatorAssumption DEF Tick
<1> HIDE DEF Last
<1> QED BY <1>2, <1>4, <1>5, <1>6, <1>7, <1>8

(* Steps after which every remembered evaluation reads as before. *)
LEMMA SameEvaluations ==
    ASSUME EvaluatorInv, count' = count, judged' = judged, Last' = Last,
           \A i \in 1..Last : /\ log'[i].met = log[i].met /\ log'[i].open = log[i].open
                              /\ log'[i].fired = log[i].fired
    PROVE  RunCounted' /\ CountBacked' /\ FiringIsBacked' /\ NoMissedFire'
<1>0. PICK n : n = Last
  OBVIOUS
<1>1. n = Last' /\ n \in Nat
  BY <1>0, LenProperties DEF EvaluatorInv, Typed, Last
<1>2. ASSUME NEW t \in Trigger, NEW i \in 1..n
      PROVE  (ReachedAt(t, i)' <=> ReachedAt(t, i)) /\ (Accumulates(t, i)' <=> Accumulates(t, i))
  BY <1>0 DEF ReachedAt, Accumulates
<1>3. RunCounted'
  <2> SUFFICES ASSUME NEW t \in Trigger, NEW k \in 0..n,
                      \A i \in (n - k + 1)..n : Accumulates(t, i)'
               PROVE  count'[t] >= k
    BY <1>1 DEF RunCounted
  <2>1. (n - k + 1)..n \subseteq 1..n
    BY <1>1
  <2>2. \A i \in (n - k + 1)..n : Accumulates(t, i)
    BY <1>2, <2>1
  <2> QED BY <1>0, <2>2 DEF EvaluatorInv, RunCounted
<1>4. ASSUME NEW t \in Trigger, NEW i \in 1..n PROVE Later(t, i)' = Later(t, i)
  BY <1>0, <1>1, <1>2 DEF Later
<1>5. CountBacked'
  <2> SUFFICES ASSUME NEW t \in Trigger, NEW i \in 1..n, ReachedAt(t, i)',
                      Cardinality(Later(t, i)') < count'[t]
               PROVE  Accumulates(t, i)'
    BY <1>1 DEF CountBacked
  <2> QED BY <1>0, <1>2, <1>4 DEF EvaluatorInv, CountBacked
<1>6. FiringIsBacked'
  <2>0. PICK t : t = log[n].fired
    OBVIOUS
  <2> DEFINE seen == {k \in 1..n : ReachedAt(t, k)}
  <2> SUFFICES ASSUME n > 0, t # 0, NEW i \in {k \in 1..n : ReachedAt(t, k)'},
                      Cardinality({j \in {k \in 1..n : ReachedAt(t, k)'} : j > i}) < judged.needed[t]
               PROVE  t \in log'[i].met /\ (i < n => log'[i].fired # t)
    BY <1>0, <1>1, <2>0 DEF FiringIsBacked
  <2>1. t \in Trigger
    <3>1. log[n] \in LogEntry
      BY <1>0, <1>1, LenProperties DEF EvaluatorInv, Typed, Last
    <3> QED BY <2>0, <3>1 DEF LogEntry
  <2>2. {k \in 1..n : ReachedAt(t, k)'} = seen
    BY <1>2, <2>1
  <2>3. t \in log[i].met /\ (i < n => log[i].fired # t)
    BY <1>0, <2>0, <2>2 DEF EvaluatorInv, FiringIsBacked
  <2> QED BY <1>0, <2>3
<1>7. NoMissedFire'
  <2> SUFFICES ASSUME NEW t \in Trigger, NEW k, k = judged.needed[t], n >= k,
                      \A i \in (n - k + 1)..n : ReachedAt(t, i)' /\ t \in log'[i].met
               PROVE  \E i \in (n - k + 1)..n : log'[i].fired = t
    BY <1>1 DEF NoMissedFire
  <2>1. k \in Nat
    BY DEF EvaluatorInv, Typed, Judgement
  <2>2. (n - k + 1)..n \subseteq 1..n
    BY <1>1, <2>1
  <2>3. \A i \in (n - k + 1)..n : ReachedAt(t, i) /\ t \in log[i].met
    BY <1>0, <1>2, <2>2
  <2>4. \E i \in (n - k + 1)..n : log[i].fired = t
    BY <1>0, <2>3 DEF EvaluatorInv, NoMissedFire
  <2> QED BY <1>0, <2>2, <2>4
<1> QED BY <1>3, <1>5, <1>6, <1>7

(* Time keeps the invariant. *)
LEMMA TickKeepsInv ==
    ASSUME EvaluatorInv, Tick
    PROVE  EvaluatorInv'
<1>0. PICK n : n = Last
  OBVIOUS
<1>1. Typed /\ Bounded /\ SinceLastFire /\ CooldownRespected
  BY DEF EvaluatorInv
<1>2. UNCHANGED <<service, profile, when, cooldown, count, judged>>
  BY DEF Tick, spec
<1>3. /\ log' \in Seq(LogEntry) /\ n \in Nat /\ Last' = n
      /\ since' \in [Trigger -> Nat]
      /\ \A t \in Trigger :
           since'[t] = IF since[t] < LongestCooldown THEN since[t] + 1 ELSE since[t]
      /\ \A i \in 1..n :
           /\ log[i].fired \in Trigger \cup {0} /\ log[i].age \in Nat
           /\ log'[i].met = log[i].met /\ log'[i].open = log[i].open
           /\ log'[i].fired = log[i].fired
           /\ log'[i].age = IF log[i].fired # 0 /\ log[i].age < LongestCooldown
                            THEN log[i].age + 1 ELSE log[i].age
  BY <1>0, <1>1, TickEffects
<1>4. Typed'
  BY <1>1, <1>2, <1>3 DEF Typed
<1>5. since \in [Trigger -> Nat] /\ LongestCooldown \in Nat
  BY <1>1, EvaluatorAssumption DEF Typed
<1>6. Bounded'
  BY <1>1, <1>3, <1>5 DEF Bounded
<1>7. ASSUME NEW i \in 1..n, log'[i].fired # 0 PROVE since'[log'[i].fired] <= log'[i].age
  <2>0. PICK t : t = log[i].fired
    OBVIOUS
  <2>1. t \in Trigger /\ log'[i].fired = t /\ t # 0 /\ log[i].age \in Nat
    BY <1>3, <1>7, <2>0
  <2>2. since[t] <= log[i].age /\ since[t] <= LongestCooldown
    BY <1>0, <1>1, <1>7, <2>0, <2>1 DEF SinceLastFire, Bounded
  <2>3. since[t] \in Nat
    BY <1>5, <2>1
  <2>4. since'[t] = IF since[t] < LongestCooldown THEN since[t] + 1 ELSE since[t]
    BY <1>3, <2>1
  <2>5. log'[i].age = IF log[i].age < LongestCooldown THEN log[i].age + 1 ELSE log[i].age
    BY <1>3, <2>0, <2>1
  <2> QED BY <1>5, <2>1, <2>2, <2>3, <2>4, <2>5
<1>8. SinceLastFire'
  BY <1>3, <1>7 DEF SinceLastFire
<1>9. CooldownRespected'
  <2> SUFFICES ASSUME n > 0, log'[n].age = 0, log'[n].fired # 0, NEW i \in 1..(n - 1)
               PROVE  log'[i].age >= judged.cooldown[log'[n].fired]
    BY <1>2, <1>3 DEF CooldownRespected
  <2>1. /\ log[n].fired \in Trigger /\ log'[n].fired = log[n].fired /\ log[n].fired # 0
        /\ log[n].age \in Nat
    BY <1>3
  <2>2. LongestCooldown = 0
    <3>1. log'[n].age = IF log[n].age < LongestCooldown THEN log[n].age + 1 ELSE log[n].age
      BY <1>3, <2>1
    <3> QED BY <1>5, <2>1, <3>1
  <2>3. judged.cooldown[log'[n].fired] \in 0..0
    BY <1>1, <2>1, <2>2 DEF Typed, Judgement
  <2>4. i \in 1..n
    BY <1>3
  <2>5. log'[i].age \in Nat
    BY <1>3, <1>5, <2>4
  <2> QED BY <2>3, <2>5
<1>10. RunCounted' /\ CountBacked' /\ FiringIsBacked' /\ NoMissedFire'
  BY <1>0, <1>2, <1>3, SameEvaluations
<1> QED BY <1>4, <1>6, <1>8, <1>9, <1>10 DEF EvaluatorInv

(* The state of an operator that has just started. *)
Fresh ==
    /\ service \in Samples /\ profile \in ActiveProfile
    /\ when \in [Trigger -> Condition] /\ cooldown \in [Trigger -> 0..LongestCooldown]
    /\ count = [t \in Trigger |-> 0] /\ since = [t \in Trigger |-> LongestCooldown]
    /\ log = <<>>
    /\ judged \in Judgement

(* It satisfies the invariant. *)
LEMMA FreshInv == Fresh => EvaluatorInv
<1> SUFFICES ASSUME Fresh PROVE EvaluatorInv
  OBVIOUS
<1> USE DEF Fresh
<1>1. log \in Seq(LogEntry) /\ Last = 0
  BY EmptySeq DEF Last
<1>2. Typed
  BY <1>1, EvaluatorAssumption DEF Typed
<1>3. Bounded
  BY EvaluatorAssumption DEF Bounded
<1>4. RunCounted
  BY <1>1 DEF RunCounted
<1>5. NoMissedFire
  BY <1>1 DEF NoMissedFire, Judgement
<1> QED BY <1>1, <1>2, <1>3, <1>4, <1>5
        DEF EvaluatorInv, SinceLastFire, CountBacked, CooldownRespected, FiringIsBacked

(* The invariant is inductive. *)
LEMMA NextKeepsInv == EvaluatorInv /\ [Next]_vars => EvaluatorInv'
<1> SUFFICES ASSUME EvaluatorInv, [Next]_vars PROVE EvaluatorInv'
  OBVIOUS
<1>1. CASE EvaluateQuiet
  <2>1. Evaluates(0) /\ UNCHANGED <<service, profile, when, cooldown>>
    BY <1>1 DEF EvaluateQuiet, Evaluates, Outcome, Fired, spec
  <2> QED BY <2>1, EvaluatesKeepsInv DEF EvaluatorInv, Typed
<1>2. ASSUME NEW t \in Trigger, NEW patched \in BOOLEAN, EvaluateFire(t, patched)
      PROVE  EvaluatorInv'
  <2>1. t # 0
    BY TriggerAssumption DEF Trigger
  <2>2. Evaluates(t) /\ UNCHANGED <<service, when, cooldown>>
    BY <1>2, <2>1 DEF EvaluateFire, Evaluates, Outcome, Fired
  <2>3. profile' \in ActiveProfile
    BY <1>2, TriggerAssumption DEF EvaluateFire, EvaluatorInv, Typed, ActiveProfile
  <2> QED BY <2>2, <2>3, EvaluatesKeepsInv
<1>3. ASSUME UNCHANGED <<count, since, log, judged>>, service' \in Samples,
             profile' \in ActiveProfile, when' \in [Trigger -> Condition],
             cooldown' \in [Trigger -> 0..LongestCooldown]
      PROVE  EvaluatorInv'
  <2>1. Last' = Last
    BY <1>3 DEF Last
  <2>2. RunCounted' /\ CountBacked' /\ FiringIsBacked' /\ NoMissedFire'
    BY <1>3, <2>1, SameEvaluations
  <2>3. Typed' /\ Bounded' /\ SinceLastFire' /\ CooldownRespected'
    BY <1>3, <2>1 DEF EvaluatorInv, Typed, Bounded, SinceLastFire, CooldownRespected
  <2> QED BY <2>2, <2>3 DEF EvaluatorInv
<1>4. CASE UNCHANGED vars \/ EvaluateNoSamples
  BY <1>3, <1>4 DEF EvaluateNoSamples, vars, spec, EvaluatorInv, Typed
<1>5. ASSUME NEW p \in ActiveProfile, EditProfile(p) PROVE EvaluatorInv'
  BY <1>3, <1>5 DEF EditProfile, EvaluatorInv, Typed
<1>6. ASSUME NEW s \in Samples, ServiceChanges(s) PROVE EvaluatorInv'
  BY <1>3, <1>6 DEF ServiceChanges, spec, EvaluatorInv, Typed
<1>7. ASSUME NEW e \in TriggerEdits, EditTrigger(e) PROVE EvaluatorInv'
  <2>1. e \in [trigger: Trigger, when: Condition, cooldown: 0..LongestCooldown]
    BY EvaluatorAssumption
  <2>2. when' \in [Trigger -> Condition] /\ cooldown' \in [Trigger -> 0..LongestCooldown]
    BY <1>7, <2>1 DEF EditTrigger, EvaluatorInv, Typed
  <2> QED BY <1>3, <1>7, <2>2 DEF EditTrigger, EvaluatorInv, Typed
<1>8. CASE Tick
  BY <1>8, TickKeepsInv
<1>9. CASE Restart
  <2>1. Fresh'
    BY <1>9 DEF Restart, Fresh, spec, EvaluatorInv, Typed
  <2> QED BY <2>1, FreshInv, PTL
<1> QED BY <1>1, <1>2, <1>4, <1>5, <1>6, <1>7, <1>8, <1>9 DEF Next, Evaluate

(* The invariant holds throughout. *)
LEMMA InvHolds == Spec => []EvaluatorInv
<1>1. Init => Fresh
  <2> SUFFICES ASSUME Init PROVE Fresh
    OBVIOUS
  <2>1. when \in [Trigger -> Condition] /\ cooldown \in [Trigger -> 0..LongestCooldown]
    BY TriggerAssumption, EvaluatorAssumption DEF Init
  <2>2. Needed \in [Trigger -> Nat] /\ \A t \in Trigger : Needed[t] >= 1
    BY <2>1, RequiredPositive DEF Needed
  <2> QED BY <2>1, <2>2 DEF Init, Fresh, Judgement
<1> QED BY <1>1, FreshInv, NextKeepsInv, PTL DEF Spec

-----------------------------------------------------------------------------
(* What follows from it. *)

(* Two firings of one trigger are at least its cooldown apart, for every   *)
(* list of triggers and cooldowns, however many evaluations the log        *)
(* remembers, and whatever edits (of the cooldown too) and failed patches  *)
(* come between (evaluator.go:89-93).                                      *)
THEOREM CooldownHolds == Spec => []CooldownRespected
<1>1. EvaluatorInv => CooldownRespected
  BY DEF EvaluatorInv
<1> QED BY <1>1, InvHolds, PTL

(* A firing is backed by as many bad samples as the trigger requires when  *)
(* it fires, among the evaluations that reached it, none of them spent     *)
(* before, whatever edits of its condition come between (evaluator.go:     *)
(* 95-105).                                                                *)
THEOREM FiringsAreBacked == Spec => []FiringIsBacked
<1>1. EvaluatorInv => FiringIsBacked
  BY DEF EvaluatorInv
<1> QED BY <1>1, InvHolds, PTL

(* As many bad samples in a row as a trigger requires at the last of them  *)
(* make it fire, however many other triggers gain samples meanwhile and    *)
(* whatever it required before (evaluator.go:97-105, 118-129).             *)
THEOREM NoFireIsMissed == Spec => []NoMissedFire
<1>1. EvaluatorInv => NoMissedFire
  BY DEF EvaluatorInv
<1> QED BY <1>1, InvHolds, PTL
=============================================================================
