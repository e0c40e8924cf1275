------------------------- MODULE FilterHealth_proofs -------------------------
(***************************************************************************)
(* Theorems about the condition FilterEffective, for any number of edits,  *)
(* failed status patches and restarts.                                     *)
(***************************************************************************)
EXTENDS FilterHealthProps, SequenceTheorems, TLAPS

-----------------------------------------------------------------------------
(* Type correctness. The proofs use of the threshold that it is positive.  *)

(* The threshold of the alarm is a positive number. *)
LEMMA ThresholdPositive == FilterInactiveThreshold \in Nat /\ FilterInactiveThreshold > 0
BY DEF FilterInactiveThreshold

(* The length of the log is a number. *)
LEMMA LogTyped ==
    ASSUME TypeOK
    PROVE  log \in Seq(Kind) /\ Len(log) \in Nat /\ Len(log) <= FilterInactiveThreshold
BY LenProperties DEF TypeOK

(* A log that has just been started. *)
LEMMA EmptyLog == <<>> \in Seq(Kind) /\ Len(<<>>) <= FilterInactiveThreshold
<1>1. <<>> \in Seq(Kind) /\ Len(<<>>) = 0
  BY EmptySeq
<1> QED BY <1>1, ThresholdPositive

(* A sample a Reconcile reads is a kind of signal. *)
LEMMA SampledTyped ==
    ASSUME TypeOK, NEW sample \in Sampled
    PROVE  sample \in Kind
BY DEF TypeOK, Sampled, Kind, NoSample

(* The counter stays within its threshold, at which it saturates. *)
LEMMA InactiveAfterTyped ==
    ASSUME TypeOK, NEW sample
    PROVE  InactiveAfter(sample) \in 0..FilterInactiveThreshold
BY ThresholdPositive DEF TypeOK, InactiveAfter

(* A judged sample is appended to the log, and the oldest one is dropped   *)
(* when the log is full.                                                   *)
LEMMA RememberShifts ==
    ASSUME TypeOK, NEW sample \in Kind, Remember(sample), Judged(sample)
    PROVE  LET full == Len(log) >= FilterInactiveThreshold IN
           /\ log' \in Seq(Kind)
           /\ Len(log') = IF full THEN Len(log) ELSE Len(log) + 1
           /\ log'[Len(log')] = sample
           /\ \A i \in 1..(Len(log') - 1) : log'[i] = IF full THEN log[i + 1] ELSE log[i]
<1> DEFINE all == Append(log, sample)
<1>1. log \in Seq(Kind) /\ Len(log) \in Nat /\ Len(log) <= FilterInactiveThreshold
  BY LogTyped
<1>2. /\ all \in Seq(Kind) /\ all # <<>> /\ Len(all) = Len(log) + 1
      /\ all[Len(log) + 1] = sample
      /\ \A i \in 1..Len(log) : all[i] = log[i]
  BY <1>1, AppendProperties
<1>3. /\ Tail(all) \in Seq(Kind) /\ Len(Tail(all)) = Len(all) - 1
      /\ \A i \in 1..Len(Tail(all)) : Tail(all)[i] = all[i + 1]
  BY <1>2, HeadTailProperties
<1> HIDE DEF all
<1>4. log' = IF Len(all) > FilterInactiveThreshold THEN Tail(all) ELSE all
  BY DEF Remember, all
<1>5. CASE Len(log) >= FilterInactiveThreshold
  <2>1. log' = Tail(all) /\ Len(log) > 0
    BY <1>1, <1>2, <1>4, <1>5, ThresholdPositive
  <2> QED BY <1>1, <1>2, <1>3, <1>5, <2>1
<1>6. CASE ~(Len(log) >= FilterInactiveThreshold)
  <2>1. log' = all
    BY <1>1, <1>2, <1>4, <1>6, ThresholdPositive
  <2> QED BY <1>1, <1>2, <1>6, <2>1
<1> QED BY <1>5, <1>6

(* What a Reconcile would write is a status. *)
LEMMA StatusAfterTyped ==
    ASSUME TypeOK, NEW sample
    PROVE  StatusAfter(sample) \in [effective: {"none", "True", "False"},
                                    collecting: {"none", "True", "False"}, shed: BOOLEAN]
BY DEF TypeOK, StatusAfter, EffectiveAfter, ShedRate

(* A Reconcile keeps all state typed, whether its status patch succeeds or not. *)
LEMMA ReportTyped ==
    ASSUME TypeOK, NEW sample \in Sampled, NEW patched \in BOOLEAN, Report(sample, patched)
    PROVE  TypeOK'
<1>1. sample \in Kind /\ Remember(sample)
  BY SampledTyped DEF Report
<1>2. log' \in Seq(Kind) /\ Len(log') <= FilterInactiveThreshold
  <2>1. CASE Judged(sample)
    BY <1>1, <2>1, RememberShifts, LogTyped, ThresholdPositive
  <2>2. CASE ~Judged(sample)
    BY <1>1, <2>2, LogTyped DEF Remember
  <2> QED BY <2>1, <2>2
<1>3. inactive' \in 0..FilterInactiveThreshold
  BY InactiveAfterTyped DEF Report
<1>4. status' \in [effective: {"none", "True", "False"},
                   collecting: {"none", "True", "False"}, shed: BOOLEAN]
  BY StatusAfterTyped DEF Report, TypeOK
<1>5. faults' \in 0..MaxFaults
  BY FilterHealthAssumption DEF Report, TypeOK
<1>6. echo' \in BOOLEAN /\ reported' \in BOOLEAN
  BY DEF Report, TypeOK
<1> QED BY <1>2, <1>3, <1>4, <1>5, <1>6 DEF Report, TypeOK

(* The initial states are typed. *)
LEMMA InitTyped == Init => TypeOK
<1> SUFFICES ASSUME Init PROVE TypeOK
  OBVIOUS
<1>1. log \in Seq(Kind) /\ Len(log) <= FilterInactiveThreshold
  BY EmptyLog DEF Init
<1>2. inactive \in 0..FilterInactiveThreshold
  BY ThresholdPositive DEF Init
<1>3. edits \in 0..MaxEdits /\ faults \in 0..MaxFaults
  BY FilterHealthAssumption DEF Init
<1> QED BY <1>1, <1>2, <1>3 DEF Init, TypeOK

(* Every step keeps the types. *)
LEMMA NextTyped == TypeOK /\ [Next]_vars => TypeOK'
<1> SUFFICES ASSUME TypeOK, [Next]_vars PROVE TypeOK'
  OBVIOUS
<1>1. CASE Reconcile
  BY <1>1, ReportTyped DEF Reconcile
<1>2. CASE StatusPatchFails
  BY <1>2, ReportTyped DEF StatusPatchFails
<1>3. CASE PollerSends
  BY <1>3 DEF PollerSends, TypeOK
<1>4. ASSUME NEW k \in Kind, TrafficChanges(k) PROVE TypeOK'
  BY <1>4 DEF TrafficChanges, TypeOK
<1>5. ASSUME NEW s \in [admission: BOOLEAN, dryRun: BOOLEAN], EditSpec(s) PROVE TypeOK'
  BY <1>5, FilterHealthAssumption DEF EditSpec, TypeOK
<1>6. CASE Restart
  <2>1. log' \in Seq(Kind) /\ Len(log') <= FilterInactiveThreshold
    BY <1>6, EmptyLog DEF Restart
  <2>2. inactive' \in 0..FilterInactiveThreshold
    BY <1>6, ThresholdPositive DEF Restart
  <2>3. faults' \in 0..MaxFaults
    BY <1>6, FilterHealthAssumption DEF Restart, TypeOK
  <2> QED BY <1>6, <2>1, <2>2, <2>3 DEF Restart, TypeOK
<1>7. CASE UNCHANGED vars
  BY <1>7 DEF vars, TypeOK
<1> QED BY <1>1, <1>2, <1>3, <1>4, <1>5, <1>6, <1>7 DEF Next

(* Every state of the operator and its surroundings has the types that     *)
(* TypeOK says: the counter saturates, the log stays short.                *)
THEOREM TypeCorrect == Spec => []TypeOK
BY InitTyped, NextTyped, PTL DEF Spec

-----------------------------------------------------------------------------
(* The counter and the samples behind it. *)

(* The counter is the length of the run of inactive samples that the log   *)
(* ends with: what the code keeps as a number, told by the samples.        *)
EndsInRun(n, s) ==
    /\ n <= Len(s)
    /\ \A i \in 1..Len(s) : i > Len(s) - n => s[i] = "inactive"
    /\ n < Len(s) => s[Len(s) - n] # "inactive"

CounterIsRun == EndsInRun(inactive, log)

(* A Reconcile counts what it logs. *)
LEMMA ReportCounts ==
    ASSUME TypeOK, CounterIsRun, NEW sample \in Sampled, NEW patched \in BOOLEAN,
           Report(sample, patched)
    PROVE  CounterIsRun'
<1>1. sample \in Kind /\ Remember(sample)
  BY SampledTyped DEF Report
<1>2. inactive' = InactiveAfter(sample)
  BY DEF Report
<1>3. CASE ~Judged(sample)
  BY <1>1, <1>2, <1>3 DEF Remember, InactiveAfter, CounterIsRun, EndsInRun
<1>4. CASE Judged(sample)
  <2>1. LET full == Len(log) >= FilterInactiveThreshold IN
        /\ log' \in Seq(Kind)
        /\ Len(log') = IF full THEN Len(log) ELSE Len(log) + 1
        /\ log'[Len(log')] = sample
        /\ \A i \in 1..(Len(log') - 1) : log'[i] = IF full THEN log[i + 1] ELSE log[i]
    BY <1>1, <1>4, RememberShifts
  <2>2. /\ Len(log) \in Nat /\ Len(log) <= FilterInactiveThreshold
        /\ inactive \in Nat /\ inactive <= FilterInactiveThreshold
    BY LogTyped, ThresholdPositive DEF TypeOK
  <2>3. CASE sample # "inactive"
    BY <1>2, <1>4, <2>1, <2>2, <2>3, ThresholdPositive DEF InactiveAfter, CounterIsRun, EndsInRun
  <2>4. CASE sample = "inactive"
    <3>1. inactive' = IF inactive < FilterInactiveThreshold THEN inactive + 1 ELSE inactive
      BY <1>2, <1>4, <2>4 DEF InactiveAfter
    <3>2. CASE Len(log) >= FilterInactiveThreshold
      <4>1. Len(log') = Len(log) /\ \A i \in 1..(Len(log) - 1) : log'[i] = log[i + 1]
        BY <2>1, <2>2, <3>2
      <4>2. inactive' <= Len(log')
        BY <2>2, <3>1, <3>2, <4>1, ThresholdPositive DEF CounterIsRun, EndsInRun
      <4>3. ASSUME NEW i \in 1..Len(log'), i > Len(log') - inactive' PROVE log'[i] = "inactive"
        BY <2>1, <2>2, <2>4, <3>1, <3>2, <4>1, <4>3, ThresholdPositive DEF CounterIsRun, EndsInRun
      <4>4. ASSUME inactive' < Len(log') PROVE log'[Len(log') - inactive'] # "inactive"
        <5>1. inactive' < Len(log)
          BY <4>1, <4>4
        <5>2. inactive' = inactive + 1 /\ inactive < Len(log) - 1
          BY <2>2, <3>1, <3>2, <5>1, ThresholdPositive
        <5>3. log'[Len(log) - inactive - 1] = log[Len(log) - inactive - 1 + 1]
          BY <2>2, <4>1, <5>2
        <5> QED BY <2>2, <4>1, <5>2, <5>3 DEF CounterIsRun, EndsInRun
      <4> QED BY <4>2, <4>3, <4>4 DEF CounterIsRun, EndsInRun
    <3>3. CASE ~(Len(log) >= FilterInactiveThreshold)
      BY <2>1, <2>2, <2>4, <3>1, <3>3, ThresholdPositive DEF CounterIsRun, EndsInRun
    <3> QED BY <3>2, <3>3
  <2> QED BY <2>3, <2>4
<1> QED BY <1>3, <1>4

(* The evidence is complete exactly when the counter is at its threshold. *)
LEMMA EvidenceIsCount ==
    ASSUME NEW s \in Seq(Kind), Len(s) <= FilterInactiveThreshold,
           NEW n \in 0..FilterInactiveThreshold, EndsInRun(n, s)
    PROVE  s = [i \in 1..FilterInactiveThreshold |-> "inactive"]
               <=> n >= FilterInactiveThreshold
<1>1. /\ Len(s) \in Nat
      /\ n \in Nat /\ n <= FilterInactiveThreshold
  BY ThresholdPositive
<1>2. ASSUME s = [i \in 1..FilterInactiveThreshold |-> "inactive"]
      PROVE  n >= FilterInactiveThreshold
  <2>1. /\ Len(s) = FilterInactiveThreshold
        /\ \A i \in 1..FilterInactiveThreshold : s[i] = "inactive"
    BY <1>1, <1>2, ThresholdPositive
  <2> QED BY <1>1, <2>1, ThresholdPositive DEF EndsInRun
<1>3. ASSUME n >= FilterInactiveThreshold
      PROVE  s = [i \in 1..FilterInactiveThreshold |-> "inactive"]
  <2>1. /\ Len(s) = FilterInactiveThreshold
        /\ \A i \in 1..FilterInactiveThreshold : s[i] = "inactive"
    BY <1>1, <1>3, ThresholdPositive DEF EndsInRun
  <2> QED BY <1>1, <2>1
<1> QED BY <1>2, <1>3

-----------------------------------------------------------------------------
(* The verdict and what the status says of it. *)

(* The inductive invariant: VerdictShown and SheddingIsEffective speak of  *)
(* the log, the code of the counter; CounterIsRun is the bridge.           *)
HealthInv == TypeOK /\ CounterIsRun /\ VerdictShown /\ SheddingIsEffective

(* A sample is judged by the counter it leads to. *)
LEMMA ReportVerdict ==
    ASSUME TypeOK, CounterIsRun, NEW sample \in Sampled, NEW patched \in BOOLEAN,
           Report(sample, patched), Judged(sample), patched
    PROVE  /\ Evidence' => status'.effective = "False"
           /\ sample = "ejecting" => status'.effective = "True"
           /\ status'.effective = "False" /\ status.effective # "False" => Evidence'
<1>1. TypeOK' /\ CounterIsRun'
  BY ReportTyped, ReportCounts
<1>2. Evidence' <=> inactive' >= FilterInactiveThreshold
  BY <1>1, EvidenceIsCount DEF TypeOK, CounterIsRun, Evidence
<1>3. inactive' = InactiveAfter(sample) /\ status'.effective = EffectiveAfter(sample)
  BY DEF Report, StatusAfter
<1>4. sample = "ejecting" => ~(InactiveAfter(sample) >= FilterInactiveThreshold)
  BY ThresholdPositive DEF InactiveAfter
<1> QED BY <1>2, <1>3, <1>4 DEF EffectiveAfter

(* The invariant survives every step. *)
LEMMA HealthStep == HealthInv /\ [Next]_vars => HealthInv'
<1> SUFFICES ASSUME HealthInv, [Next]_vars PROVE HealthInv'
  OBVIOUS
<1>1. TypeOK /\ CounterIsRun /\ VerdictShown /\ SheddingIsEffective
  BY DEF HealthInv
<1>2. ASSUME NEW sample \in Sampled, NEW patched \in BOOLEAN, Report(sample, patched)
      PROVE  HealthInv'
  <2>1. TypeOK' /\ CounterIsRun'
    BY <1>1, <1>2, ReportTyped, ReportCounts
  <2>2. sample \in Kind /\ Remember(sample)
    BY <1>1, <1>2, SampledTyped DEF Report
  <2>3. CASE Judged(sample) /\ patched
    <3>1. log' # <<>> /\ log'[Len(log')] = "ejecting" => sample = "ejecting"
      BY <1>1, <2>2, <2>3, RememberShifts
    <3>2. /\ Evidence' => status'.effective = "False"
          /\ sample = "ejecting" => status'.effective = "True"
      BY <1>1, <1>2, <2>3, ReportVerdict
    <3>3. status'.shed => sample = "ejecting"
      BY <1>2, <2>3 DEF Report, StatusAfter, ShedRate
    <3> QED BY <2>1, <3>1, <3>2, <3>3 DEF HealthInv, VerdictShown, SheddingIsEffective
  <2>4. CASE Judged(sample) /\ ~patched
    <3>1. ~reported' /\ status' = status
      BY <1>2, <2>4 DEF Report
    <3> QED BY <1>1, <2>1, <3>1 DEF HealthInv, VerdictShown, SheddingIsEffective
  <2>5. CASE ~Judged(sample)
    <3>1. log' = log /\ reported' = reported
      BY <1>2, <2>2, <2>5 DEF Report, Remember
    <3>2. status'.effective = status.effective /\ (status'.shed => status.shed)
      BY <1>2, <2>5 DEF Report, StatusAfter, EffectiveAfter, ShedRate, Judged
    <3> QED BY <1>1, <2>1, <3>1, <3>2
            DEF HealthInv, VerdictShown, SheddingIsEffective, Evidence
  <2> QED BY <2>3, <2>4, <2>5
<1>3. CASE Reconcile \/ StatusPatchFails
  BY <1>2, <1>3 DEF Reconcile, StatusPatchFails
<1>4. ASSUME UNCHANGED <<inactive, status, log, reported>>, TypeOK' PROVE HealthInv'
  BY <1>1, <1>4
  DEF HealthInv, CounterIsRun, EndsInRun, VerdictShown, Evidence, SheddingIsEffective
<1>5. CASE PollerSends \/ (\E k \in Kind : TrafficChanges(k)) \/ UNCHANGED vars
           \/ (\E s \in [admission: BOOLEAN, dryRun: BOOLEAN] : EditSpec(s))
  <2>1. TypeOK'
    BY <1>1, <1>5, NextTyped DEF Next
  <2>2. UNCHANGED <<inactive, status, log, reported>>
    BY <1>5 DEF PollerSends, TrafficChanges, EditSpec, vars
  <2> QED BY <1>4, <2>1, <2>2
<1>6. CASE Restart
  <2>1. TypeOK'
    BY <1>1, <1>6, NextTyped DEF Next
  <2>2. inactive' = 0 /\ log' = <<>> /\ ~reported' /\ status' = status
    BY <1>6 DEF Restart
  <2>3. EndsInRun(0, <<>>)
    BY EmptySeq DEF EndsInRun
  <2> QED BY <1>1, <2>1, <2>2, <2>3
          DEF HealthInv, CounterIsRun, VerdictShown, SheddingIsEffective
<1> QED BY <1>3, <1>5, <1>6 DEF Next

(* The invariant holds in every reachable state. *)
LEMMA HealthInvariant == Spec => []HealthInv
<1>1. Init => HealthInv
  <2> SUFFICES ASSUME Init PROVE HealthInv
    OBVIOUS
  <2>1. TypeOK
    BY InitTyped
  <2>2. inactive = 0 /\ log = <<>> /\ ~reported /\ ~status.shed
    BY DEF Init
  <2>3. EndsInRun(0, <<>>)
    BY EmptySeq DEF EndsInRun
  <2> QED BY <2>1, <2>2, <2>3 DEF HealthInv, CounterIsRun, VerdictShown, SheddingIsEffective
<1> QED BY <1>1, HealthStep, PTL DEF Spec

(* The status shows the verdict on the newest judged sample, unless its    *)
(* patch failed.                                                           *)
THEOREM VerdictIsShown == Spec => []VerdictShown
<1>1. HealthInv => VerdictShown
  BY DEF HealthInv
<1> QED BY <1>1, HealthInvariant, PTL

(* A policy that reports rejected requests reports an effective filter. *)
THEOREM SheddingAgrees == Spec => []SheddingIsEffective
<1>1. HealthInv => SheddingIsEffective
  BY DEF HealthInv
<1> QED BY <1>1, HealthInvariant, PTL

(* FilterEffective turns False only when the last samples this process has *)
(* judged are all inactive, as many as the threshold asks for.             *)
THEOREM AlarmIsBacked == Spec => AlarmBacked
<1>1. HealthInv /\ [Next]_vars
          => [status'.effective = "False" /\ status.effective # "False" => Evidence']_vars
  <2> SUFFICES ASSUME HealthInv, Next, status'.effective = "False", status.effective # "False"
               PROVE  Evidence'
    OBVIOUS
  <2>1. PICK sample \in Sampled : Report(sample, TRUE)
    BY DEF Next, Reconcile, StatusPatchFails, Report, PollerSends, TrafficChanges, EditSpec,
           Restart
  <2>2. Judged(sample)
    BY <2>1 DEF Report, StatusAfter, EffectiveAfter
  <2> QED BY <2>1, <2>2, ReportVerdict DEF HealthInv
<1> QED BY <1>1, HealthInvariant, PTL DEF Spec, AlarmBacked
=============================================================================
