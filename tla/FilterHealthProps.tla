-------------------------- MODULE FilterHealthProps --------------------------
(***************************************************************************)
(* What the status says of the admission control filter.                   *)
(***************************************************************************)
EXTENDS FilterHealth

TypeOK ==
    /\ traffic \in Kind
    /\ pending \in Kind \cup {NoSample}
    /\ spec \in [admission: BOOLEAN, dryRun: BOOLEAN]
    /\ inactive \in 0..FilterInactiveThreshold
    /\ status \in [effective: {"none", "True", "False"}, collecting: {"none", "True", "False"},
                   shed: BOOLEAN]
    /\ echo \in BOOLEAN /\ reported \in BOOLEAN
    /\ edits \in 0..MaxEdits /\ faults \in 0..MaxFaults
    /\ log \in Seq(Kind) /\ Len(log) <= FilterInactiveThreshold

-----------------------------------------------------------------------------
Evidence == log = [i \in 1..FilterInactiveThreshold |-> "inactive"]

(* FilterEffective turns False only on three samples in a row, among those *)
(* a running operator has judged, in which the filter should have acted    *)
(* and did not: samples before a restart do not count, samples whose       *)
(* status patch failed do (controller.go:360-382).                         *)
AlarmBacked == [][status'.effective = "False" /\ status.effective # "False" => Evidence']_vars

(* The status shows the verdict on the newest judged sample, unless its    *)
(* patch failed: after three inactive ones in a row the condition is       *)
(* False, also if the patch that should have said so first failed, and     *)
(* after one with ejections it is not False, whatever scrapes failed and   *)
(* edits came since (controller.go:366-394).                               *)
VerdictShown ==
    reported =>
        /\ Evidence => status.effective = "False"
        /\ log # <<>> /\ log[Len(log)] = "ejecting" => status.effective # "False"

(* FilterEffective disambiguates shedRateNow (README.md:471): a policy     *)
(* that reports rejected requests has the condition True, never an alarm   *)
(* left from before (controller.go:296, 383-391, 494-508).                 *)
SheddingIsEffective == status.shed => status.effective = "True"

-----------------------------------------------------------------------------
Counts == spec.admission /\ ~spec.dryRun

(* An echo whose scrape shows no requests. *)
EmptyEcho == Reconcile /\ echo /\ inactive # 0 /\ inactive' = 0

(* The condition settles on what goes on: a filter that never acts while   *)
(* the service keeps needing it is reported, and ejections that go on end  *)
(* the alarm, whatever restarts and failed patches came before             *)
(* (controller.go:347-349, 383-391). The first takes that the Reconciles   *)
(* the status patches start see requests: one that sees none starts the    *)
(* count again.                                                            *)
ConditionSettles ==
    /\ <>[](traffic = "inactive" /\ Counts) /\ <>[][~EmptyEcho]_vars
           => <>[](status.effective = "False")
    /\ <>[](traffic = "ejecting" /\ Counts) => <>[](status.effective = "True")
=============================================================================
