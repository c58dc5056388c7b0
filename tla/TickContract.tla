---------------------------- MODULE TickContract ----------------------------
(***************************************************************************)
(* What Runtime.tick promises its pipeline, whatever executes the steps    *)
(* (core/runtime.py): the levels of the DAG run one after another, a level *)
(* starting only when every job of the one before it has been recorded,    *)
(* and a job is recorded once, as a success or as a failure. A scheduler   *)
(* that ends may leave a level unfinished, and never takes it up again.    *)
(***************************************************************************)
CONSTANT Jobs

VARIABLES outstanding,  \* jobs of the level under way without a record yet
          launched,     \* jobs of this and of earlier levels
          recorded      \* Jobs -> status of the run record

contractVars == <<outstanding, launched, recorded>>

ContractInit ==
    /\ outstanding = {}
    /\ launched = {}
    /\ recorded = [j \in Jobs |-> "none"]

LaunchLevel ==
    /\ outstanding = {}
    /\ \E batch \in (SUBSET (Jobs \ launched)) \ {{}} :
          /\ outstanding' = batch
          /\ launched' = launched \cup batch
    /\ UNCHANGED recorded

RecordJob(j) ==
    /\ j \in outstanding
    /\ recorded[j] = "none"
    /\ outstanding' = outstanding \ {j}
    /\ \E status \in {"success", "failed"} :
          recorded' = [recorded EXCEPT ![j] = status]
    /\ UNCHANGED launched

AbandonLevel ==
    /\ outstanding' = {}
    /\ UNCHANGED <<launched, recorded>>

ContractNext ==
    \/ LaunchLevel
    \/ \E j \in Jobs : RecordJob(j)
    \/ AbandonLevel

ContractSpec == ContractInit /\ [][ContractNext]_contractVars
=============================================================================
