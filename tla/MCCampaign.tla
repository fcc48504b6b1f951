------------------------------ MODULE MCCampaign ------------------------------
(***************************************************************************)
(* Campaigns for model-checking Campaign.                                   *)
(***************************************************************************)
EXTENDS Campaign

MCPlan == [t \in {"attacks", "experiments"} |->
             IF t = "attacks" THEN <<"B1", "P">> ELSE <<"exp_P">>]

MCAllPlan ==
  [t \in {"attacks", "ablation", "attacks-oracle", "attacks-adaptive", "experiments"} |->
     CASE t = "attacks"        -> <<"B0", "B1", "P">>
       [] t = "experiments"    -> <<"exp_B0", "exp_B1", "exp_P">>
       [] t = "attacks-oracle" -> <<"B1_oracle", "P_oracle">>
       [] t = "attacks-adaptive" ->
            <<"B1_adaptive", "P_adaptive", "P_adaptive_slow", "P_adaptive_tau030",
              "P_adaptive_slow_tau030">>
       [] t = "ablation"       -> <<"abl_P", "P_minus_device_binding",
                                         "P_minus_context", "P_minus_velocity", "abl_B1">>]

MCEnvFiles == [FlagVars -> {Unset, Empty}] \cup
              {[Keep EXCEPT ![v] = "false"] : v \in Ablated}

(* Interrupted and started again, with failures and requests at any time.   *)
MCTroubled ==
  [plan : {MCPlan}, envFile : {Keep}, outDir : {DataDir},
   invocations : {3}, requests : {4}, failures : {2}]

(* Every cell, for every .env file, without requests. *)
MCEveryCell ==
  [plan : {MCAllPlan}, envFile : MCEnvFiles, outDir : {DataDir},
   invocations : {1}, requests : {0}, failures : {0}]

(* The outputs are removed from another directory than the records are in.  *)
MCElsewhere ==
  [plan : {MCPlan}, envFile : {Keep}, outDir : {"elsewhere"},
   invocations : {2}, requests : {2}, failures : {1}]

MCCampaigns == MCTroubled \cup MCEveryCell \cup MCElsewhere
=============================================================================
