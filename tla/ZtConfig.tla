------------------------------ MODULE ZtConfig ------------------------------
(***************************************************************************)
(* zt-controller/app/config.py, docker-compose.yml's environment block and  *)
(* the experiment cells of the Makefile, as functions: which flags and      *)
(* thresholds the controller runs with, given the mode, the operator's .env *)
(* file and what the make target sets for the cell.                         *)
(*                                                                          *)
(* An environment is a function from variables to values; Unset is a        *)
(* variable that is not there.  Thresholds are in hundredths.               *)
(***************************************************************************)
EXTENDS Integers

Unset == "<unset>"
Empty == ""

(* The variables of the six flags and of the oracle switch. *)
FlagVars == {"ENFORCE_DPOP", "CHECK_DEVICE_BINDING", "ENABLE_TELEMETRY",
             "ENABLE_RISK_POLICY", "ENABLE_VELOCITY", "PROXY_PASSTHROUGH",
             "ORACLE_ATTACK_CONTEXT"}

-----------------------------------------------------------------------------
(* config.py *)

(* _MODES: the flags that are on; any other mode behaves as P. *)
ModeDefaults(mode) ==
  CASE mode = "B0" -> {"PROXY_PASSTHROUGH"}
    [] mode = "B1" -> {"ENFORCE_DPOP", "CHECK_DEVICE_BINDING"}
    [] OTHER       -> {"ENFORCE_DPOP", "CHECK_DEVICE_BINDING", "ENABLE_TELEMETRY",
                       "ENABLE_RISK_POLICY", "ENABLE_VELOCITY"}

Truthy == {"1", "true", "yes"}

(* _bool: an empty value counts as unset. *)
BoolEmptyIsFalse(value, default) ==   \* mutant: only a missing value is unset
  IF value = Unset THEN default ELSE value \in Truthy
Bool(value, default) ==
  IF value \in {Unset, Empty} THEN default ELSE value \in Truthy

(* _float: what is no number falls back to the default. *)
Float(value, default) == IF value \in Int THEN value ELSE default

(* The flags of a controller of this mode under environment env. *)
Effective(mode, env) ==
  LET on(v) == Bool(env[v], v \in ModeDefaults(mode))
  IN [dpop        |-> on("ENFORCE_DPOP"),
      binding     |-> on("CHECK_DEVICE_BINDING"),
      telemetry   |-> on("ENABLE_TELEMETRY"),
      risk        |-> on("ENABLE_RISK_POLICY"),
      velocity    |-> on("ENABLE_VELOCITY"),
      passthrough |-> on("PROXY_PASSTHROUGH"),
      oracle      |-> on("ORACLE_ATTACK_CONTEXT")]

Limits(allow, deny) == [allow |-> Float(allow, 40), deny |-> Float(deny, 70)]

-----------------------------------------------------------------------------
(* docker compose: what `make` puts in the shell's environment shadows the  *)
(* .env file, an empty value included.                                      *)
ShellOrFile(shell, file) == IF shell = Unset THEN file ELSE shell

ContainerEnv(shell, file) ==
  [v \in FlagVars |-> ShellOrFile(shell[v], file[v])]

-----------------------------------------------------------------------------
(* The cells of the Makefile: the target, ZT_MODE, the flag variables that  *)
(* the target sets, tau_allow, whether the suite sends the oracle tag, A7's *)
(* pace in twentieths of a second, and the attacks.                         *)
Primary == {"A1", "A2", "A3", "A4", "A5", "A6"}
Keep    == [v \in FlagVars |-> Unset]

Cell(target, mode, shell, allow, tag, pace, attacks) ==
  [target |-> target, mode |-> mode, shell |-> shell, allow |-> allow,
   tag |-> tag, pace |-> pace, attacks |-> attacks]

AttackCell(mode) == Cell("attacks", mode, Keep, 40, FALSE, 50, Primary)

OracleCell(mode) ==
  Cell("attacks-oracle", mode, [Keep EXCEPT !["ORACLE_ATTACK_CONTEXT"] = "true"],
       40, TRUE, 50, Primary)

AdaptiveCell(mode, allow, pace) ==
  Cell("attacks-adaptive", mode, Keep, allow, FALSE, pace, {"A7"})

(* The ablation target sets all three of its variables, two of them empty.  *)
Ablated == {"CHECK_DEVICE_BINDING", "ENABLE_TELEMETRY", "ENABLE_VELOCITY"}
AblationShell(off) ==
  [v \in FlagVars |-> IF v \notin Ablated THEN Unset
                      ELSE IF v = off THEN "false" ELSE Empty]
AblationCell(mode, off) ==
  Cell("ablation", mode, AblationShell(off), 40, FALSE, 50, Primary)

(* `make experiments` runs the load generator and no attack. *)
LoadCell(mode) == Cell("experiments", mode, Keep, 40, FALSE, 50, {})

Cells ==
  [B0 |-> AttackCell("B0"), B1 |-> AttackCell("B1"), P |-> AttackCell("P"),
   B1_oracle |-> OracleCell("B1"), P_oracle |-> OracleCell("P"),
   B1_adaptive |-> AdaptiveCell("B1", 40, 50),
   P_adaptive |-> AdaptiveCell("P", 40, 50),
   P_adaptive_slow |-> AdaptiveCell("P", 40, 80),
   P_adaptive_tau030 |-> AdaptiveCell("P", 30, 50),
   P_adaptive_slow_tau030 |-> AdaptiveCell("P", 30, 80),
   exp_B0 |-> LoadCell("B0"), exp_B1 |-> LoadCell("B1"), exp_P |-> LoadCell("P"),
   abl_P |-> AblationCell("P", "none"),
   abl_B1 |-> AblationCell("B1", "none"),
   P_minus_device_binding |-> AblationCell("P", "CHECK_DEVICE_BINDING"),
   P_minus_context |-> AblationCell("P", "ENABLE_TELEMETRY"),
   P_minus_velocity |-> AblationCell("P", "ENABLE_VELOCITY")]

CellNames == DOMAIN Cells

(* ZT_RUN_LABEL: the mode, or the name of a cell that changes a flag.       *)
LabelOf(cell) ==
  LET c == Cells[cell]
  IN IF c.target \in {"attacks", "experiments"} \/ cell \in {"abl_P", "abl_B1"}
     THEN c.mode ELSE cell

(* The flags of a cell's controller when the .env file is `file`. *)
CellFlags(cell, file) ==
  Effective(Cells[cell].mode, ContainerEnv(Cells[cell].shell, file))
=============================================================================
