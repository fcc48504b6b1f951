------------------------------- MODULE Tables -------------------------------
(***************************************************************************)
(* The tables of analysis/make_figures.py as operators over what the        *)
(* testbed wrote: the controller's records and the attack suite's summary.  *)
(*                                                                          *)
(* A record carries                                                         *)
(*   run      : [target, cell], the two parts of the run id                 *)
(*   label    : the run label                                               *)
(*   attack   : the attack id, NotAttack when no attack sent the request    *)
(*   profile  : the context profile the client declared                     *)
(*   decision, checks, risk, rules : what the controller decided, and why   *)
(*   ts       : when the record was built                                   *)
(* A summary row carries config, attack, successes, attempts.               *)
(* A rate is given as its numerator and denominator.                        *)
(*                                                                          *)
(* A selection of records or rows keeps their positions: it is a function   *)
(* on some of the positions of the sequence that it selects from.           *)
(***************************************************************************)
EXTENDS Integers, Sequences, FiniteSets
Fns == INSTANCE Functions

NotAttack == ""

Size(recs) == Cardinality(DOMAIN recs)
Count(recs, Test(_)) == Cardinality({i \in DOMAIN recs : Test(recs[i])})
Where(recs, Test(_)) == Fns!RestrictValues(recs, Test)

SumOf(rows, Value(_)) == Fns!SumFunction([i \in DOMAIN rows |-> Value(rows[i])])

-----------------------------------------------------------------------------
(* Warm-up *)

(* The first time stamp of a run among the given records. *)
RunStart(recs, run) ==
  LET stamps == {recs[i].ts : i \in {k \in DOMAIN recs : recs[k].run = run}}
  IN CHOOSE t \in stamps : \A u \in stamps : t <= u

DropNothing(recs, span) == recs   \* mutant: warm-up is excluded nowhere

(* _drop_warmup_window: the first `span` time units of each run go.         *)
DropWarmup(recs, span) ==
  Where(recs, LAMBDA r : r.ts >= RunStart(recs, r.run) + span)

(* _legit: no attack, no harness warm-up, and no start-up of a run.         *)
Legit(recs, target, span) ==
  DropWarmup(Where(recs, LAMBDA r :
               /\ r.attack = NotAttack
               /\ r.profile \in {"stable", "drift"}
               /\ r.run.target = target), span)

-----------------------------------------------------------------------------
(* Tables over the attack summaries *)

ResultsOf(rows, attack, config) ==
  Where(rows, LAMBDA r : r.attack = attack /\ r.config = config)

(* A cell of tables 1, 1b, 5 and 9: successes of attempts. *)
Outcome(rows, attack, config) ==
  LET sub == ResultsOf(rows, attack, config)
  IN [k |-> SumOf(sub, LAMBDA r : r.successes),
      n |-> SumOf(sub, LAMBDA r : r.attempts)]

-----------------------------------------------------------------------------
(* Tables over the controller's records *)

ProfileOf(recs, label, profile) ==
  Where(recs, LAMBDA r :
    r.label = label /\ (profile = "all" \/ r.profile = profile))

(* Tables 2 and 5: challenges and denials of legitimate requests. *)
FalseChallenge(legit, label, profile) ==
  LET sub == ProfileOf(legit, label, profile)
  IN [n          |-> Size(sub),
      challenges |-> Count(sub, LAMBDA r : r.decision = "CHALLENGE"),
      denies     |-> Count(sub, LAMBDA r : r.decision = "DENY")]

(* _hard_blocked: a check of stage 1 or 2 refused the request. *)
HardBlocked(r) ==
  \/ ~r.checks.tokenValid \/ ~r.checks.dpopValid
  \/ r.checks.jtiReplayed \/ ~r.checks.jktMatch

BlockedAbove(r, tau) == HardBlocked(r) \/ r.risk > tau   \* mutant: > for >=

(* Table 6: would the request be refused with tau as the allow threshold? *)
Blocked(r, tau) == HardBlocked(r) \/ r.risk >= tau

Sweep(recs, tau) == Count(recs, LAMBDA r : Blocked(r, tau))

AttackRecords(recs, label, target, attack) ==
  Where(recs, LAMBDA r :
    r.label = label /\ r.run.target = target /\ r.attack = attack)

(* Tables 7 and 9: how many of the requests a rule fired on, and the sum of *)
(* their scores.                                                            *)
Fired(recs, rule) == Count(recs, LAMBDA r : rule \in r.rules)
RiskSum(recs) == SumOf(recs, LAMBDA r : r.risk)
=============================================================================
