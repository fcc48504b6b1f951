------------------------- MODULE ControllerProofs -------------------------
(***************************************************************************)
(* Proofs about the request pipeline, for any number of requests, subjects  *)
(* and configurations.                                                      *)
(***************************************************************************)
EXTENDS Controller, TLAPS

(* What the operators of RiskPolicy promise, for all scores and thresholds. *)

LEMMA ScoreRange ==
  ASSUME NEW f, NEW c, NEW k, NEW s, NEW d
  PROVE  Score(f, c, k, s, d) \in 0..100
BY DEF Score, Cap, TotalPenalty, Penalty

LEMMA FromOpaDecides == ASSUME NEW a PROVE FromOpa(a) \in Decision
BY DEF FromOpa, Decision

(* A request that stages 1 and 2 let through meets no hard rule of zt.rego   *)
(* and not R1.                                                               *)
LEMMA AdmittedPreempts ==
  ASSUME NEW f, f.dpop \in BOOLEAN, f.binding \in BOOLEAN,
         NEW c \in Checks, Admitted(f, c)
  PROVE  ~DenyHard(f, c) /\ ~R1(f, c)
BY DEF Admitted, DenyHard, R1, Checks

(* An ALLOW obtained from OPA means that the score is below both thresholds,  *)
(* in whichever order they are configured.                                   *)
LEMMA OpaAllow ==
  ASSUME NEW f, NEW c, NEW r \in Int, NEW l, l.allow \in Int, l.deny \in Int,
         FromOpa(RegoAnswer(f, c, r, l)) = "ALLOW"
  PROVE  r < l.allow /\ r < l.deny
<1> DEFINE actions == RegoActions(f, c, r, l)
           single == CHOOSE a \in Decision : actions = {a}
<1>1. \E a \in Decision : actions = {a}
  BY DEF FromOpa, RegoAnswer, EvalConflict, Decision
<1>2. actions = {single} /\ single \in Decision /\ RegoAnswer(f, c, r, l) = single
  BY <1>1 DEF RegoAnswer
<1>3. "ALLOW" \in actions /\ "DENY" \notin actions
  BY <1>2 DEF FromOpa
<1> QED
  BY <1>3 DEF RegoActions, Decision

-----------------------------------------------------------------------------

(* What the operators of the pipeline return. *)
LEMMA ChecksTyped ==
  ASSUME cfg \in Config, NEW i
  PROVE  ChecksOf(i) \in Checks /\ NoChecks \in Checks
BY ConfigAssumption DEF ChecksOf, NoChecks, Checks

LEMMA FailedChecksTyped ==
  ASSUME NEW i
  PROVE  [tokenValid |-> TRUE, dpopValid |-> FALSE,
          jtiReplayed |-> ReplayFlag(i), jktMatch |-> FALSE] \in Checks
<1>1. ReplayFlag(i) \in BOOLEAN
  BY DEF ReplayFlag
<1> QED
  BY <1>1 DEF Checks

LEMMA ObservedTyped ==
  ASSUME registry \in [Subject -> SUBSET Keys], NEW i \in Input, TokenValid(i)
  PROVE  NowRegistry(i) \in [Subject -> SUBSET Keys]
<1>1. i.token.jkt \in Keys
  BY DEF TokenValid, Keys
<1> QED
  BY <1>1 DEF NowRegistry, Observed

(* Finish keeps the types of what it writes. *)
LEMMA FinishTyped ==
  ASSUME TypeOK, NEW r \in Request, NEW st \in Status, NEW d \in Decision,
         NEW c \in Checks, Finish(r, st, d, c)
  PROVE  /\ pc' \in [Request -> Place]
         /\ status' \in [Request -> Status]
         /\ audit' \in [Request -> Seq(Record)]
<1>1. pc' \in [Request -> Place] /\ status' \in [Request -> Status]
  BY DEF TypeOK, Finish, Place
<1>2. [decision |-> d, checks |-> c, flags |-> cfg] \in Record
  BY DEF TypeOK, Record
<1>3. Append(audit[r], [decision |-> d, checks |-> c, flags |-> cfg]) \in Seq(Record)
  BY <1>2 DEF TypeOK
<1>4. audit' \in [Request -> Seq(Record)]
  BY <1>3 DEF TypeOK, Finish
<1> QED
  BY <1>1, <1>4

(* The part of a step that follows the signing keys keeps the types. *)
LEMMA VerifyTyped ==
  ASSUME TypeOK, NEW r \in Request, NEW i \in Input, Verify(r, i),
         cfg' = cfg, keysWarm' \in BOOLEAN, input' \in [Request -> Input]
  PROVE  TypeOK'
<1> USE DEF TypeOK, trust
<1>1. CASE RefuseToken(r, i)
  <2>1. Finish(r, 401, "DENY", NoChecks)
    BY <1>1 DEF RefuseToken
  <2>2. "DENY" \in Decision /\ 401 \in Status /\ NoChecks \in Checks
    BY ChecksTyped DEF Decision, Status
  <2> QED
    BY <1>1, <2>1, <2>2, FinishTyped DEF RefuseToken
<1>2. CASE RefuseProof(r, i)
  <2> DEFINE c == [tokenValid |-> TRUE, dpopValid |-> FALSE,
                   jtiReplayed |-> ReplayFlag(i), jktMatch |-> FALSE]
  <2>1. Finish(r, 401, "DENY", c)
    BY <1>2 DEF RefuseProof
  <2>2. "DENY" \in Decision /\ 401 \in Status /\ c \in Checks
    BY FailedChecksTyped DEF Decision, Status
  <2> HIDE DEF c
  <2>3. /\ pc' \in [Request -> Place]
        /\ status' \in [Request -> Status]
        /\ audit' \in [Request -> Seq(Record)]
    BY <2>1, <2>2, FinishTyped
  <2>4. UNCHANGED <<registry, admitted, checks, risk, decision, contacted>>
    BY <1>2 DEF RefuseProof
  <2> QED
    BY <2>3, <2>4
<1>3. CASE Admit(r, i)
  <2>1. registry' \in [Subject -> SUBSET Keys]
    BY <1>3, ObservedTyped DEF Admit
  <2>2. checks' \in [Request -> Checks]
    BY <1>3, ChecksTyped DEF Admit
  <2>3. risk' \in [Request -> 0..100]
    <3> DEFINE sc == Score(cfg, ChecksOf(i), KnownFor(i), SignalsFor(i), i.declared)
    <3>1. sc \in 0..100
      BY ScoreRange
    <3>2. risk' = [risk EXCEPT ![r] = sc] \/ risk' = risk
      BY <1>3 DEF Admit
    <3> HIDE DEF sc
    <3> QED
      BY <3>1, <3>2
  <2>4. pc' \in [Request -> Place] /\ decision' \in [Request -> Decision]
    BY <1>3 DEF Admit, Place, Waiting, Decision
  <2> QED
    BY <1>3, <2>1, <2>2, <2>3, <2>4 DEF Admit
<1> QED
  BY <1>1, <1>2, <1>3 DEF Verify

(* What a handler does when an awaited call of a later stage ends. *)
LEMMA EnforceTyped ==
  ASSUME TypeOK, NEW r \in Request, NEW d \in Decision, Enforce(r, d)
  PROVE  TypeOK'
<1> USE DEF TypeOK, trust
<1>1. decision' \in [Request -> Decision]
  BY DEF Enforce
<1>2. CASE d = "ALLOW"
  <2>1. pc' \in [Request -> Place]
    BY <1>2 DEF Enforce, Place, Waiting
  <2> QED
    BY <1>1, <1>2, <2>1 DEF Enforce
<1>3. CASE d # "ALLOW"
  <2> DEFINE st == IF d = "CHALLENGE" THEN 401 ELSE 403
  <2>1. Finish(r, st, d, checks[r])
    BY <1>3 DEF Enforce
  <2>2. st \in Status /\ checks[r] \in Checks
    BY DEF Status
  <2> HIDE DEF st
  <2>3. /\ pc' \in [Request -> Place]
        /\ status' \in [Request -> Status]
        /\ audit' \in [Request -> Seq(Record)]
    BY <2>1, <2>2, FinishTyped
  <2> QED
    BY <1>1, <1>3, <2>3 DEF Enforce
<1> QED
  BY <1>2, <1>3

(* A step that ends a handler and changes nothing else keeps the types. *)
LEMMA EndTyped ==
  ASSUME TypeOK, NEW r \in Request, NEW st \in Status, NEW d \in Decision,
         NEW c \in Checks, Finish(r, st, d, c),
         cfg' = cfg, keysWarm' \in BOOLEAN, registry' = registry,
         input' \in [Request -> Input], checks' = checks, risk' = risk,
         decision' = decision, contacted' = contacted, admitted' = admitted
  PROVE  TypeOK'
BY FinishTyped DEF TypeOK

LEMMA ReceiveTyped ==
  ASSUME TypeOK, NEW r \in Request, NEW i \in Input, Receive(r, i)
  PROVE  TypeOK'
<1> USE DEF trust
<1>1. input' \in [Request -> Input]
  BY DEF Receive, ReceivePassthrough, ReceiveNoBearer, ReceiveCold, ReceiveWarm,
         Take, TypeOK
<1>2. CASE ReceivePassthrough(r, i)
  <2>1. /\ pc' \in [Request -> Place]
        /\ decision' \in [Request -> Decision]
    BY <1>2 DEF ReceivePassthrough, TypeOK, Place, Waiting, Decision
  <2> QED
    BY <1>1, <1>2, <2>1 DEF ReceivePassthrough, TypeOK
<1>3. CASE ReceiveNoBearer(r, i)
  <2>1. "DENY" \in Decision /\ 401 \in Status /\ NoChecks \in Checks
    BY ChecksTyped DEF Decision, Status, TypeOK
  <2>2. Finish(r, 401, "DENY", NoChecks) /\ keysWarm' \in BOOLEAN
    BY <1>3 DEF ReceiveNoBearer, TypeOK
  <2> QED
    BY <1>1, <1>3, <2>1, <2>2, EndTyped DEF ReceiveNoBearer
<1>4. CASE ReceiveCold(r, i)
  <2>1. pc' \in [Request -> Place]
    BY <1>4 DEF ReceiveCold, TypeOK, Place, Waiting
  <2> QED
    BY <1>1, <1>4, <2>1 DEF ReceiveCold, TypeOK
<1>5. CASE ReceiveWarm(r, i)
  BY <1>1, <1>5, VerifyTyped DEF ReceiveWarm, TypeOK
<1> QED
  BY <1>2, <1>3, <1>4, <1>5 DEF Receive

LEMMA ReadBodyTyped ==
  ASSUME TypeOK, NEW r \in Request, ReadBody(r)
  PROVE  TypeOK'
<1> USE DEF trust
<1>1. CASE BodyArrives(r)
  <2>1. pc' \in [Request -> Place]
    BY <1>1 DEF BodyArrives, TypeOK, Place, Waiting
  <2> QED
    BY <1>1, <2>1 DEF BodyArrives, TypeOK
<1>2. CASE ClientLeaves(r)
  <2> DEFINE st == IF cfg.passthrough THEN 502 ELSE 500
  <2>1. Finish(r, st, "ALLOW", checks[r])
    BY <1>2 DEF ClientLeaves
  <2>2. st \in Status /\ "ALLOW" \in Decision /\ checks[r] \in Checks
    BY DEF Status, Decision, TypeOK
  <2> HIDE DEF st
  <2>3. UNCHANGED <<cfg, keysWarm, trust, input, checks, risk, decision, contacted>>
    BY <1>2 DEF ClientLeaves
  <2>4. input' \in [Request -> Input] /\ keysWarm' \in BOOLEAN
    BY <2>3 DEF TypeOK
  <2> QED
    BY <2>1, <2>2, <2>3, <2>4, EndTyped
<1> QED
  BY <1>1, <1>2 DEF ReadBody

LEMMA HandleTyped ==
  ASSUME TypeOK, NEW r \in Request, Handle(r)
  PROVE  TypeOK'
<1> USE DEF trust
<1>1. input[r] \in Input /\ checks[r] \in Checks /\ keysWarm \in BOOLEAN
  BY DEF TypeOK
<1>2. {"ALLOW", "DENY"} \subseteq Decision
      /\ {200, 403, 502, 503} \subseteq Status /\ NoChecks \in Checks
  BY ChecksTyped DEF Decision, Status, TypeOK
<1>3. CASE KeysArrive(r)
  BY <1>1, <1>3, VerifyTyped DEF KeysArrive, TypeOK
<1>4. CASE KeysFail(r)
  BY <1>1, <1>2, <1>4, EndTyped DEF KeysFail, TypeOK
<1>5. CASE OpaAnswers(r)
  BY <1>5, FromOpaDecides, EnforceTyped DEF OpaAnswers
<1>6. CASE OpaFails(r)
  BY <1>6, FromOpaDecides, EnforceTyped DEF OpaFails
<1>7. CASE UpstreamAnswers(r)
  <2>1. PICK st \in {200, 403} : Finish(r, st, "ALLOW", checks[r])
    BY <1>7 DEF UpstreamAnswers
  <2>2. UNCHANGED <<cfg, keysWarm, trust, input, checks, risk, decision, contacted>>
    BY <1>7 DEF UpstreamAnswers
  <2>3. input' \in [Request -> Input]
    BY <2>2 DEF TypeOK
  <2> QED
    BY <1>1, <1>2, <2>1, <2>2, <2>3, EndTyped
<1>8. CASE UpstreamFails(r)
  BY <1>1, <1>2, <1>8, EndTyped DEF UpstreamFails, TypeOK
<1> QED
  BY <1>3, <1>4, <1>5, <1>6, <1>7, <1>8 DEF Handle

(* Every variable of the pipeline keeps its type in every configuration and  *)
(* for any number of requests.                                               *)
THEOREM TypeCorrect == Spec => []TypeOK
<1> USE DEF trust, handler
<1>1. Init => TypeOK
  <2> SUFFICES ASSUME Init PROVE TypeOK
    OBVIOUS
  <2>1. (CHOOSE i \in Input : TRUE) \in Input
    BY RequestAssumption
  <2>2. NoChecks \in Checks
    BY DEF NoChecks, Checks
  <2>3. audit \in [Request -> Seq(Record)]
    BY DEF Init
  <2>4. checks \in [Request -> Checks] /\ input \in [Request -> Input]
    BY <2>1, <2>2 DEF Init
  <2>5. registry \in [Subject -> SUBSET Keys]
    BY DEF Init
  <2>6. /\ pc \in [Request -> Place] /\ status \in [Request -> Status]
        /\ risk \in [Request -> 0..100] /\ decision \in [Request -> Decision]
    BY DEF Init, Place, Status, Decision
  <2> QED
    BY <2>3, <2>4, <2>5, <2>6 DEF Init, TypeOK
<1>2. TypeOK /\ [Next]_vars => TypeOK'
  <2> SUFFICES ASSUME TypeOK, [Next]_vars PROVE TypeOK'
    OBVIOUS
  <2>1. CASE \E r \in Request, i \in Input : Receive(r, i)
    BY <2>1, ReceiveTyped
  <2>2. CASE \E r \in Request : Handle(r) \/ ReadBody(r)
    BY <2>2, HandleTyped, ReadBodyTyped
  <2>3. CASE KeysExpire
    BY <2>3 DEF KeysExpire, TypeOK
  <2>4. CASE ResetState
    BY <2>4 DEF ResetState, LoseTrust, TypeOK
  <2>5. CASE Restart
    <3>1. pc' \in [Request -> Place]
      BY <2>5 DEF Restart, TypeOK, Place
    <3> QED
      BY <2>5, <3>1 DEF Restart, LoseTrust, TypeOK
  <2>6. CASE UNCHANGED vars
    BY <2>6 DEF vars, TypeOK
  <2> QED
    BY <2>1, <2>2, <2>3, <2>4, <2>5, <2>6 DEF Next
<1> QED
  BY <1>1, <1>2, PTL DEF Spec

-----------------------------------------------------------------------------
(* What a step does to the handlers, leaving out what it verifies: it ends   *)
(* one, moves one to its next await, loses those that wait, or leaves all of *)
(* them alone.                                                               *)
Early == {"absent", "keys", "policy"}

FailsProof(r, i, c) ==
  /\ pc[r] \in {"absent", "keys"} /\ input' = [input EXCEPT ![r] = i]
  /\ cfg' = cfg /\ RefuseProof(r, i)
  /\ c.jtiReplayed => ReplayFlag(i)

EndsWith(r, st, d, c) ==
  /\ pc[r] \in Early \cup {"body", "upstream"}
  /\ Finish(r, st, d, c) /\ contacted' = contacted
  /\ d = "ALLOW" <=> pc[r] \in {"body", "upstream"}
  /\ pc[r] = "body" => st \in {500, 502}
  /\ d # "ALLOW" => st \in {401, 403, 503}
  /\ c = NoChecks \/ c = checks[r] \/ \E i \in Input : FailsProof(r, i, c)

Ends(r) ==
  \E st \in Status, d \in Decision, c \in Checks : EndsWith(r, st, d, c)

Moves(r) ==
  \E place \in Waiting :
    /\ IF place = "upstream" THEN pc[r] = "body" ELSE pc[r] \in Early
    /\ pc' = [pc EXCEPT ![r] = place]
    /\ contacted' = IF place = "upstream" THEN contacted \cup {r} ELSE contacted
    /\ UNCHANGED <<status, audit>>

Loses ==
  /\ pc' = [r \in Request |-> IF pc[r] \in Waiting THEN "lost" ELSE pc[r]]
  /\ UNCHANGED <<status, audit, contacted>>

Rests == UNCHANGED <<pc, status, audit, contacted>>

LEMMA VerifyCases ==
  ASSUME TypeOK, NEW r \in Request, NEW i \in Input, Verify(r, i),
         pc[r] \in {"absent", "keys"}, input' = [input EXCEPT ![r] = i],
         cfg' = cfg
  PROVE  Ends(r) \/ Moves(r)
<1> USE DEF Early
<1>1. CASE RefuseToken(r, i)
  <2>1. Finish(r, 401, "DENY", NoChecks) /\ contacted' = contacted
    BY <1>1 DEF RefuseToken
  <2>2. "DENY" \in Decision /\ 401 \in Status /\ NoChecks \in Checks
    BY ChecksTyped DEF Decision, Status, TypeOK
  <2> QED
    BY <2>1, <2>2 DEF Ends, EndsWith
<1>2. CASE RefuseProof(r, i)
  <2> DEFINE c == [tokenValid |-> TRUE, dpopValid |-> FALSE,
                   jtiReplayed |-> ReplayFlag(i), jktMatch |-> FALSE]
  <2>1. Finish(r, 401, "DENY", c) /\ contacted' = contacted
    BY <1>2 DEF RefuseProof
  <2>2. "DENY" \in Decision /\ 401 \in Status /\ c \in Checks
    BY FailedChecksTyped DEF Decision, Status
  <2>3. FailsProof(r, i, c)
    BY <1>2 DEF FailsProof
  <2> HIDE DEF c
  <2> QED
    BY <2>1, <2>2, <2>3 DEF Ends, EndsWith
<1>3. CASE Admit(r, i)
  BY <1>3 DEF Admit, Moves, Waiting
<1> QED
  BY <1>1, <1>2, <1>3 DEF Verify

LEMMA EnforceCases ==
  ASSUME TypeOK, NEW r \in Request, NEW d \in Decision, Enforce(r, d),
         pc[r] = "policy"
  PROVE  Ends(r) \/ Moves(r)
<1> USE DEF Early
<1>1. CASE d = "ALLOW"
  BY <1>1 DEF Enforce, Moves, Waiting
<1>2. CASE d # "ALLOW"
  <2> DEFINE st == IF d = "CHALLENGE" THEN 401 ELSE 403
  <2>1. Finish(r, st, d, checks[r]) /\ contacted' = contacted
    BY <1>2 DEF Enforce
  <2>2. st \in Status /\ st \in {401, 403, 503} /\ checks[r] \in Checks
    BY DEF Status, TypeOK
  <2> HIDE DEF st
  <2> QED
    BY <1>2, <2>1, <2>2 DEF Ends, EndsWith
<1> QED
  BY <1>1, <1>2

LEMMA StepCases ==
  ASSUME TypeOK, [Next]_vars
  PROVE  (\E r \in Request : Ends(r) \/ Moves(r)) \/ Loses \/ Rests
<1>1. "ALLOW" \in Decision /\ "DENY" \in Decision /\ NoChecks \in Checks
      /\ {200, 401, 403, 502, 503} \subseteq Status
  BY ChecksTyped DEF Decision, Status, TypeOK
<1>2. ASSUME NEW r \in Request, NEW i \in Input, Receive(r, i)
      PROVE  Ends(r) \/ Moves(r)
  <2>1. pc[r] = "absent" /\ input' = [input EXCEPT ![r] = i]
    BY <1>2 DEF Receive, ReceivePassthrough, ReceiveNoBearer, ReceiveCold,
                ReceiveWarm, Take
  <2>2. CASE ReceivePassthrough(r, i)
    BY <2>1, <2>2 DEF ReceivePassthrough, Moves, Waiting, Early
  <2>3. CASE ReceiveNoBearer(r, i)
    BY <1>1, <2>1, <2>3 DEF ReceiveNoBearer, Ends, EndsWith, Early
  <2>4. CASE ReceiveCold(r, i)
    BY <2>1, <2>4 DEF ReceiveCold, Moves, Waiting, Early
  <2>5. CASE ReceiveWarm(r, i)
    BY <2>1, <2>5, VerifyCases DEF ReceiveWarm
  <2> QED
    BY <1>2, <2>2, <2>3, <2>4, <2>5 DEF Receive
<1>3. ASSUME NEW r \in Request, Handle(r)
      PROVE  Ends(r) \/ Moves(r)
  <2>1. input[r] \in Input /\ checks[r] \in Checks
    BY DEF TypeOK
  <2>2. CASE KeysArrive(r)
    <3>1. input' = [input EXCEPT ![r] = input[r]]
      BY <2>2 DEF KeysArrive, TypeOK
    <3> QED
      BY <2>1, <2>2, <3>1, VerifyCases DEF KeysArrive
  <2>3. CASE KeysFail(r)
    BY <1>1, <2>3 DEF KeysFail, Ends, EndsWith, Early
  <2>4. CASE OpaAnswers(r)
    BY <2>4, FromOpaDecides, EnforceCases DEF OpaAnswers
  <2>5. CASE OpaFails(r)
    BY <2>5, FromOpaDecides, EnforceCases DEF OpaFails
  <2>6. CASE UpstreamAnswers(r)
    BY <1>1, <2>1, <2>6 DEF UpstreamAnswers, Ends, EndsWith
  <2>7. CASE UpstreamFails(r)
    BY <1>1, <2>1, <2>7 DEF UpstreamFails, Ends, EndsWith
  <2> QED
    BY <1>3, <2>2, <2>3, <2>4, <2>5, <2>6, <2>7 DEF Handle
<1>4. ASSUME NEW r \in Request, ReadBody(r)
      PROVE  Ends(r) \/ Moves(r)
  <2>1. CASE BodyArrives(r)
    BY <2>1 DEF BodyArrives, Moves, Waiting
  <2>2. CASE ClientLeaves(r)
    <3> DEFINE st == IF cfg.passthrough THEN 502 ELSE 500
    <3>1. Finish(r, st, "ALLOW", checks[r]) /\ contacted' = contacted
      BY <2>2 DEF ClientLeaves
    <3>2. st \in Status /\ st \in {500, 502} /\ checks[r] \in Checks
      BY DEF Status, TypeOK
    <3> HIDE DEF st
    <3> QED
      BY <1>1, <2>2, <3>1, <3>2 DEF ClientLeaves, Ends, EndsWith
  <2> QED
    BY <1>4, <2>1, <2>2 DEF ReadBody
<1>5. CASE KeysExpire
  BY <1>5 DEF KeysExpire, Rests, handler
<1>6. CASE ResetState
  BY <1>6 DEF ResetState, Rests, handler
<1>7. CASE Restart
  BY <1>7 DEF Restart, Loses
<1>8. CASE UNCHANGED vars
  BY <1>8 DEF vars, Rests, handler
<1> QED
  BY <1>2, <1>3, <1>4, <1>5, <1>6, <1>7, <1>8 DEF Next

(* The inductive form of AuditMatchesOutcome: who has been forwarded so far. *)
SettleInv ==
  /\ AuditMatchesOutcome
  /\ \A r \in Request :
       /\ pc[r] \in Early \cup {"body"} => r \notin contacted
       /\ pc[r] = "upstream" => r \in contacted

LEMMA EndSettles ==
  ASSUME TypeOK, SettleInv, NEW r \in Request, Ends(r)
  PROVE  SettleInv'
<1>1. PICK st \in Status, d \in Decision, c \in Checks : EndsWith(r, st, d, c)
  BY DEF Ends
<1> DEFINE rec == [decision |-> d, checks |-> c, flags |-> cfg]
<1>2. audit[r] = <<>>
  BY <1>1 DEF EndsWith, SettleInv, AuditMatchesOutcome, Early
<1>3. /\ pc' = [pc EXCEPT ![r] = "done"]
      /\ status' = [status EXCEPT ![r] = st]
      /\ audit' = [audit EXCEPT ![r] = <<rec>>]
  BY <1>1, <1>2 DEF EndsWith, Finish
<1>4. IF d = "ALLOW" THEN r \in contacted \/ st \in {500, 502}
      ELSE r \notin contacted /\ st \in {401, 403, 503}
  BY <1>1 DEF EndsWith, SettleInv, Early
<1>5. rec.decision = d
  OBVIOUS
<1> HIDE DEF rec
<1>6. SUFFICES ASSUME NEW q \in Request
      PROVE /\ pc'[q] # "done" => audit'[q] = <<>>
            /\ pc'[q] = "done" =>
                 /\ Len(audit'[q]) = 1
                 /\ IF audit'[q][1].decision = "ALLOW"
                    THEN q \in contacted' \/ status'[q] \in {500, 502}
                    ELSE q \notin contacted' /\ status'[q] \in {401, 403, 503}
            /\ pc'[q] \in Early \cup {"body"} => q \notin contacted'
            /\ pc'[q] = "upstream" => q \in contacted'
  BY DEF SettleInv, AuditMatchesOutcome
<1>7. CASE q = r
  <2>1. pc'[q] = "done" /\ status'[q] = st /\ audit'[q] = <<rec>>
    BY <1>3, <1>7 DEF TypeOK
  <2> QED
    BY <1>1, <1>4, <1>5, <1>7, <2>1 DEF EndsWith, Early
<1>8. CASE q # r
  <2>1. pc'[q] = pc[q] /\ status'[q] = status[q] /\ audit'[q] = audit[q]
    BY <1>3, <1>8 DEF TypeOK
  <2> QED
    BY <1>1, <2>1 DEF EndsWith, SettleInv, AuditMatchesOutcome
<1> QED
  BY <1>7, <1>8

LEMMA MoveSettles ==
  ASSUME TypeOK, SettleInv, NEW r \in Request, Moves(r)
  PROVE  SettleInv'
BY DEF Moves, SettleInv, AuditMatchesOutcome, Early, Waiting, TypeOK

LEMMA SettleInvariant == Spec => []SettleInv
<1>1. Init => SettleInv
  BY DEF Init, SettleInv, AuditMatchesOutcome, Early
<1>2. TypeOK /\ SettleInv /\ [Next]_vars => SettleInv'
  <2> SUFFICES ASSUME TypeOK, SettleInv, [Next]_vars PROVE SettleInv'
    OBVIOUS
  <2>1. CASE \E r \in Request : Ends(r) \/ Moves(r)
    BY <2>1, EndSettles, MoveSettles
  <2>2. CASE Loses
    BY <2>2 DEF Loses, SettleInv, AuditMatchesOutcome, Early, Waiting
  <2>3. CASE Rests
    BY <2>3 DEF Rests, SettleInv, AuditMatchesOutcome
  <2> QED
    BY <2>1, <2>2, <2>3, StepCases
<1> QED
  BY <1>1, <1>2, TypeCorrect, PTL DEF Spec

(* Every answered request left exactly one record; only requests recorded as *)
(* ALLOW were forwarded, and an ALLOW that was not was cut off by its client,*)
(* whatever fails and whatever else is in flight (_emit on each exit of      *)
(* handle_request).                                                          *)
THEOREM AuditIsComplete == Spec => []AuditMatchesOutcome
<1>1. SettleInv => AuditMatchesOutcome
  BY DEF SettleInv
<1> QED
  BY <1>1, SettleInvariant, PTL

-----------------------------------------------------------------------------
(* Refinement of Gateway. *)

Fates  == [r \in Request |-> FateOf(r)]
Trails == [r \in Request |->
             [k \in 1..Len(audit[r]) |-> audit[r][k].decision]]

(* Ending a handler refuses or answers its request at the gateway. *)
LEMMA EndRefines ==
  ASSUME TypeOK, SettleInv, NEW r \in Request, Ends(r)
  PROVE  Promise!Refuse(r) \/ Promise!Answer(r)
<1>1. PICK st \in Status, d \in Decision, c \in Checks : EndsWith(r, st, d, c)
  BY DEF Ends
<1> DEFINE rec == [decision |-> d, checks |-> c, flags |-> cfg]
<1>2. audit[r] = <<>>
  BY <1>1 DEF EndsWith, SettleInv, AuditMatchesOutcome, Early
<1>3. pc' = [pc EXCEPT ![r] = "done"] /\ audit' = [audit EXCEPT ![r] = <<rec>>]
  BY <1>1, <1>2 DEF EndsWith, Finish
<1>4. rec.decision = d
  OBVIOUS
<1> HIDE DEF rec
<1>5. Fates' = [Fates EXCEPT ![r] = "answered"]
  BY <1>3 DEF Fates, FateOf, TypeOK
<1>6. Trails' = [Trails EXCEPT ![r] = <<d>>]
  <2>1. audit'[r] = <<rec>>
    BY <1>3 DEF TypeOK
  <2>2. [k \in 1..Len(audit'[r]) |-> audit'[r][k].decision] = <<d>>
    BY <2>1, <1>4
  <2>3. \A q \in Request : q # r => audit'[q] = audit[q]
    BY <1>3 DEF TypeOK
  <2> QED
    BY <2>2, <2>3 DEF Trails
<1>7. CASE d = "ALLOW"
  <2>1. Fates[r] \in {"receiving", "passed_on"}
    BY <1>1, <1>7 DEF EndsWith, Fates, FateOf
  <2> QED
    BY <1>5, <1>6, <1>7, <2>1 DEF Promise!Answer, Fates, Trails
<1>8. CASE d # "ALLOW"
  <2>1. Fates[r] \in {"absent", "held"}
    BY <1>1, <1>8 DEF EndsWith, Fates, FateOf, Early
  <2>2. d \in {"DENY", "CHALLENGE"}
    BY <1>8 DEF Decision
  <2> QED
    BY <1>5, <1>6, <2>1, <2>2 DEF Promise!Refuse, Promise!Open, Fates, Trails
<1> QED
  BY <1>7, <1>8

(* A handler that goes to its next await holds its request, keeps holding it,*)
(* allows it or passes it on.                                                *)
LEMMA MoveRefines ==
  ASSUME TypeOK, NEW r \in Request, Moves(r)
  PROVE  \/ Promise!Hold(r) \/ Promise!Allow(r) \/ Promise!PassOn(r)
         \/ Fates' = Fates /\ Trails' = Trails
<1>1. PICK place \in Waiting :
        /\ IF place = "upstream" THEN pc[r] = "body" ELSE pc[r] \in Early
        /\ pc' = [pc EXCEPT ![r] = place]
        /\ UNCHANGED <<status, audit>>
  BY DEF Moves
<1>2. Trails' = Trails
  BY <1>1 DEF Trails
<1>3. CASE place = "upstream"
  <2>1. Fates' = [Fates EXCEPT ![r] = "passed_on"]
    BY <1>1, <1>3 DEF Fates, FateOf, TypeOK
  <2>2. Fates[r] = "receiving"
    BY <1>1, <1>3 DEF Fates, FateOf
  <2> QED
    BY <1>2, <2>1, <2>2 DEF Promise!PassOn, Fates, Trails
<1>4. CASE place = "body"
  <2>1. Fates' = [Fates EXCEPT ![r] = "receiving"]
    BY <1>1, <1>4 DEF Fates, FateOf, TypeOK
  <2>2. Fates[r] \in {"absent", "held"}
    BY <1>1, <1>4 DEF Fates, FateOf, Early
  <2> QED
    BY <1>2, <2>1, <2>2 DEF Promise!Allow, Promise!Open, Fates, Trails
<1>5. CASE place \in {"keys", "policy"} /\ pc[r] = "absent"
  <2>1. Fates' = [Fates EXCEPT ![r] = "held"]
    BY <1>1, <1>5 DEF Fates, FateOf, TypeOK
  <2>2. Fates[r] = "absent"
    BY <1>5 DEF Fates, FateOf
  <2> QED
    BY <1>2, <2>1, <2>2 DEF Promise!Hold, Fates, Trails
<1>6. CASE place \in {"keys", "policy"} /\ pc[r] # "absent"
  <2>1. Fates' = Fates
    BY <1>1, <1>6 DEF Fates, FateOf, TypeOK, Early
  <2> QED
    BY <1>2, <2>1
<1> QED
  BY <1>3, <1>4, <1>5, <1>6 DEF Waiting

(* A restart of the process is a crash of the gateway. *)
LEMMA LoseRefines ==
  ASSUME TypeOK, Loses
  PROVE  Promise!Crash
<1>1. Trails' = Trails
  BY DEF Loses, Trails
<1>2. \A r \in Request :
        Fates'[r] = IF Fates[r] \in Promise!Underway THEN "lost" ELSE Fates[r]
  BY DEF Fates, FateOf, Loses, Waiting, TypeOK, Place, Promise!Underway
<1>3. Fates' = [r \in Request |->
                 IF Fates[r] \in Promise!Underway THEN "lost" ELSE Fates[r]]
  BY <1>2 DEF Fates
<1> QED
  BY <1>1, <1>3 DEF Promise!Crash, Fates, Trails

(* The controller keeps the promise of Gateway: each of its steps is one of  *)
(* the gateway's or invisible there.                                         *)
THEOREM ControllerRefinesGateway == Spec => ImplementsGateway
<1>1. Init => Promise!Init
  <2> SUFFICES ASSUME Init PROVE Promise!Init
    OBVIOUS
  <2>1. \A r \in Request : FateOf(r) = "absent" /\ audit[r] = <<>>
    BY DEF Init, FateOf
  <2> QED
    BY <2>1 DEF Promise!Init
<1>2. TypeOK /\ SettleInv /\ [Next]_vars => [Promise!Next]_(Promise!vars)
  <2> SUFFICES ASSUME TypeOK, SettleInv, [Next]_vars
               PROVE  [Promise!Next]_(Promise!vars)
    OBVIOUS
  <2>1. ASSUME NEW r \in Request, Ends(r) PROVE Promise!Next
    BY <2>1, EndRefines DEF Promise!Next
  <2>2. ASSUME NEW r \in Request, Moves(r) PROVE [Promise!Next]_(Promise!vars)
    BY <2>2, MoveRefines DEF Promise!Next, Promise!vars, Fates, Trails
  <2>3. CASE Loses
    BY <2>3, LoseRefines DEF Promise!Next
  <2>4. CASE Rests
    BY <2>4 DEF Rests, Promise!vars, FateOf
  <2> QED
    BY <2>1, <2>2, <2>3, <2>4, StepCases
<1> QED
  BY <1>1, <1>2, TypeCorrect, SettleInvariant, PTL
     DEF Spec, ImplementsGateway, Promise!Spec

-----------------------------------------------------------------------------
(***************************************************************************)
(* What the controller keeps between requests: the replay cache and the     *)
(* enrolled device keys, with any number of requests in flight, resets and  *)
(* restarts.                                                                *)
(***************************************************************************)

(* A handler whose request has not been verified yet. *)
Fresh == {"absent", "keys"}

(* One step as the trust state sees it. *)
Verifies(r, i) ==
  /\ pc[r] \in Fresh
  /\ input' = [input EXCEPT ![r] = i]
  /\ cfg' = cfg
  /\ Verify(r, i)

Resets ==
  /\ LoseTrust
  /\ UNCHANGED <<input, checks, audit>>
  /\ \A r \in Request : pc'[r] = pc[r] \/ pc'[r] = "lost"

Bystands ==
  /\ UNCHANGED <<cfg, trust, risk>>
  /\ \A r \in Request :
       pc[r] \notin Fresh => pc'[r] \notin Fresh /\ input'[r] = input[r]

LEMMA TrustCases ==
  ASSUME TypeOK, [Next]_vars
  PROVE  \/ \E r \in Request, i \in Input : Verifies(r, i)
         \/ Resets
         \/ Bystands
<1>1. ASSUME NEW r \in Request, NEW i \in Input, Receive(r, i)
      PROVE  Verifies(r, i) \/ Bystands
  <2>1. pc[r] = "absent" /\ input' = [input EXCEPT ![r] = i]
    BY <1>1 DEF Receive, ReceivePassthrough, ReceiveNoBearer, ReceiveCold,
                ReceiveWarm, Take
  <2>2. CASE ReceiveWarm(r, i)
    BY <2>1, <2>2 DEF ReceiveWarm, Verifies, Fresh
  <2>3. CASE ~ReceiveWarm(r, i)
    <3>1. UNCHANGED <<cfg, trust, risk>>
      BY <1>1, <2>3 DEF Receive, ReceivePassthrough, ReceiveNoBearer, ReceiveCold
    <3>2. \A q \in Request : q # r => pc'[q] = pc[q] /\ input'[q] = input[q]
      BY <1>1, <2>1, <2>3 DEF Receive, ReceivePassthrough, ReceiveNoBearer,
                              ReceiveCold, Finish, TypeOK
    <3> QED
      BY <2>1, <3>1, <3>2 DEF Bystands, Fresh
  <2> QED
    BY <2>2, <2>3
<1>2. ASSUME NEW r \in Request, Handle(r)
      PROVE  Bystands \/ \E i \in Input : Verifies(r, i)
  <2>1. CASE KeysArrive(r)
    <3>1. input[r] \in Input /\ input' = [input EXCEPT ![r] = input[r]]
      BY <2>1 DEF KeysArrive, TypeOK
    <3>2. Verifies(r, input[r])
      BY <2>1, <3>1 DEF KeysArrive, Verifies, Fresh
    <3> QED
      BY <3>1, <3>2
  <2>2. CASE ~KeysArrive(r)
    <3>1. UNCHANGED <<cfg, trust, risk, input>>
      BY <1>2, <2>2 DEF Handle, KeysFail, OpaAnswers, OpaFails, Enforce,
                        UpstreamAnswers, UpstreamFails
    <3>2. \E place \in {"done", "body"} : pc' = [pc EXCEPT ![r] = place]
      BY <1>2, <2>2 DEF Handle, KeysFail, OpaAnswers, OpaFails, Enforce,
                        UpstreamAnswers, UpstreamFails, Finish
    <3> QED
      BY <3>1, <3>2 DEF Bystands, Fresh, TypeOK
  <2> QED
    BY <2>1, <2>2
<1>3. ASSUME NEW r \in Request, ReadBody(r) PROVE Bystands
  <2>1. UNCHANGED <<cfg, trust, risk, input>>
    BY <1>3 DEF ReadBody, BodyArrives, ClientLeaves
  <2>2. \E place \in {"done", "upstream"} : pc' = [pc EXCEPT ![r] = place]
    BY <1>3 DEF ReadBody, BodyArrives, ClientLeaves, Finish
  <2> QED
    BY <2>1, <2>2 DEF Bystands, Fresh, TypeOK
<1>4. CASE KeysExpire
  BY <1>4 DEF KeysExpire, Bystands, handler
<1>5. CASE ResetState \/ Restart
  BY <1>5 DEF ResetState, Restart, Resets, handler
<1>6. CASE UNCHANGED vars
  BY <1>6 DEF vars, Bystands, handler
<1> QED
  BY <1>1, <1>2, <1>3, <1>4, <1>5, <1>6 DEF Next

-----------------------------------------------------------------------------
(* The inductive invariant: admitted requests are past verification, so      *)
(* their inputs no longer change, and their jtis are in the cache.           *)
TrustInv ==
  /\ \A r \in admitted :
       r \in Request /\ pc[r] \notin Fresh /\ input[r].token.sub \in Subject
  /\ cfg.dpop => \A r \in admitted : input[r].proof.jti \in spent
  /\ ProofAdmitsOnce
  /\ EnrolledKeyIsProven
  /\ ForeignDeviceScored

(* Nothing that TrustInv says of admitted requests depends on the others.    *)
LEMMA RefusalKeeps ==
  ASSUME TypeOK, TrustInv, NEW r \in Request, NEW i \in Input, Verifies(r, i),
         RefuseToken(r, i) \/ RefuseProof(r, i)
  PROVE  TrustInv'
<1>1. r \notin admitted
  BY DEF Verifies, TrustInv
<1>2. \A q \in admitted : input'[q] = input[q] /\ pc'[q] = pc[q]
  BY <1>1 DEF Verifies, TypeOK, RefuseToken, RefuseProof, Finish
<1>3. UNCHANGED <<registry, admitted, risk, cfg>>
  BY DEF Verifies, RefuseToken, RefuseProof, trust
<1>4. spent \subseteq spent'
  BY DEF RefuseToken, RefuseProof, trust, NowSpent
<1>5. (\A q \in admitted :
         q \in Request /\ pc[q] \notin Fresh /\ input[q].token.sub \in Subject)'
  BY <1>2, <1>3 DEF TrustInv
<1>6. (cfg.dpop => \A q \in admitted : input[q].proof.jti \in spent)'
  BY <1>2, <1>3, <1>4 DEF TrustInv
<1>7. ProofAdmitsOnce'
  BY <1>2, <1>3 DEF TrustInv, ProofAdmitsOnce
<1>8. EnrolledKeyIsProven'
  BY <1>2, <1>3 DEF TrustInv, EnrolledKeyIsProven
<1>9. ForeignDeviceScored'
  BY <1>2, <1>3 DEF TrustInv, ForeignDeviceScored
<1> QED
  BY <1>5, <1>6, <1>7, <1>8, <1>9 DEF TrustInv

(* A score that includes R2 is at least 35. *)
LEMMA R2Counts ==
  ASSUME NEW f, NEW c, NEW k, NEW s, NEW d, R2(f, k, s)
  PROVE  Score(f, c, k, s, d) >= 35
BY DEF Score, Cap, TotalPenalty, Penalty

LEMMA AdmissionKeeps ==
  ASSUME TypeOK, TrustInv, NEW r \in Request, NEW i \in Input, Verifies(r, i),
         Admit(r, i)
  PROVE  TrustInv'
<1>1. r \notin admitted
  BY DEF Verifies, TrustInv
<1>2. input'[r] = i /\ \A q \in admitted : input'[q] = input[q]
  BY <1>1 DEF Verifies, TypeOK, TrustInv
<1>3. pc'[r] \notin Fresh /\ \A q \in admitted : pc'[q] = pc[q]
  BY <1>1 DEF Admit, TypeOK, Fresh, TrustInv
<1>4. cfg' = cfg /\ admitted' = admitted \cup {r} /\ registry' = NowRegistry(i)
  BY DEF Verifies, Admit
<1>5. \A q \in admitted : risk'[q] = risk[q]
  BY <1>1 DEF Admit, TypeOK, TrustInv
<1>6. cfg.dpop => i.proof.jti \notin spent /\ spent' = spent \cup {i.proof.jti}
  BY DEF Admit, ProofVerdict, NowSpent, SpendsJti
<1>7. i.token.genuine /\ i.token.sub \in Subject
  BY RequestAssumption DEF Admit, TokenValid
<1>8. (\A q \in admitted :
         q \in Request /\ pc[q] \notin Fresh /\ input[q].token.sub \in Subject)'
  BY <1>2, <1>3, <1>4, <1>7 DEF TrustInv
<1>9. (cfg.dpop => \A q \in admitted : input[q].proof.jti \in spent)'
  BY <1>2, <1>4, <1>6 DEF TrustInv
<1>10. ProofAdmitsOnce'
  BY <1>2, <1>4, <1>6 DEF TrustInv, ProofAdmitsOnce
<1>11. EnrolledKeyIsProven'
  <2>1. SUFFICES ASSUME NEW s \in Subject, NEW k \in registry'[s]
        PROVE  \E q \in admitted' :
                 /\ input'[q].token.genuine
                 /\ input'[q].token.sub = s /\ input'[q].token.jkt = k
                 /\ cfg'.dpop => input'[q].proof.key = k
    BY DEF EnrolledKeyIsProven
  <2>2. CASE k \in registry[s]
    BY <1>2, <1>4, <2>2 DEF TrustInv, EnrolledKeyIsProven
  <2>3. CASE k \notin registry[s]
    <3>1. cfg.binding /\ s = i.token.sub /\ k = i.token.jkt
      BY <1>4, <2>3 DEF NowRegistry, Observed, TypeOK
    <3>2. cfg.dpop => i.proof.key = k
      BY <3>1 DEF Admit, ProofVerdict
    <3> QED
      BY <1>2, <1>4, <1>7, <3>1, <3>2
  <2> QED
    BY <2>2, <2>3
<1>12. ForeignDeviceScored'
  <2>1. SUFFICES ASSUME NEW q \in admitted',
                        cfg.binding, cfg.policy, input'[q].token.jkt # NoKey,
                        input'[q].token.jkt \notin registry'[input'[q].token.sub]
        PROVE  risk'[q] >= 35
    BY <1>4 DEF ForeignDeviceScored
  <2>2. CASE q \in admitted
    <3>1. registry[input[q].token.sub] \subseteq registry'[input[q].token.sub]
      BY <1>4, <2>2 DEF NowRegistry, Observed, TypeOK, TrustInv
    <3> QED
      BY <1>2, <1>4, <1>5, <2>1, <2>2, <3>1 DEF TrustInv, ForeignDeviceScored
  <2>3. CASE q = r
    <3> DEFINE known0 == KnownDevice(registry, i.token.sub, i.token.jkt)
    <3>1. ~known0
      BY <1>2, <1>4, <1>7, <2>1, <2>3, RequestAssumption
         DEF NowRegistry, Observed, KnownDevice, Verifiable, TypeOK
    <3>2. R2(cfg, KnownFor(i), SignalsFor(i))
      BY <2>1, <3>1 DEF R2, KnownFor, DeviceKnown
    <3>3. risk'[r] = Score(cfg, ChecksOf(i), KnownFor(i), SignalsFor(i), i.declared)
      BY <2>1 DEF Admit, TypeOK
    <3> QED
      BY <2>3, <3>2, <3>3, R2Counts
  <2> QED
    BY <1>4, <2>2, <2>3
<1> QED
  BY <1>8, <1>9, <1>10, <1>11, <1>12 DEF TrustInv

LEMMA TrustInvariant == Spec => []TrustInv
<1>1. Init => TrustInv
  BY DEF Init, TrustInv, ProofAdmitsOnce, EnrolledKeyIsProven, ForeignDeviceScored
<1>2. TypeOK /\ TrustInv /\ [Next]_vars => TrustInv'
  <2> SUFFICES ASSUME TypeOK, TrustInv, [Next]_vars PROVE TrustInv'
    OBVIOUS
  <2>1. CASE \E r \in Request, i \in Input : Verifies(r, i)
    BY <2>1, RefusalKeeps, AdmissionKeeps DEF Verifies, Verify
  <2>2. CASE Resets
    BY <2>2 DEF Resets, LoseTrust, TrustInv, ProofAdmitsOnce, EnrolledKeyIsProven,
                ForeignDeviceScored
  <2>3. CASE Bystands
    <3>1. UNCHANGED <<cfg, spent, registry, admitted, risk>>
      BY <2>3 DEF Bystands, trust
    <3>2. \A r \in admitted : pc'[r] \notin Fresh /\ input'[r] = input[r]
      BY <2>3 DEF Bystands, TrustInv
    <3> QED
      BY <3>1, <3>2 DEF TrustInv, ProofAdmitsOnce, EnrolledKeyIsProven,
                        ForeignDeviceScored
  <2> QED
    BY <2>1, <2>2, <2>3, TrustCases
<1> QED
  BY <1>1, <1>2, TypeCorrect, PTL DEF Spec

(* A DPoP proof admits at most one request between two losses of the trust   *)
(* state, however many handlers are in flight (verify_dpop_proof, step 9).   *)
THEOREM OneAdmissionPerProof == Spec => []ProofAdmitsOnce
<1>1. TrustInv => ProofAdmitsOnce
  BY DEF TrustInv
<1> QED
  BY <1>1, TrustInvariant, PTL

(* The enrolled key of a subject was proven by an admitted request of that   *)
(* subject (device_registry.observe after stages 1 and 2).                   *)
THEOREM EnrolmentIsProven == Spec => []EnrolledKeyIsProven
<1>1. TrustInv => EnrolledKeyIsProven
  BY DEF TrustInv
<1> QED
  BY <1>1, TrustInvariant, PTL

(* A key other than the enrolled one counts against every admitted request   *)
(* that uses it (rule R2), in whatever order requests were verified.         *)
THEOREM ForeignDevicesAreScored == Spec => []ForeignDeviceScored
<1>1. TrustInv => ForeignDeviceScored
  BY DEF TrustInv
<1> QED
  BY <1>1, TrustInvariant, PTL

(* No step adds a key to a subject that has one (device_registry).           *)
THEOREM EnrolmentIsFinal == Spec => EnrolmentNeverExtended
<1> DEFINE Step == \A s \in Subject :
                     registry[s] # {} => registry'[s] = registry[s] \/ registry'[s] = {}
<1>1. TypeOK /\ [Next]_vars => [Step]_vars
  <2> SUFFICES ASSUME TypeOK, [Next]_vars PROVE Step
    OBVIOUS
  <2>1. ASSUME NEW r \in Request, NEW i \in Input, Verifies(r, i) PROVE Step
    BY <2>1 DEF Verifies, Verify, RefuseToken, RefuseProof, Admit, trust,
                NowRegistry, Observed, TypeOK
  <2>2. CASE Resets
    BY <2>2 DEF Resets, LoseTrust
  <2>3. CASE Bystands
    BY <2>3 DEF Bystands, trust
  <2> QED
    BY <2>1, <2>2, <2>3, TrustCases
<1> QED
  BY <1>1, TypeCorrect, PTL DEF Spec, EnrolmentNeverExtended

-----------------------------------------------------------------------------
(***************************************************************************)
(* Nothing unverified reaches the resource server, and the records tell the *)
(* truth about it, in every configuration.                                  *)
(***************************************************************************)

LimitsHold(r) == cfg.policy => risk[r] < Limits.allow /\ risk[r] < Limits.deny

Recorded(r) ==
  LET rec == audit[r][1]
  IN /\ Truthful(rec.flags, rec.checks, input[r])
     /\ rec.decision = "ALLOW" /\ rec.flags.dpop /\ ~rec.flags.passthrough
          => rec.checks.tokenValid /\ rec.checks.dpopValid

(* What is known of a request at each place of its handler. *)
Known(r) ==
  /\ pc[r] \in {"absent", "keys"} => checks[r] = NoChecks
  /\ pc[r] = "policy" =>
       /\ Vetted(r)
       /\ Truthful(cfg, checks[r], input[r]) /\ Admitted(cfg, checks[r])
  /\ pc[r] \in {"body", "upstream"} =>
       /\ Truthful(cfg, checks[r], input[r])
       /\ ~cfg.passthrough =>
            Vetted(r) /\ LimitsHold(r) /\ Admitted(cfg, checks[r])
  /\ pc[r] = "done" => Recorded(r)

MediationInv == \A r \in Request : Known(r)

(* A step that leaves a request alone leaves what is known of it.            *)
LEMMA OthersKnown ==
  ASSUME NEW q, Known(q), cfg' = cfg, pc'[q] = pc[q], checks'[q] = checks[q],
         risk'[q] = risk[q], input'[q] = input[q], audit'[q] = audit[q]
  PROVE  Known(q)'
<1>1. Vetted(q)' = Vetted(q) /\ LimitsHold(q)' = LimitsHold(q)
  BY DEF Vetted, LimitsHold, ProofSound, Genuine
<1>2. /\ Truthful(cfg', checks'[q], input'[q]) = Truthful(cfg, checks[q], input[q])
      /\ Admitted(cfg', checks'[q]) = Admitted(cfg, checks[q])
  OBVIOUS
<1>3. Recorded(q)' = Recorded(q)
  BY DEF Recorded
<1> QED
  BY <1>1, <1>2, <1>3 DEF Known

(* A truthful record written by Finish is known to be one.                   *)
LEMMA EndKnown ==
  ASSUME TypeOK, SettleInv, NEW r \in Request, NEW st, NEW d, NEW c,
         Finish(r, st, d, c), pc[r] # "done",
         Truthful(cfg, c, input'[r]),
         d = "ALLOW" /\ cfg.dpop /\ ~cfg.passthrough => c.tokenValid /\ c.dpopValid
  PROVE  Known(r)'
<1> DEFINE rec == [decision |-> d, checks |-> c, flags |-> cfg]
<1>1. audit[r] = <<>>
  BY DEF SettleInv, AuditMatchesOutcome
<1>2. pc'[r] = "done" /\ audit'[r] = <<rec>>
  BY <1>1 DEF Finish, TypeOK
<1>3. audit'[r][1] = rec /\ rec.decision = d /\ rec.checks = c /\ rec.flags = cfg
  BY <1>2
<1> HIDE DEF rec
<1> QED
  BY <1>2, <1>3 DEF Known, Recorded

LEMMA NothingChecked == ASSUME NEW f, NEW i PROVE Truthful(f, NoChecks, i)
BY DEF Truthful, NoChecks

LEMMA VerifyKnown ==
  ASSUME TypeOK, SettleInv, MediationInv, NEW r \in Request, NEW i \in Input,
         Verify(r, i), pc[r] \in {"absent", "keys"}, input' = [input EXCEPT ![r] = i],
         cfg' = cfg
  PROVE  MediationInv'
<1>1. input'[r] = i /\ \A q \in Request : q # r => input'[q] = input[q]
  BY DEF TypeOK
<1>2. ASSUME NEW q \in Request, q # r PROVE Known(q)'
  <2>1. /\ pc'[q] = pc[q] /\ checks'[q] = checks[q]
        /\ risk'[q] = risk[q] /\ audit'[q] = audit[q]
    <3>1. CASE RefuseToken(r, i)
      BY <1>2, <3>1 DEF RefuseToken, Finish, TypeOK
    <3>2. CASE RefuseProof(r, i)
      BY <1>2, <3>2 DEF RefuseProof, Finish, TypeOK
    <3>3. CASE Admit(r, i)
      BY <1>2, <3>3 DEF Admit, TypeOK
    <3> QED
      BY <3>1, <3>2, <3>3 DEF Verify
  <2> QED
    BY <1>1, <1>2, <2>1, OthersKnown DEF MediationInv
<1>3. Known(r)'
  <2>1. CASE RefuseToken(r, i)
    BY <2>1, EndKnown, NothingChecked DEF RefuseToken
  <2>2. CASE RefuseProof(r, i)
    <3> DEFINE c == [tokenValid |-> TRUE, dpopValid |-> FALSE,
                     jtiReplayed |-> ReplayFlag(i), jktMatch |-> FALSE]
    <3>1. Finish(r, 401, "DENY", c)
      BY <2>2 DEF RefuseProof
    <3>2. Truthful(cfg, c, input'[r])
      BY <1>1, <2>2 DEF RefuseProof, TokenValid, Truthful, Genuine
    <3> HIDE DEF c
    <3> QED
      BY <3>1, <3>2, EndKnown
  <2>3. CASE Admit(r, i)
    <3>1. checks'[r] = ChecksOf(i)
      BY <2>3 DEF Admit, TypeOK
    <3>2. cfg.dpop \in BOOLEAN /\ cfg.binding \in BOOLEAN
      BY ConfigAssumption DEF TypeOK
    <3>3. cfg.dpop => ProofSound(cfg, i)
      BY <2>3 DEF Admit, ProofVerdict, ProofSound
    <3>4. Vetted(r)'
      BY <1>1, <2>3, <3>3 DEF Admit, TokenValid, Vetted, ProofSound, Genuine
    <3>5. Truthful(cfg', checks'[r], input'[r]) /\ Admitted(cfg', checks'[r])
      <4> DEFINE c == ChecksOf(i)
      <4>1. c.tokenValid /\ ~c.jtiReplayed /\ c.dpopValid = cfg.dpop
        BY DEF ChecksOf
      <4>2. c.jktMatch <=> (cfg.dpop => i.proof.key = i.token.jkt)
        BY DEF ChecksOf
      <4> HIDE DEF c
      <4>3. i.token # NoToken /\ i.token.genuine
        BY <2>3 DEF Admit, TokenValid
      <4>4. Truthful(cfg, c, i)
        BY <3>2, <3>3, <4>1, <4>2, <4>3 DEF Truthful, Genuine
      <4>5. Admitted(cfg, c)
        BY <3>2, <3>3, <4>1, <4>2 DEF Admitted, ProofSound
      <4> QED
        BY <1>1, <3>1, <4>4, <4>5 DEF c
    <3>6. pc'[r] = "policy" \/ (pc'[r] = "body" /\ ~cfg'.policy)
      BY <2>3 DEF Admit, TypeOK
    <3> QED
      BY <3>4, <3>5, <3>6 DEF Known, LimitsHold
  <2> QED
    BY <2>1, <2>2, <2>3 DEF Verify
<1> QED
  BY <1>2, <1>3 DEF MediationInv

(* The answer of OPA is enforced on a request whose checks are known.        *)
LEMMA EnforceKnown ==
  ASSUME TypeOK, SettleInv, MediationInv, NEW r \in Request, NEW d \in Decision,
         Enforce(r, d), pc[r] = "policy", d = "ALLOW" => LimitsHold(r)
  PROVE  MediationInv'
<1>1. Known(r) /\ Vetted(r) /\ Truthful(cfg, checks[r], input[r])
      /\ Admitted(cfg, checks[r])
  BY DEF MediationInv, Known
<1>2. cfg' = cfg /\ input' = input /\ checks' = checks /\ risk' = risk
  BY DEF Enforce
<1>3. ASSUME NEW q \in Request, q # r PROVE Known(q)'
  <2>1. pc'[q] = pc[q] /\ audit'[q] = audit[q]
    BY <1>3 DEF Enforce, Finish, TypeOK
  <2> QED
    BY <1>2, <2>1, OthersKnown DEF MediationInv
<1>4. Known(r)'
  <2>1. CASE d = "ALLOW"
    <3>1. pc'[r] = "body"
      BY <2>1 DEF Enforce, TypeOK
    <3>2. Vetted(r)' /\ LimitsHold(r)'
      BY <1>1, <1>2, <2>1 DEF Vetted, LimitsHold, ProofSound, Genuine
    <3>3. Truthful(cfg', checks'[r], input'[r]) /\ Admitted(cfg', checks'[r])
      BY <1>1, <1>2
    <3> QED
      BY <3>1, <3>2, <3>3 DEF Known
  <2>2. CASE d # "ALLOW"
    <3>1. Finish(r, IF d = "CHALLENGE" THEN 401 ELSE 403, d, checks[r])
      BY <2>2 DEF Enforce
    <3> QED
      BY <1>1, <1>2, <2>2, <3>1, EndKnown
  <2> QED
    BY <2>1, <2>2
<1> QED
  BY <1>3, <1>4 DEF MediationInv

(* A step that only ends a handler, with a truthful record.                  *)
LEMMA EndKeepsKnown ==
  ASSUME TypeOK, SettleInv, MediationInv, NEW r \in Request, NEW st, NEW d, NEW c,
         Finish(r, st, d, c), pc[r] # "done", cfg' = cfg, checks' = checks,
         risk' = risk, \A q \in Request : q # r => input'[q] = input[q],
         Truthful(cfg, c, input'[r]),
         d = "ALLOW" /\ cfg.dpop /\ ~cfg.passthrough => c.tokenValid /\ c.dpopValid
  PROVE  MediationInv'
<1>1. Known(r)'
  BY EndKnown
<1>2. ASSUME NEW q \in Request, q # r PROVE Known(q)'
  <2>1. pc'[q] = pc[q] /\ audit'[q] = audit[q]
    BY <1>2 DEF Finish, TypeOK
  <2> QED
    BY <1>2, <2>1, OthersKnown DEF MediationInv
<1> QED
  BY <1>1, <1>2 DEF MediationInv

(* A step that moves one handler that has checked nothing yet. *)
LEMMA ArrivalKnown ==
  ASSUME TypeOK, MediationInv, NEW r \in Request, NEW i \in Input, Take(r, i),
         NEW place, pc' = [pc EXCEPT ![r] = place],
         place = "keys" \/ (place = "body" /\ cfg.passthrough),
         UNCHANGED <<cfg, checks, risk, audit>>
  PROVE  MediationInv'
<1>1. input' = [input EXCEPT ![r] = i] /\ pc[r] = "absent"
  BY DEF Take
<1>2. ASSUME NEW q \in Request, q # r PROVE Known(q)'
  <2>1. pc'[q] = pc[q] /\ input'[q] = input[q]
    BY <1>1, <1>2 DEF TypeOK
  <2> QED
    BY <2>1, OthersKnown DEF MediationInv
<1>3. checks'[r] = NoChecks
  BY <1>1 DEF MediationInv, Known
<1>4. Truthful(cfg', checks'[r], input'[r])
  BY <1>3, NothingChecked
<1>5. pc'[r] = place
  BY DEF TypeOK
<1>6. Known(r)'
  BY <1>3, <1>4, <1>5 DEF Known
<1> QED
  BY <1>2, <1>6 DEF MediationInv

LEMMA ReceiveKnown ==
  ASSUME TypeOK, SettleInv, MediationInv, NEW r \in Request, NEW i \in Input,
         Receive(r, i)
  PROVE  MediationInv'
<1>1. Take(r, i) /\ pc[r] = "absent" /\ input' = [input EXCEPT ![r] = i]
  BY DEF Receive, ReceivePassthrough, ReceiveNoBearer, ReceiveCold,
         ReceiveWarm, Take
<1>2. \A q \in Request : q # r => input'[q] = input[q]
  BY <1>1 DEF TypeOK
<1>3. CASE ReceivePassthrough(r, i)
  BY <1>1, <1>3, ArrivalKnown DEF ReceivePassthrough
<1>4. CASE ReceiveNoBearer(r, i)
  BY <1>1, <1>2, <1>4, EndKeepsKnown, NothingChecked DEF ReceiveNoBearer
<1>5. CASE ReceiveCold(r, i)
  BY <1>1, <1>5, ArrivalKnown DEF ReceiveCold
<1>6. CASE ReceiveWarm(r, i)
  BY <1>1, <1>6, VerifyKnown DEF ReceiveWarm
<1> QED
  BY <1>3, <1>4, <1>5, <1>6 DEF Receive

(* What is known of a forwarded request suffices for its ALLOW record. *)
LEMMA ForwardedKnown ==
  ASSUME TypeOK, MediationInv, NEW r \in Request, pc[r] \in {"body", "upstream"}
  PROVE  /\ Truthful(cfg, checks[r], input[r])
         /\ cfg.dpop /\ ~cfg.passthrough =>
              checks[r].tokenValid /\ checks[r].dpopValid
<1>1. Truthful(cfg, checks[r], input[r])
  BY DEF MediationInv, Known
<1>2. ~cfg.passthrough => Admitted(cfg, checks[r])
  BY DEF MediationInv, Known
<1> QED
  BY <1>1, <1>2 DEF Admitted

LEMMA HandleKnown ==
  ASSUME TypeOK, SettleInv, MediationInv, NEW r \in Request, Handle(r)
  PROVE  MediationInv'
<1>1. input[r] \in Input /\ risk[r] \in 0..100
  BY DEF TypeOK
<1>2. CASE KeysArrive(r)
  <2>1. input' = [input EXCEPT ![r] = input[r]]
    BY <1>2 DEF KeysArrive, TypeOK
  <2> QED
    BY <1>1, <1>2, <2>1, VerifyKnown DEF KeysArrive
<1>3. CASE KeysFail(r)
  BY <1>3, EndKeepsKnown, NothingChecked DEF KeysFail
<1>4. CASE OpaAnswers(r)
  <2> DEFINE d == FromOpa(RegoAnswer(cfg, checks[r], risk[r], Limits))
  <2>1. Limits.allow \in Int /\ Limits.deny \in Int /\ risk[r] \in Int
    BY <1>1, LimitsAssumption
  <2>2. d = "ALLOW" => LimitsHold(r)
    BY <2>1, OpaAllow DEF LimitsHold
  <2>3. d \in Decision
    BY FromOpaDecides
  <2>4. Enforce(r, d) /\ pc[r] = "policy"
    BY <1>4 DEF OpaAnswers
  <2> HIDE DEF d
  <2> QED
    BY <2>2, <2>3, <2>4, EnforceKnown
<1>5. CASE OpaFails(r)
  <2>1. FromOpa(NoAnswer) = "DENY" /\ "DENY" \in Decision
    BY DEF FromOpa, NoAnswer, Decision
  <2> QED
    BY <1>5, <2>1, EnforceKnown DEF OpaFails
<1>6. CASE UpstreamAnswers(r)
  <2>1. PICK st \in {200, 403} : Finish(r, st, "ALLOW", checks[r])
    BY <1>6 DEF UpstreamAnswers
  <2>2. pc[r] = "upstream" /\ UNCHANGED <<cfg, input, checks, risk>>
    BY <1>6 DEF UpstreamAnswers
  <2> QED
    BY <2>1, <2>2, ForwardedKnown, EndKeepsKnown
<1>7. CASE UpstreamFails(r)
  BY <1>7, ForwardedKnown, EndKeepsKnown DEF UpstreamFails
<1> QED
  BY <1>2, <1>3, <1>4, <1>5, <1>6, <1>7 DEF Handle

LEMMA ReadBodyKnown ==
  ASSUME TypeOK, SettleInv, MediationInv, NEW r \in Request, ReadBody(r)
  PROVE  MediationInv'
<1>1. CASE BodyArrives(r)
  <2>1. UNCHANGED <<cfg, input, checks, risk, audit>> /\ pc[r] = "body"
    BY <1>1 DEF BodyArrives
  <2>2. pc'[r] = "upstream" /\ \A q \in Request : q # r => pc'[q] = pc[q]
    BY <1>1 DEF BodyArrives, TypeOK
  <2>3. Truthful(cfg, checks[r], input[r])
        /\ (~cfg.passthrough =>
              Vetted(r) /\ LimitsHold(r) /\ Admitted(cfg, checks[r]))
    BY <2>1 DEF MediationInv, Known
  <2>4. (~cfg.passthrough => Vetted(r) /\ LimitsHold(r))'
    BY <2>1, <2>3 DEF Vetted, LimitsHold, ProofSound, Genuine
  <2>5. Truthful(cfg', checks'[r], input'[r])
        /\ (~cfg'.passthrough => Admitted(cfg', checks'[r]))
    BY <2>1, <2>3
  <2>6. Known(r)'
    BY <2>2, <2>4, <2>5 DEF Known
  <2> QED
    BY <2>1, <2>2, <2>6, OthersKnown DEF MediationInv
<1>2. CASE ClientLeaves(r)
  BY <1>2, ForwardedKnown, EndKeepsKnown DEF ClientLeaves
<1> QED
  BY <1>1, <1>2 DEF ReadBody

(* A restart loses the requests whose handlers wait.                         *)
LEMMA RestartKnown ==
  ASSUME TypeOK, MediationInv, Restart
  PROVE  MediationInv'
<1> SUFFICES ASSUME NEW q \in Request PROVE Known(q)'
  BY DEF MediationInv
<1>1. Known(q)
  BY DEF MediationInv
<1>2. UNCHANGED <<input, checks, audit>>
  BY DEF Restart
<1>3. pc'[q] = IF pc[q] \in Waiting THEN "lost" ELSE pc[q]
  BY DEF Restart
<1>4. CASE pc[q] = "done"
  <2>1. pc'[q] = "done"
    BY <1>3, <1>4 DEF Waiting
  <2>2. Recorded(q) /\ Recorded(q)' = Recorded(q)
    BY <1>1, <1>2, <1>4 DEF Known, Recorded
  <2> QED
    BY <2>1, <2>2 DEF Known
<1>5. CASE pc[q] # "done"
  <2>1. pc'[q] = "lost" \/ (pc'[q] = "absent" /\ pc[q] = "absent")
    BY <1>3, <1>5 DEF Waiting, TypeOK, Place
  <2>2. pc[q] = "absent" => checks'[q] = NoChecks
    BY <1>1, <1>2 DEF Known
  <2> QED
    BY <2>1, <2>2 DEF Known
<1> QED
  BY <1>4, <1>5

LEMMA MediationInvariant == Spec => []MediationInv
<1>1. Init => MediationInv
  BY DEF Init, MediationInv, Known
<1>2. TypeOK /\ SettleInv /\ MediationInv /\ [Next]_vars => MediationInv'
  <2> SUFFICES ASSUME TypeOK, SettleInv, MediationInv, [Next]_vars
               PROVE  MediationInv'
    OBVIOUS
  <2>1. CASE \E r \in Request, i \in Input : Receive(r, i)
    BY <2>1, ReceiveKnown
  <2>2. CASE \E r \in Request : Handle(r) \/ ReadBody(r)
    BY <2>2, HandleKnown, ReadBodyKnown
  <2>3. CASE KeysExpire \/ ResetState \/ UNCHANGED vars
    <3>1. UNCHANGED <<cfg, pc, checks, risk, input, audit>>
      BY <2>3 DEF KeysExpire, ResetState, vars, handler
    <3> QED
      BY <3>1, OthersKnown DEF MediationInv
  <2>4. CASE Restart
    BY <2>4, RestartKnown
  <2> QED
    BY <2>1, <2>2, <2>3, <2>4 DEF Next
<1> QED
  BY <1>1, <1>2, TypeCorrect, SettleInvariant, PTL DEF Spec

(* Complete mediation, for every configuration and number of requests: no    *)
(* request reaches the resource server unverified or on a score that the     *)
(* thresholds forbid (stages 1 to 6 of handle_request).                      *)
THEOREM NothingUnverifiedForwarded == Spec => []CompleteMediation
<1>1. MediationInv => CompleteMediation
  BY DEF MediationInv, Known, CompleteMediation, LimitsHold
<1> QED
  BY <1>1, MediationInvariant, PTL

(* The hard rules of zt.rego never decide about a request that the pipeline  *)
(* sends to OPA, whatever is ablated (main.py stages 1 to 5).                *)
THEOREM HardRulesPreempted == Spec => []DenyHardPreempted
<1>1. TypeOK /\ MediationInv => DenyHardPreempted
  <2> SUFFICES ASSUME TypeOK, MediationInv, NEW r \in Request, pc[r] = "policy"
               PROVE  Admitted(cfg, checks[r]) /\ ~DenyHard(cfg, checks[r])
    BY DEF DenyHardPreempted
  <2>1. Admitted(cfg, checks[r])
    BY DEF MediationInv, Known
  <2>2. cfg.dpop \in BOOLEAN /\ cfg.binding \in BOOLEAN /\ checks[r] \in Checks
    BY ConfigAssumption DEF TypeOK
  <2> QED
    BY <2>1, <2>2, AdmittedPreempts
<1> QED
  BY <1>1, TypeCorrect, MediationInvariant, PTL

-----------------------------------------------------------------------------
(***************************************************************************)
(* The replay flag on record.  Whatever is in the replay cache was put      *)
(* there by a request that is past verification, and only a refused proof   *)
(* is recorded with the flag.                                               *)
(***************************************************************************)

ReplayInv ==
  /\ \A r \in Request : ~checks[r].jtiReplayed
  /\ \A j \in spent : \E q \in Request : Burnt(q, cfg, j)
  /\ \A r \in Request :
       pc[r] = "done" /\ audit[r][1].checks.jtiReplayed =>
         ReplayExplained(r, audit[r][1].flags)

(* A request that is past verification stays so, with its input. *)
LEMMA VerifiedStay ==
  ASSUME TypeOK, [Next]_vars, NEW q \in Request, pc[q] \notin Fresh
  PROVE  pc'[q] \notin Fresh /\ input'[q] = input[q]
<1>1. ASSUME NEW r \in Request, NEW i \in Input, Verifies(r, i)
      PROVE  pc'[q] \notin Fresh /\ input'[q] = input[q]
  BY <1>1 DEF Verifies, Verify, RefuseToken, RefuseProof, Admit, Finish, TypeOK
<1>2. CASE Resets
  BY <1>2 DEF Resets, Fresh
<1>3. CASE Bystands
  BY <1>3 DEF Bystands
<1> QED
  BY <1>1, <1>2, <1>3, TrustCases

LEMMA FlagStaysDown ==
  ASSUME TypeOK, [Next]_vars, \A r \in Request : ~checks[r].jtiReplayed
  PROVE  \A r \in Request : ~checks'[r].jtiReplayed
<1>1. ASSUME NEW r \in Request, NEW i \in Input, Verify(r, i)
      PROVE  \A q \in Request : ~checks'[q].jtiReplayed
  <2>1. ~ChecksOf(i).jtiReplayed
    BY DEF ChecksOf
  <2>2. checks' = checks \/ checks' = [checks EXCEPT ![r] = ChecksOf(i)]
    BY <1>1 DEF Verify, RefuseToken, RefuseProof, Admit
  <2> QED
    BY <2>1, <2>2 DEF TypeOK
<1>2. ASSUME NEW r \in Request, NEW i \in Input, Receive(r, i)
      PROVE  \A q \in Request : ~checks'[q].jtiReplayed
  BY <1>1, <1>2 DEF Receive, ReceivePassthrough, ReceiveNoBearer, ReceiveCold,
                    ReceiveWarm
<1>3. ASSUME NEW r \in Request, Handle(r) \/ ReadBody(r)
      PROVE  \A q \in Request : ~checks'[q].jtiReplayed
  <2>1. input[r] \in Input
    BY DEF TypeOK
  <2> QED
    BY <1>1, <1>3, <2>1 DEF Handle, ReadBody, KeysArrive, KeysFail, OpaAnswers,
          OpaFails, Enforce, UpstreamAnswers, UpstreamFails, BodyArrives,
          ClientLeaves
<1>4. CASE KeysExpire \/ ResetState \/ Restart \/ UNCHANGED vars
  BY <1>4 DEF KeysExpire, ResetState, Restart, vars, handler
<1> QED
  BY <1>2, <1>3, <1>4 DEF Next

LEMMA SpentIsBurnt ==
  ASSUME TypeOK, ReplayInv, [Next]_vars
  PROVE  \A j \in spent' : \E q \in Request : Burnt(q, cfg, j)'
<1>1. SUFFICES ASSUME NEW j \in spent'
      PROVE  \E q \in Request : Burnt(q, cfg, j)'
  OBVIOUS
<1>2. CASE j \in spent /\ cfg' = cfg
  <2>1. PICK q \in Request : Burnt(q, cfg, j)
    BY <1>2 DEF ReplayInv
  <2>2. pc'[q] \notin Fresh /\ input'[q] = input[q]
    BY <2>1, VerifiedStay DEF Burnt, Fresh
  <2> QED
    BY <1>2, <2>1, <2>2 DEF Burnt, Fresh, Genuine
<1>3. ASSUME NEW r \in Request, NEW i \in Input, Verifies(r, i), j \notin spent
      PROVE  Burnt(r, cfg, j)'
  <2>1. TokenValid(i) /\ SpendsJti(i) /\ j = i.proof.jti
    BY <1>3 DEF Verifies, Verify, RefuseToken, RefuseProof, Admit, trust, NowSpent
  <2>2. /\ Genuine(i) /\ i.proof # NoProof /\ i.proof.wellFormed
        /\ i.proof.forThisUrl
        /\ cfg.binding => i.proof.key = i.token.jkt
    BY <2>1 DEF TokenValid, Genuine, SpendsJti, ProofVerdict
  <2>3. input'[r] = i /\ cfg' = cfg
    BY <1>3 DEF Verifies, TypeOK
  <2>4. \E place \in {"done", "policy", "body"} : pc' = [pc EXCEPT ![r] = place]
    BY <1>3 DEF Verifies, Verify, RefuseToken, RefuseProof, Admit, Finish
  <2>5. pc'[r] \notin Fresh
    BY <2>4 DEF Fresh, TypeOK
  <2> QED
    BY <2>1, <2>2, <2>3, <2>5 DEF Burnt, Fresh, Genuine
<1>4. CASE Resets
  BY <1>4 DEF Resets, LoseTrust
<1>5. CASE Bystands
  BY <1>2, <1>5 DEF Bystands, trust
<1>6. CASE \E r \in Request, i \in Input : Verifies(r, i)
  BY <1>2, <1>3, <1>6 DEF Verifies
<1> QED
  BY <1>4, <1>5, <1>6, TrustCases

(* What explains a flag on record stays true. *)
LEMMA ExplanationStays ==
  ASSUME TypeOK, [Next]_vars, NEW r \in Request, NEW f,
         pc[r] \notin Fresh, ReplayExplained(r, f)
  PROVE  ReplayExplained(r, f)'
<1>1. input'[r] = input[r]
  BY VerifiedStay
<1>2. ASSUME NEW q \in Request, Burnt(q, f, input[r].proof.jti)
      PROVE  Burnt(q, f, input[r].proof.jti)'
  <2>1. pc'[q] \notin Fresh /\ input'[q] = input[q]
    BY <1>2, VerifiedStay DEF Burnt, Fresh
  <2> QED
    BY <1>1, <1>2, <2>1 DEF Burnt, Fresh, Genuine
<1> QED
  BY <1>1, <1>2 DEF ReplayExplained

(* The refusal of a proof explains the flag it records. *)
LEMMA RefusalExplains ==
  ASSUME TypeOK, ReplayInv, [Next]_vars, NEW r \in Request, NEW i \in Input,
         NEW c, FailsProof(r, i, c), c.jtiReplayed, NEW f, f = cfg
  PROVE  ReplayExplained(r, f)'
<1>1. ReplayFlag(i) /\ input'[r] = i
  BY DEF FailsProof, TypeOK
<1>2. i.proof # NoProof /\ i.proof.wellFormed
  BY <1>1 DEF ReplayFlag, ProofVerdict
<1>3. CASE ProofVerdict(i) = "htu_mismatch" /\ i.urlSaysReplay
  <2>1. ~i.proof.forThisUrl
    BY <1>3 DEF ProofVerdict
  <2> QED
    BY <1>1, <1>2, <1>3, <2>1 DEF ReplayExplained
<1>4. CASE ProofVerdict(i) = "replay"
  <2>1. i.proof.jti \in spent
    BY <1>4 DEF ProofVerdict
  <2>2. PICK q \in Request : Burnt(q, cfg, i.proof.jti)
    BY <2>1 DEF ReplayInv
  <2>3. q # r
    BY <2>2 DEF Burnt, FailsProof
  <2>4. pc'[q] \notin Fresh /\ input'[q] = input[q]
    BY <2>2, VerifiedStay DEF Burnt, Fresh
  <2>5. Burnt(q, f, i.proof.jti)'
    BY <2>2, <2>4 DEF Burnt, Fresh, Genuine
  <2> QED
    BY <1>1, <1>2, <2>3, <2>5 DEF ReplayExplained
<1> QED
  BY <1>1, <1>3, <1>4 DEF ReplayFlag

LEMMA FlagsExplained ==
  ASSUME TypeOK, SettleInv, ReplayInv, [Next]_vars, NEW q \in Request,
         pc'[q] = "done", audit'[q][1].checks.jtiReplayed
  PROVE  ReplayExplained(q, audit[q][1].flags)'
<1>1. PICK f : f = audit'[q][1].flags
  OBVIOUS
<1>2. SUFFICES ReplayExplained(q, f)'
  BY <1>1 DEF ReplayExplained, Burnt, Genuine
<1>3. CASE pc[q] = "done" /\ audit'[q] = audit[q]
  <2>1. ReplayExplained(q, f)
    BY <1>1, <1>3 DEF ReplayInv
  <2> QED
    BY <1>3, <2>1, ExplanationStays DEF Fresh
<1>4. ASSUME NEW r \in Request, Ends(r), q # r
      PROVE  pc[q] = "done" /\ audit'[q] = audit[q]
  BY <1>4 DEF Ends, EndsWith, Finish, TypeOK
<1>5. CASE Ends(q)
  <2>1. PICK st \in Status, d \in Decision, c \in Checks : EndsWith(q, st, d, c)
    BY <1>5 DEF Ends
  <2>2. audit[q] = <<>>
    BY <2>1 DEF EndsWith, SettleInv, AuditMatchesOutcome, Early
  <2> DEFINE rec == [decision |-> d, checks |-> c, flags |-> cfg]
  <2>3. audit'[q] = <<rec>>
    BY <2>1, <2>2 DEF EndsWith, Finish, TypeOK
  <2>4. rec.checks = c /\ rec.flags = cfg
    OBVIOUS
  <2> HIDE DEF rec
  <2>5. c.jtiReplayed /\ f = cfg
    BY <1>1, <2>3, <2>4
  <2>6. c # NoChecks /\ c # checks[q]
    BY <2>5 DEF ReplayInv, NoChecks
  <2> QED
    BY <2>1, <2>5, <2>6, RefusalExplains DEF EndsWith
<1>6. ASSUME NEW r \in Request, Moves(r)
      PROVE  pc[q] = "done" /\ audit'[q] = audit[q]
  BY <1>6 DEF Moves, Waiting, TypeOK
<1>7. CASE Loses \/ Rests
  BY <1>3, <1>7 DEF Loses, Rests
<1> QED
  BY <1>3, <1>4, <1>5, <1>6, <1>7, StepCases

LEMMA ReplayInvariant == Spec => []ReplayInv
<1>1. Init => ReplayInv
  BY DEF Init, ReplayInv, NoChecks
<1>2. TypeOK /\ SettleInv /\ ReplayInv /\ [Next]_vars => ReplayInv'
  <2> SUFFICES ASSUME TypeOK, SettleInv, ReplayInv, [Next]_vars PROVE ReplayInv'
    OBVIOUS
  <2>1. (\A r \in Request : ~checks[r].jtiReplayed)'
    BY FlagStaysDown DEF ReplayInv
  <2>2. (\A j \in spent : \E q \in Request : Burnt(q, cfg, j))'
    BY SpentIsBurnt
  <2>3. (\A r \in Request :
           pc[r] = "done" /\ audit[r][1].checks.jtiReplayed =>
             ReplayExplained(r, audit[r][1].flags))'
    BY FlagsExplained
  <2> QED
    BY <2>1, <2>2, <2>3 DEF ReplayInv
<1> QED
  BY <1>1, <1>2, TypeCorrect, SettleInvariant, PTL DEF Spec

(* The check outcomes on record are true of the request they are recorded    *)
(* for, the replay flag included (jsonl_logger.py, main.py 180-190), in      *)
(* every configuration and however the requests interleave.                  *)
THEOREM RecordsTellTruth == Spec => []ChecksTellTruth
<1>1. MediationInv /\ ReplayInv => ChecksTellTruth
  BY DEF MediationInv, Known, Recorded, ReplayInv, ChecksTellTruth
<1> QED
  BY <1>1, MediationInvariant, ReplayInvariant, PTL
=============================================================================
