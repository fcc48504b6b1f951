------------------------------ MODULE Gateway ------------------------------
(***************************************************************************)
(* What the Zero Trust controller promises about each request, whatever its *)
(* configuration and however requests interleave: it is refused without the *)
(* resource server hearing of it, or allowed, received in full from its     *)
(* client and passed on to the resource server once.  In both cases it is   *)
(* answered and leaves exactly one audit record, which says ALLOW if and    *)
(* only if it was allowed.  A client may leave, or stall, while its request *)
(* is being received; only a crash of the process loses one elsewhere       *)
(* between its arrival and its answer.                                      *)
(***************************************************************************)
EXTENDS Sequences

CONSTANTS Request

VARIABLES
  fate,   \* how far each request has come
  trail   \* the decisions recorded for each request

vars == <<fate, trail>>

Fate == {"absent", "held", "receiving", "passed_on", "answered", "lost"}

Underway == {"held", "receiving", "passed_on"}

Init ==
  /\ fate = [r \in Request |-> "absent"]
  /\ trail = [r \in Request |-> <<>>]

Open(r) == fate[r] \in {"absent", "held"}

Hold(r) ==
  /\ fate[r] = "absent"
  /\ fate' = [fate EXCEPT ![r] = "held"]
  /\ UNCHANGED trail

Refuse(r) ==
  /\ Open(r)
  /\ fate' = [fate EXCEPT ![r] = "answered"]
  /\ \E d \in {"DENY", "CHALLENGE"} : trail' = [trail EXCEPT ![r] = <<d>>]

Allow(r) ==
  /\ Open(r)
  /\ fate' = [fate EXCEPT ![r] = "receiving"]
  /\ UNCHANGED trail

PassOn(r) ==
  /\ fate[r] = "receiving"
  /\ fate' = [fate EXCEPT ![r] = "passed_on"]
  /\ UNCHANGED trail

(* The answer of the resource server, or the end of a broken connection. *)
Answer(r) ==
  /\ fate[r] \in {"receiving", "passed_on"}
  /\ fate' = [fate EXCEPT ![r] = "answered"]
  /\ trail' = [trail EXCEPT ![r] = <<"ALLOW">>]

Crash ==
  /\ fate' = [r \in Request |->
                IF fate[r] \in Underway THEN "lost" ELSE fate[r]]
  /\ UNCHANGED trail

Next ==
  \/ \E r \in Request : Hold(r) \/ Refuse(r) \/ Allow(r) \/ PassOn(r) \/ Answer(r)
  \/ Crash

Spec == Init /\ [][Next]_vars

(* No request is held, or waits for the resource server, for ever: one that *)
(* arrives is answered unless a crash loses it, or its client never         *)
(* finishes sending it.                                                     *)
EveryRequestSettled ==
  \A r \in Request :
    <>[](fate[r] \notin Underway) \/ <>[](fate[r] = "receiving")
=============================================================================
