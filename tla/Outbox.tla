-------------------------------- MODULE Outbox --------------------------------
(***************************************************************************)
(* What the device and the backend promise together, without pages,        *)
(* retries or passes (docs/backend-protocol.md, spec 10.2): the operator   *)
(* decides about a record, confirmed records reach the backend any number  *)
(* of times, a record is called synced only once the backend holds it, and *)
(* only rejected records are ever withdrawn.                               *)
(***************************************************************************)
CONSTANT Records

VARIABLES
    status,     \* the device's word on each record
    uploaded    \* the records the backend holds live

vars == <<status, uploaded>>

Init ==
    /\ status = [r \in Records |-> "none"]
    /\ uploaded = {}

With(state) == {r \in Records : status[r] = state}

Become(ids, state) == status' = [r \in Records |-> IF r \in ids THEN state ELSE status[r]]

Capture(r) ==
    /\ r \in With("none")
    /\ Become({r}, "draft")
    /\ UNCHANGED uploaded

Confirm(r) ==
    /\ r \in With("draft")
    /\ Become({r}, "confirmed")
    /\ UNCHANGED uploaded

Discard(r) ==
    /\ r \in With("draft") \cup With("confirmed")
    /\ Become({r}, "rejected")
    /\ UNCHANGED uploaded

\* Requests travel: what they carry was confirmed when they were sent.
Deliver ==
    /\ \E ids \in SUBSET (With("confirmed") \cup With("synced") \cup With("rejected")) :
          uploaded' = uploaded \cup ids
    /\ UNCHANGED status

Acknowledge ==
    /\ \E ids \in SUBSET (With("confirmed") \cap uploaded) : Become(ids, "synced")
    /\ UNCHANGED uploaded

Withdraw ==
    /\ \E ids \in SUBSET With("rejected") : uploaded' = uploaded \ ids
    /\ UNCHANGED status

Next ==
    \/ \E r \in Records : Capture(r) \/ Confirm(r) \/ Discard(r)
    \/ Deliver \/ Acknowledge \/ Withdraw

Spec == Init /\ [][Next]_vars
=============================================================================
