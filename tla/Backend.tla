------------------------------- MODULE Backend -------------------------------
(***************************************************************************)
(* The backend as the device sees it: the records it holds live, keyed by  *)
(* id (cmd/vinv/mockserver.go, the executable reading of                   *)
(* docs/backend-protocol.md).  Each handler runs under the server's mutex, *)
(* so each is one atomic step.  The mock refuses a record only when its    *)
(* Validate fails; the protocol lets a backend refuse for its own reasons, *)
(* so which records of a batch are refused is an argument here.            *)
(***************************************************************************)
EXTENDS Integers

CONSTANTS Records, MaxRev

VARIABLE backend    \* the content revision held for each id; 0 = not held live

BackendTypeOK == backend \in [Records -> 0 .. MaxRev]

BackendInit == backend = [r \in Records |-> 0]

\* A request body: for each id it carries, the revision it carries.
Payloads == [Records -> 0 .. MaxRev]

Held(payload) == {r \in Records : payload[r] > 0}

Live == Held(backend)

\* Idempotent by id: a re-upload overwrites.
HandleBatch(payload, refused) ==
    backend' = [r \in Records |->
                  IF payload[r] > 0 /\ r \notin refused THEN payload[r] ELSE backend[r]]

\* Idempotent: ids it does not hold are voided (and acknowledged) too.
HandleVoid(ids) ==
    backend' = [r \in Records |-> IF r \in ids THEN 0 ELSE backend[r]]
=============================================================================
