-------------------------------- MODULE Store --------------------------------
(***************************************************************************)
(* The device's SQLite file (store/store.go): the lifecycle column of      *)
(* every observation, the revision its content columns hold, the           *)
(* backend-rejection badge, and the sync_state row "pending_voids".  It is *)
(* the only state of the device that outlives the process.  One operator   *)
(* per store call; each is one SQL statement or one transaction, so each   *)
(* is atomic.  A call that returns ErrNotFound, ErrBadTransition or        *)
(* ErrImmutable changes nothing: here the operator is then disabled.       *)
(***************************************************************************)
EXTENDS Integers, FiniteSets

CONSTANTS
    Records,    \* record ids; UUIDv7 ids compare like the numbers do
    MaxRev      \* bound: how many contents one record takes in its life

ASSUME StoreAssumption ==
    /\ Records \subseteq Nat \ {0}
    /\ MaxRev \in Nat \ {0}

VARIABLES
    status,         \* observations.status, "none" where there is no row
    rev,            \* which content the row holds; 0 where there is no row
    badge,          \* rows whose sync_rejected_reason is not NULL
    pendingVoids    \* sync_state["pending_voids"]

storeVars == <<status, rev, badge, pendingVoids>>

Statuses == {"none", "draft", "confirmed", "synced", "rejected"}

StoreTypeOK ==
    /\ status \in [Records -> Statuses]
    /\ rev \in [Records -> 0 .. MaxRev]
    /\ badge \subseteq Records
    /\ pendingVoids \subseteq Records

StoreInit ==
    /\ status = [r \in Records |-> "none"]
    /\ rev = [r \in Records |-> 0]
    /\ badge = {}
    /\ pendingVoids = {}

-----------------------------------------------------------------------------
(* The lifecycle. *)

\* Faulty variant: a synced record may still be rejected.
CanTransitionAfterSync(from, to) ==
    \/ from = "draft" /\ to \in {"confirmed", "rejected"}
    \/ from \in {"confirmed", "synced"} /\ to \in {"synced", "rejected"}

CanTransition(from, to) ==
    \/ from = "draft" /\ to \in {"confirmed", "rejected"}
    \/ from = "confirmed" /\ to \in {"synced", "rejected"}

Insert(r) ==
    /\ status[r] = "none"
    /\ status' = [status EXCEPT ![r] = "draft"]
    /\ rev' = [rev EXCEPT ![r] = 1]
    /\ UNCHANGED <<badge, pendingVoids>>

\* The whole row is rewritten; only drafts and confirmed records may be.
Update(r) ==
    /\ status[r] \in {"draft", "confirmed"}
    /\ rev[r] < MaxRev
    /\ rev' = [rev EXCEPT ![r] = @ + 1]
    /\ UNCHANGED <<status, badge, pendingVoids>>

SetStatus(r, to) ==
    /\ CanTransition(status[r], to)
    /\ status' = [status EXCEPT ![r] = to]
    /\ UNCHANGED <<rev, badge, pendingVoids>>

Confirm(r) == SetStatus(r, "confirmed")

Reject(r) == SetStatus(r, "rejected")

-----------------------------------------------------------------------------
(* What the syncer asks of it. *)

\* Faulty variant: ignores the cursor, so every page is the first.
UnsyncedWithoutCursor(after, limit) ==
    LET waiting == {r \in Records : status[r] = "confirmed"}
    IN {r \in waiting : Cardinality({q \in waiting : q < r}) < limit}

\* Faulty variant: everything not yet synced or rejected.
UnsyncedActive(after, limit) ==
    LET waiting == {r \in Records : status[r] \in {"draft", "confirmed"} /\ r > after}
    IN {r \in waiting : Cardinality({q \in waiting : q < r}) < limit}

\* Faulty variant: the newest records first, so the cursor jumps the rest.
UnsyncedNewestFirst(after, limit) ==
    LET waiting == {r \in Records : status[r] = "confirmed" /\ r > after}
    IN {r \in waiting : Cardinality({q \in waiting : q > r}) < limit}

\* The oldest `limit` confirmed records with an id above `after`.
UnsyncedConfirmed(after, limit) ==
    LET waiting == {r \in Records : status[r] = "confirmed" /\ r > after}
    IN {r \in waiting : Cardinality({q \in waiting : q < r}) < limit}

\* One transaction: those of ids that are still confirmed become synced and
\* lose their badge.
MarkSynced(ids) ==
    LET changed == {r \in ids : status[r] = "confirmed"}
    IN /\ status' = [r \in Records |-> IF r \in changed THEN "synced" ELSE status[r]]
       /\ badge' = badge \ changed
       /\ UNCHANGED <<rev, pendingVoids>>

\* Faulty variant: the record's status is not looked at.
SetSyncRejectedAnyStatus(r) ==
    /\ badge' = badge \cup {r}
    /\ UNCHANGED <<status, rev, pendingVoids>>

\* ErrNotFound (the record left "confirmed") is skipped by the one caller.
SetSyncRejected(r) ==
    /\ badge' = IF status[r] = "confirmed" THEN badge \cup {r} ELSE badge
    /\ UNCHANGED <<status, rev, pendingVoids>>

SetPendingVoids(ids) ==
    /\ pendingVoids' = ids
    /\ UNCHANGED <<status, rev, badge>>
=============================================================================
