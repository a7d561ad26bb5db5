-------------------------------- MODULE Sync ---------------------------------
(***************************************************************************)
(* The upload half of the syncer (syncer/syncer.go, Push) with everything  *)
(* that runs beside it: the operator changing records in the same store,   *)
(* a network that loses answers and delays requests, store errors, process *)
(* death, and other syncers on the same file.                              *)
(*                                                                         *)
(* A syncer is one *HTTP value: its mutex makes its own passes sequential, *)
(* so it is a process with a program counter.  One App has one of them at  *)
(* a time, but SetConfigJSON drops it without waiting for its pass, and    *)
(* every vinv process has its own: hence a set of Syncers.                 *)
(*                                                                         *)
(* Not modelled here: wording of errors, headers, the report counts, the   *)
(* last_push_at stamp, back-off durations.                                 *)
(***************************************************************************)
EXTENDS Store

CONSTANTS
    Syncers,        \* *HTTP values that may push to the backend
    BatchSize,      \* Options.BatchSize
    MaxAttempts,    \* Options.MaxAttempts
    MayRefuse,      \* records the backend may refuse, or not acknowledge voiding
    Faults,         \* the faults that may happen, see FaultKinds
    MaxLate         \* bound: requests the network holds back at one time

\* lostResponse  the backend handles a request whose answer never arrives
\* late          a request is handled only after its sender gave up on it
\* crash         the process dies
\* storeError    a store call returns an error
FaultKinds == {"lostResponse", "late", "crash", "storeError"}

ASSUME SyncAssumption ==
    /\ BatchSize \in Nat \ {0}
    /\ MaxAttempts \in Nat \ {0}
    /\ MayRefuse \subseteq Records
    /\ Faults \subseteq FaultKinds
    /\ MaxLate \in Nat

VARIABLES
    backend,        \* what the backend holds, see Backend
    lateBatches,    \* batch bodies still travelling
    lateVoids,      \* void bodies still travelling
    pc,             \* where each syncer is in Push
    cursor,         \* the last id of the page being sent, 0 = ""
    batch,          \* the page being sent, as read from the store
    attempts,       \* failed tries of the request being sent
    accepted,       \* resp.Accepted
    refused,        \* resp.Rejected whose badge is still to be written
    todo,           \* accepted ids that did not become synced, to be looked up
    voids,          \* ids to void, in memory
    marked,         \* FALSE once MarkSynced failed in this round
    queued          \* history: what was confirmed when the pass began

INSTANCE Backend

syncerVars == <<pc, cursor, batch, attempts, accepted, refused, todo, voids, marked, queued>>
netVars == <<lateBatches, lateVoids>>
vars == <<storeVars, backend, netVars, syncerVars>>

Steps == {"idle", "fetch", "post", "mark", "diverge", "refuse", "void", "save"}

EmptyBatch == [r \in Records |-> 0]

TypeOK ==
    /\ StoreTypeOK
    /\ BackendTypeOK
    /\ lateBatches \subseteq Payloads
    /\ lateVoids \subseteq SUBSET Records
    /\ pc \in [Syncers -> Steps]
    /\ cursor \in [Syncers -> Nat]
    /\ batch \in [Syncers -> Payloads]
    /\ attempts \in [Syncers -> 0 .. MaxAttempts - 1]
    /\ accepted \in [Syncers -> SUBSET Records]
    /\ refused \in [Syncers -> SUBSET Records]
    /\ todo \in [Syncers -> SUBSET Records]
    /\ voids \in [Syncers -> SUBSET Records]
    /\ marked \in [Syncers -> BOOLEAN]
    /\ queued \in [Syncers -> SUBSET Records]

Init ==
    /\ StoreInit
    /\ BackendInit
    /\ lateBatches = {}
    /\ lateVoids = {}
    /\ pc = [s \in Syncers |-> "idle"]
    /\ cursor = [s \in Syncers |-> 0]
    /\ batch = [s \in Syncers |-> EmptyBatch]
    /\ attempts = [s \in Syncers |-> 0]
    /\ accepted = [s \in Syncers |-> {}]
    /\ refused = [s \in Syncers |-> {}]
    /\ todo = [s \in Syncers |-> {}]
    /\ voids = [s \in Syncers |-> {}]
    /\ marked = [s \in Syncers |-> TRUE]
    /\ queued = [s \in Syncers |-> {}]

GoTo(s, step) == pc' = [pc EXCEPT ![s] = step]

-----------------------------------------------------------------------------
(* The operator, through the session, the review screens or the CLI. *)

OperatorStep(r) ==
    /\ Insert(r) \/ Update(r) \/ Confirm(r) \/ Reject(r)
    /\ UNCHANGED <<backend, netVars, syncerVars>>

-----------------------------------------------------------------------------
(* A pass: load the pending voids, then page through the queue.  A pass that *)
(* cannot load them returns before it has done anything.                    *)

PushBegin(s) ==
    /\ pc[s] = "idle"
    /\ voids' = [voids EXCEPT ![s] = pendingVoids]
    /\ cursor' = [cursor EXCEPT ![s] = 0]
    /\ queued' = [queued EXCEPT ![s] = {r \in Records : status[r] = "confirmed"}]
    /\ GoTo(s, "fetch")
    /\ UNCHANGED <<storeVars, backend, netVars, batch, attempts, accepted, refused, todo, marked>>

\* An empty page ends the loop; otherwise the cursor moves to the page's last
\* id before anything is sent.
Fetch(s) ==
    LET page == UnsyncedConfirmed(cursor[s], BatchSize)
    IN /\ pc[s] = "fetch"
       /\ \/ /\ page = {}
             /\ GoTo(s, "void")
             /\ UNCHANGED <<cursor, batch>>
          \/ \E last \in page :
                /\ \A r \in page : r <= last
                /\ cursor' = [cursor EXCEPT ![s] = last]
                /\ batch' = [batch EXCEPT ![s] =
                               [r \in Records |-> IF r \in page THEN rev[r] ELSE 0]]
                /\ GoTo(s, "post")
       /\ UNCHANGED <<storeVars, backend, netVars, attempts, accepted, refused, todo, voids,
                      marked, queued>>

FetchFails(s) ==
    /\ "storeError" \in Faults
    /\ pc[s] = "fetch"
    /\ GoTo(s, "save")
    /\ UNCHANGED <<storeVars, backend, netVars, cursor, batch, attempts, accepted, refused, todo,
                   voids, marked, queued>>

-----------------------------------------------------------------------------
(* One request, with its bounded retries (do).  Every way of giving up ends *)
(* the pass: the voids collected so far are saved and Push returns.         *)

\* Sending a request: at "post" the page, at "void" the ids (if there are any).
Sending(s) == pc[s] = "post" \/ (pc[s] = "void" /\ voids[s] # {})

\* Faulty variant: one attempt too many.
RetryOnceMore(s) ==
    \/ /\ attempts[s] < MaxAttempts
       /\ attempts' = [attempts EXCEPT ![s] = @ + 1]
       /\ UNCHANGED pc
    \/ /\ attempts[s] = MaxAttempts
       /\ attempts' = [attempts EXCEPT ![s] = 0]
       /\ GoTo(s, "save")

Retry(s) ==
    \/ /\ attempts[s] + 1 < MaxAttempts
       /\ attempts' = [attempts EXCEPT ![s] = @ + 1]
       /\ UNCHANGED pc
    \/ /\ attempts[s] + 1 = MaxAttempts
       /\ attempts' = [attempts EXCEPT ![s] = 0]
       /\ GoTo(s, "save")

\* What a device may not assume: which records a backend refuses.
Refusable(ids) == SUBSET (ids \cap MayRefuse)

\* A network error or a 5xx/429 before the backend has handled the request.
DoFails(s) ==
    /\ Sending(s)
    /\ Retry(s)
    /\ UNCHANGED <<storeVars, backend, netVars, cursor, batch, accepted, refused, todo, voids,
                   marked, queued>>

\* A 4xx, a 304, or a context cancelled while backing off: no further try.
DoAborts(s) ==
    /\ Sending(s)
    /\ attempts' = [attempts EXCEPT ![s] = 0]
    /\ GoTo(s, "save")
    /\ UNCHANGED <<storeVars, backend, netVars, cursor, batch, accepted, refused, todo, voids,
                   marked, queued>>

\* The backend handles the request; the device sees a timeout, a 5xx from a
\* proxy, or a body it cannot decode.
DoUnanswered(s) ==
    /\ "lostResponse" \in Faults
    /\ Sending(s)
    /\ \/ /\ pc[s] = "post"
          /\ \E no \in Refusable(Held(batch[s])) : HandleBatch(batch[s], no)
       \/ /\ pc[s] = "void"
          /\ \E no \in Refusable(voids[s]) : HandleVoid(voids[s] \ no)
    /\ Retry(s)
    /\ UNCHANGED <<storeVars, netVars, cursor, batch, accepted, refused, todo, voids, marked,
                   queued>>

\* The client times out; the request is still on its way.
DoDelayed(s) ==
    /\ "late" \in Faults
    /\ Sending(s)
    /\ Cardinality(lateBatches) + Cardinality(lateVoids) < MaxLate
    /\ \/ /\ pc[s] = "post"
          /\ lateBatches' = lateBatches \cup {batch[s]}
          /\ UNCHANGED lateVoids
       \/ /\ pc[s] = "void"
          /\ lateVoids' = lateVoids \cup {voids[s]}
          /\ UNCHANGED lateBatches
    /\ Retry(s)
    /\ UNCHANGED <<storeVars, backend, cursor, batch, accepted, refused, todo, voids, marked,
                   queued>>

LateBatch(payload) ==
    /\ \E no \in Refusable(Held(payload)) : HandleBatch(payload, no)
    /\ lateBatches' = lateBatches \ {payload}
    /\ UNCHANGED <<storeVars, lateVoids, syncerVars>>

LateVoid(ids) ==
    /\ \E no \in Refusable(ids) : HandleVoid(ids \ no)
    /\ lateVoids' = lateVoids \ {ids}
    /\ UNCHANGED <<storeVars, lateBatches, syncerVars>>

-----------------------------------------------------------------------------
(* A page is answered. *)

\* Faulty variant: everything sent counts as accepted.
AcceptedEverything(payload, no) == Held(payload)

Accepted(payload, no) == Held(payload) \ no

PostAnswered(s) ==
    /\ pc[s] = "post"
    /\ \E no \in Refusable(Held(batch[s])) :
          /\ HandleBatch(batch[s], no)
          /\ accepted' = [accepted EXCEPT ![s] = Accepted(batch[s], no)]
          /\ refused' = [refused EXCEPT ![s] = no]
    /\ attempts' = [attempts EXCEPT ![s] = 0]
    /\ GoTo(s, "mark")
    /\ UNCHANGED <<storeVars, netVars, cursor, batch, todo, voids, marked, queued>>

Mark(s) ==
    /\ pc[s] = "mark"
    /\ MarkSynced(accepted[s])
    /\ todo' = [todo EXCEPT ![s] = {r \in accepted[s] : status[r] # "confirmed"}]
    /\ marked' = [marked EXCEPT ![s] = TRUE]
    /\ GoTo(s, "diverge")
    /\ UNCHANGED <<backend, netVars, cursor, batch, attempts, accepted, refused, voids, queued>>

\* MarkSynced's transaction rolled back: no id is synced, all are looked up.
MarkFails(s) ==
    /\ "storeError" \in Faults
    /\ pc[s] = "mark"
    /\ todo' = [todo EXCEPT ![s] = accepted[s]]
    /\ marked' = [marked EXCEPT ![s] = FALSE]
    /\ GoTo(s, "diverge")
    /\ UNCHANGED <<storeVars, backend, netVars, cursor, batch, attempts, accepted, refused,
                   voids, queued>>

\* Faulty variant: what did not become synced is taken to be rejected.
DivergedUnlooked(r) == TRUE

Diverged(r) == status[r] = "rejected"

\* divergedIDs: one Get per id, each a separate read of the store.
Diverge(s) ==
    /\ pc[s] = "diverge"
    /\ \E r \in todo[s] :
          /\ voids' = [voids EXCEPT ![s] = IF Diverged(r) THEN @ \cup {r} ELSE @]
          /\ todo' = [todo EXCEPT ![s] = @ \ {r}]
    /\ UNCHANGED <<storeVars, backend, netVars, pc, cursor, batch, attempts, accepted, refused,
                   marked, queued>>

\* The id's Get fails: the id is passed over.
DivergeFails(s) ==
    /\ "storeError" \in Faults
    /\ pc[s] = "diverge"
    /\ \E r \in todo[s] : todo' = [todo EXCEPT ![s] = @ \ {r}]
    /\ UNCHANGED <<storeVars, backend, netVars, pc, cursor, batch, attempts, accepted, refused,
                   voids, marked, queued>>

DivergeDone(s) ==
    /\ pc[s] = "diverge"
    /\ todo[s] = {}
    /\ GoTo(s, IF marked[s] THEN "refuse" ELSE "save")
    /\ UNCHANGED <<storeVars, backend, netVars, cursor, batch, attempts, accepted, refused, todo,
                   voids, marked, queued>>

Refuse(s) ==
    /\ pc[s] = "refuse"
    /\ \E r \in refused[s] :
          /\ SetSyncRejected(r)
          /\ refused' = [refused EXCEPT ![s] = @ \ {r}]
    /\ UNCHANGED <<backend, netVars, pc, cursor, batch, attempts, accepted, todo, voids, marked,
                   queued>>

RefuseFails(s) ==
    /\ "storeError" \in Faults
    /\ pc[s] = "refuse"
    /\ refused[s] # {}
    /\ GoTo(s, "save")
    /\ UNCHANGED <<storeVars, backend, netVars, cursor, batch, attempts, accepted, refused, todo,
                   voids, marked, queued>>

\* Faulty variant: the loop also ends on a page the backend refused in part.
LastPageOrRefusal(s) == Cardinality(Held(batch[s])) < BatchSize \/ accepted[s] # Held(batch[s])

LastPage(s) == Cardinality(Held(batch[s])) < BatchSize

RefuseDone(s) ==
    /\ pc[s] = "refuse"
    /\ refused[s] = {}
    /\ GoTo(s, IF LastPage(s) THEN "void" ELSE "fetch")
    /\ batch' = [batch EXCEPT ![s] = EmptyBatch]
    /\ accepted' = [accepted EXCEPT ![s] = {}]
    /\ UNCHANGED <<storeVars, backend, netVars, cursor, attempts, refused, todo, voids, marked,
                   queued>>

-----------------------------------------------------------------------------
(* sendVoids, and the one write that makes the voids durable. *)

VoidNothing(s) ==
    /\ pc[s] = "void"
    /\ voids[s] = {}
    /\ GoTo(s, "save")
    /\ UNCHANGED <<storeVars, backend, netVars, cursor, batch, attempts, accepted, refused, todo,
                   voids, marked, queued>>

\* Faulty variant: every id sent is forgotten, acknowledged or not.
ForgetSent(ids, acked) == {}

Leftover(ids, acked) == ids \ acked

VoidAnswered(s) ==
    /\ pc[s] = "void"
    /\ voids[s] # {}
    /\ \E no \in Refusable(voids[s]) :
          LET acked == voids[s] \ no
          IN /\ HandleVoid(acked)
             /\ voids' = [voids EXCEPT ![s] = Leftover(@, acked)]
    /\ attempts' = [attempts EXCEPT ![s] = 0]
    /\ GoTo(s, "save")
    /\ UNCHANGED <<storeVars, netVars, cursor, batch, accepted, refused, todo, marked, queued>>

\* Push returns and its locals are gone.
Return(s) ==
    /\ pc' = [pc EXCEPT ![s] = "idle"]
    /\ cursor' = [cursor EXCEPT ![s] = 0]
    /\ batch' = [batch EXCEPT ![s] = EmptyBatch]
    /\ attempts' = [attempts EXCEPT ![s] = 0]
    /\ accepted' = [accepted EXCEPT ![s] = {}]
    /\ refused' = [refused EXCEPT ![s] = {}]
    /\ todo' = [todo EXCEPT ![s] = {}]
    /\ voids' = [voids EXCEPT ![s] = {}]
    /\ marked' = [marked EXCEPT ![s] = TRUE]
    /\ queued' = [queued EXCEPT ![s] = {}]

\* Faulty variant: what a pass found diverged is not written down.
SaveNothingNew(s) == SetPendingVoids(pendingVoids \cap voids[s])

\* Faulty variant: adds to the saved ids and never takes one away.
SaveUnion(s) == SetPendingVoids(pendingVoids \cup voids[s])

SavePendingVoids(s) == SetPendingVoids(voids[s])

Save(s) ==
    /\ pc[s] = "save"
    /\ SavePendingVoids(s)
    /\ Return(s)
    /\ UNCHANGED <<backend, netVars>>

\* savePendingVoids ignores the error of its write.
SaveFails(s) ==
    /\ "storeError" \in Faults
    /\ pc[s] = "save"
    /\ Return(s)
    /\ UNCHANGED <<storeVars, backend, netVars>>

\* The process dies and starts again: only the store survives.
Crash(s) ==
    /\ "crash" \in Faults
    /\ pc[s] # "idle"
    /\ Return(s)
    /\ UNCHANGED <<storeVars, backend, netVars>>

-----------------------------------------------------------------------------
PassStep(s) ==
    \/ Fetch(s) \/ FetchFails(s)
    \/ DoFails(s) \/ DoAborts(s) \/ DoUnanswered(s) \/ DoDelayed(s)
    \/ PostAnswered(s)
    \/ Mark(s) \/ MarkFails(s)
    \/ Diverge(s) \/ DivergeFails(s) \/ DivergeDone(s)
    \/ Refuse(s) \/ RefuseFails(s) \/ RefuseDone(s)
    \/ VoidNothing(s) \/ VoidAnswered(s)
    \/ Save(s) \/ SaveFails(s)

Next ==
    \/ \E r \in Records : OperatorStep(r)
    \/ \E s \in Syncers : PushBegin(s) \/ PassStep(s) \/ Crash(s)
    \/ \E payload \in lateBatches : LateBatch(payload)
    \/ \E ids \in lateVoids : LateVoid(ids)

Spec == Init /\ [][Next]_vars

-----------------------------------------------------------------------------
(* Safety. *)

\* A record is marked synced - immutable on the device, its audio purgeable -
\* only if the backend holds it.  Whatever fails, and however many syncers
\* run: Push hands MarkSynced only ids the backend has accepted, and nothing
\* withdraws an id that is not rejected.
SyncedWasAccepted == \A r \in Records : status[r] = "synced" => backend[r] > 0

\* A draft never leaves the device: the backend holds only what the operator
\* has confirmed at some time (confirmed, synced, or rejected since).
OnlyConfirmedUploaded ==
    \A r \in Live : status[r] \in {"confirmed", "synced", "rejected"}

\* The void protocol withdraws only what the operator has rejected: in the
\* store, in a pass's memory, and on the wire.
VoidsAreRejected ==
    /\ \A r \in pendingVoids : status[r] = "rejected"
    /\ \A s \in Syncers : \A r \in voids[s] : status[r] = "rejected"
    /\ \A ids \in lateVoids : \A r \in ids : status[r] = "rejected"

\* A refusal recorded while the record was being synced or rejected leaves no
\* badge on a synced record: it would show in batch review for ever.
SyncedHasNoBadge == \A r \in badge : status[r] \in {"confirmed", "rejected"}

\* A pass that reaches its voids has offered everything that was confirmed
\* when it began: what is still confirmed was refused, and says so.
PassCoversQueue ==
    \A s \in Syncers : pc[s] = "void" =>
        \A r \in queued[s] : status[r] = "confirmed" => r \in badge

Quiet == (\A s \in Syncers : pc[s] = "idle") /\ lateBatches = {} /\ lateVoids = {}

\* When nothing is in flight, a record the operator rejected is gone from the
\* backend or waits in pending_voids to be withdrawn.  It is what the void
\* protocol is for (syncer.go:196-200); it needs a network that answers, one
\* syncer and a store that does not fail.
NoSilentDivergence ==
    Quiet => \A r \in Live : status[r] = "rejected" => r \in pendingVoids

\* The device and the backend agree on the content of a synced record.
SyncedMatchesBackend ==
    \A r \in Records : status[r] = "synced" => backend[r] = rev[r]

\* An id leaves pending_voids only once the backend has withdrawn it: the
\* read-modify-write spread over a pass loses no id.
PendingVoidsNotLost ==
    [][\A r \in pendingVoids \ pendingVoids' : backend[r] = 0]_vars

-----------------------------------------------------------------------------
(* Refinement: the promise of the whole upload path. *)

outbox == INSTANCE Outbox WITH uploaded <- Live

Refines == outbox!Spec

-----------------------------------------------------------------------------
(* Liveness. *)

\* The shells offer a sync action and the operator keeps using it; a pass
\* keeps running; a request repeated for ever is answered in the end.
Fairness ==
    /\ \A s \in Syncers : WF_vars(PushBegin(s)) /\ WF_vars(PassStep(s))
    /\ \A s \in Syncers, r \in Records :
          /\ SF_vars(PostAnswered(s) /\ batch[s][r] > 0)
          /\ SF_vars(VoidAnswered(s) /\ r \in voids[s])

LiveSpec == Spec /\ Fairness

\* A pass comes to its end, whatever the backend refuses.
PassTerminates == \A s \in Syncers : pc[s] # "idle" ~> pc[s] = "idle"

\* A confirmed record the backend would take is uploaded, or rejected by the
\* operator: refused records at the head of the queue do not starve it.
EventuallySettled ==
    \A r \in Records \ MayRefuse :
        status[r] = "confirmed" ~> status[r] \in {"synced", "rejected"}

\* A pending void that the backend acknowledges when asked is not kept for
\* ever.
VoidsDrain == \A r \in Records \ MayRefuse : r \in pendingVoids ~> r \notin pendingVoids
=============================================================================
