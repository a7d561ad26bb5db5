----------------------------- MODULE Sync_proofs ------------------------------
(***************************************************************************)
(* Proofs about Sync, for every set of records and of syncers, every page  *)
(* size and every choice of faults.  That a pass covers the queue needs the *)
(* device to hold finitely many records.                                   *)
(***************************************************************************)
EXTENDS Sync, TLAPS, FiniteSetTheorems, WellFoundedInduction

-----------------------------------------------------------------------------
(* What the store and the backend do to their own state. *)

LEMMA OperatorTyped ==
    ASSUME StoreTypeOK, NEW r \in Records, Insert(r) \/ Update(r) \/ Confirm(r) \/ Reject(r)
    PROVE  StoreTypeOK'
  <1> USE StoreAssumption DEF StoreTypeOK, Statuses
  <1>1. CASE Insert(r)
    BY <1>1 DEF Insert
  <1>2. CASE Update(r)
    <2>1. rev[r] + 1 \in 0 .. MaxRev
      BY <1>2 DEF Update
    <2> QED BY <1>2, <2>1 DEF Update
  <1>3. CASE Confirm(r)
    BY <1>3 DEF Confirm, SetStatus
  <1>4. CASE Reject(r)
    BY <1>4 DEF Reject, SetStatus
  <1> QED BY <1>1, <1>2, <1>3, <1>4

\* A page holds confirmed records only.
LEMMA PageConfirmed ==
    ASSUME NEW after, NEW limit
    PROVE  UnsyncedConfirmed(after, limit) \subseteq {r \in Records : status[r] = "confirmed"}
  BY DEF UnsyncedConfirmed

LEMMA MarkSyncedTyped ==
    ASSUME StoreTypeOK, NEW ids \in SUBSET Records, MarkSynced(ids)
    PROVE  StoreTypeOK'
  BY DEF StoreTypeOK, Statuses, MarkSynced

LEMMA SetSyncRejectedTyped ==
    ASSUME StoreTypeOK, NEW r \in Records, SetSyncRejected(r)
    PROVE  StoreTypeOK'
  BY DEF StoreTypeOK, SetSyncRejected

LEMMA SetPendingVoidsTyped ==
    ASSUME StoreTypeOK, NEW ids \in SUBSET Records, SetPendingVoids(ids)
    PROVE  StoreTypeOK'
  BY DEF StoreTypeOK, SetPendingVoids

LEMMA HandleBatchTyped ==
    ASSUME BackendTypeOK, NEW payload \in Payloads, NEW no, HandleBatch(payload, no)
    PROVE  BackendTypeOK'
  BY DEF BackendTypeOK, Payloads, HandleBatch

LEMMA HandleVoidTyped ==
    ASSUME BackendTypeOK, NEW ids, HandleVoid(ids)
    PROVE  BackendTypeOK'
  BY StoreAssumption DEF BackendTypeOK, HandleVoid

-----------------------------------------------------------------------------
(* Type correctness. *)

SyncersTypeOK ==
    /\ pc \in [Syncers -> Steps]
    /\ cursor \in [Syncers -> Nat]
    /\ batch \in [Syncers -> Payloads]
    /\ attempts \in [Syncers -> 0 .. MaxAttempts - 1]
    /\ accepted \in [Syncers -> SUBSET Records]
    /\ refused \in [Syncers -> SUBSET Records]
    /\ todo \in [Syncers -> SUBSET Records]
    /\ voids \in [Syncers -> SUBSET Records]
    /\ marked \in [Syncers -> BOOLEAN]
    /\ queued \in [Syncers -> SUBSET Records]

LEMMA EmptyBatchTyped == EmptyBatch \in Payloads
  BY StoreAssumption DEF EmptyBatch, Payloads

LEMMA ReturnTyped ==
    ASSUME SyncersTypeOK, NEW s \in Syncers, Return(s)
    PROVE  SyncersTypeOK'
  <1>1. 0 \in 0 .. MaxAttempts - 1
    BY SyncAssumption
  <1> QED BY <1>1, EmptyBatchTyped DEF SyncersTypeOK, Return, Steps

LEMMA RetryTyped ==
    ASSUME SyncersTypeOK, NEW s \in Syncers, Retry(s)
    PROVE  /\ pc' \in [Syncers -> Steps]
           /\ attempts' \in [Syncers -> 0 .. MaxAttempts - 1]
  <1>1. CASE attempts[s] + 1 < MaxAttempts /\ attempts' = [attempts EXCEPT ![s] = @ + 1]
             /\ UNCHANGED pc
    <2>1. attempts[s] + 1 \in 0 .. MaxAttempts - 1
      BY <1>1, SyncAssumption DEF SyncersTypeOK
    <2> QED BY <1>1, <2>1 DEF SyncersTypeOK
  <1>2. CASE attempts' = [attempts EXCEPT ![s] = 0] /\ GoTo(s, "save")
    <2>1. 0 \in 0 .. MaxAttempts - 1
      BY SyncAssumption
    <2> QED BY <1>2, <2>1 DEF SyncersTypeOK, GoTo, Steps
  <1> QED BY <1>1, <1>2 DEF Retry

\* The parts of the state TypeOK speaks of, one lemma per kind of step.
LEMMA TypeParts ==
    TypeOK <=> /\ StoreTypeOK
               /\ BackendTypeOK
               /\ lateBatches \subseteq Payloads /\ lateVoids \subseteq SUBSET Records
               /\ SyncersTypeOK
  BY DEF TypeOK, SyncersTypeOK

LEMMA StepTyped == TypeOK /\ [Next]_vars => TypeOK'
  <1> SUFFICES ASSUME TypeOK, [Next]_vars
               PROVE  TypeOK'
    OBVIOUS
  <1> USE DEF TypeOK
  <1>0. SyncersTypeOK
    BY DEF SyncersTypeOK
  <1>1. CASE UNCHANGED vars
    BY <1>1 DEF vars, storeVars, netVars, syncerVars, StoreTypeOK, BackendTypeOK
  <1>2. ASSUME NEW r \in Records, OperatorStep(r)
        PROVE  TypeOK'
    <2>1. StoreTypeOK'
      BY <1>2, OperatorTyped DEF OperatorStep
    <2> QED BY <1>2, <2>1 DEF OperatorStep, netVars, syncerVars, BackendTypeOK
  <1>3. ASSUME NEW payload \in lateBatches, LateBatch(payload)
        PROVE  TypeOK'
    <2>1. BackendTypeOK'
      BY <1>3, HandleBatchTyped DEF LateBatch
    <2> QED BY <1>3, <2>1 DEF LateBatch, storeVars, syncerVars, StoreTypeOK
  <1>4. ASSUME NEW ids \in lateVoids, LateVoid(ids)
        PROVE  TypeOK'
    <2>1. BackendTypeOK'
      BY <1>4, HandleVoidTyped DEF LateVoid
    <2> QED BY <1>4, <2>1 DEF LateVoid, storeVars, syncerVars, StoreTypeOK
  <1>5. ASSUME NEW s \in Syncers, PushBegin(s) \/ PassStep(s) \/ Crash(s)
        PROVE  TypeOK'
    <2> USE DEF storeVars, netVars, StoreTypeOK, BackendTypeOK
    <2>1. CASE PushBegin(s)
      BY <2>1 DEF PushBegin, GoTo, Steps
    <2>2. CASE Fetch(s)
      <3> DEFINE page == UnsyncedConfirmed(cursor[s], BatchSize)
                 body == [r \in Records |-> IF r \in page THEN rev[r] ELSE 0]
      <3>1. page \subseteq Nat /\ body \in Payloads
        <4>1. page \subseteq Records
          BY PageConfirmed
        <4>2. \A r \in Records : rev[r] \in 0 .. MaxRev /\ 0 \in 0 .. MaxRev
          BY StoreAssumption
        <4> HIDE DEF page
        <4> QED BY <4>1, <4>2, StoreAssumption DEF Payloads
      <3>2. CASE page = {} /\ GoTo(s, "void") /\ UNCHANGED <<cursor, batch>>
        BY <2>2, <3>2 DEF Fetch, GoTo, Steps
      <3>3. ASSUME NEW last \in page, cursor' = [cursor EXCEPT ![s] = last],
                   batch' = [batch EXCEPT ![s] = body], GoTo(s, "post")
            PROVE  TypeOK'
        BY <2>2, <3>1, <3>3 DEF Fetch, GoTo, Steps
      <3> QED BY <2>2, <3>2, <3>3 DEF Fetch
    <2>3. CASE FetchFails(s)
      BY <2>3 DEF FetchFails, GoTo, Steps
    <2>4. CASE DoFails(s)
      BY <1>0, <2>4, RetryTyped DEF DoFails
    <2>5. CASE DoAborts(s)
      BY <2>5, SyncAssumption DEF DoAborts, GoTo, Steps
    <2>6. CASE DoUnanswered(s)
      <3>1. BackendTypeOK'
        BY <2>6, HandleBatchTyped, HandleVoidTyped DEF DoUnanswered
      <3> QED BY <1>0, <2>6, <3>1, RetryTyped DEF DoUnanswered
    <2>7. CASE DoDelayed(s)
      <3>1. lateBatches' \subseteq Payloads /\ lateVoids' \subseteq SUBSET Records
        BY <2>7 DEF DoDelayed
      <3> QED BY <1>0, <2>7, <3>1, RetryTyped DEF DoDelayed
    <2>8. CASE PostAnswered(s)
      <3>1. BackendTypeOK'
        BY <2>8, HandleBatchTyped DEF PostAnswered
      <3>2. accepted' \in [Syncers -> SUBSET Records] /\ refused' \in [Syncers -> SUBSET Records]
        BY <2>8 DEF PostAnswered, Accepted, Held, Refusable
      <3> QED BY <2>8, <3>1, <3>2, SyncAssumption DEF PostAnswered, GoTo, Steps
    <2>9. CASE Mark(s)
      <3>1. StoreTypeOK'
        BY <2>9, MarkSyncedTyped DEF Mark
      <3> QED BY <2>9, <3>1 DEF Mark, GoTo, Steps
    <2>10. CASE MarkFails(s)
      BY <2>10 DEF MarkFails, GoTo, Steps
    <2>11. CASE Diverge(s)
      BY <2>11 DEF Diverge
    <2>12. CASE DivergeFails(s)
      BY <2>12 DEF DivergeFails
    <2>13. CASE DivergeDone(s)
      BY <2>13 DEF DivergeDone, GoTo, Steps
    <2>14. CASE Refuse(s)
      <3>1. StoreTypeOK'
        BY <2>14, SetSyncRejectedTyped DEF Refuse
      <3> QED BY <2>14, <3>1 DEF Refuse
    <2>15. CASE RefuseFails(s)
      BY <2>15 DEF RefuseFails, GoTo, Steps
    <2>16. CASE RefuseDone(s)
      BY <2>16, EmptyBatchTyped DEF RefuseDone, GoTo, Steps
    <2>17. CASE VoidNothing(s)
      BY <2>17 DEF VoidNothing, GoTo, Steps
    <2>18. CASE VoidAnswered(s)
      <3>1. BackendTypeOK'
        BY <2>18, HandleVoidTyped DEF VoidAnswered
      <3> QED BY <2>18, <3>1, SyncAssumption DEF VoidAnswered, Leftover, GoTo, Steps
    <2>19. CASE Save(s)
      <3>1. StoreTypeOK'
        BY <2>19, SetPendingVoidsTyped DEF Save, SavePendingVoids
      <3> QED BY <1>0, <2>19, <3>1, ReturnTyped DEF Save, SyncersTypeOK
    <2>20. CASE SaveFails(s)
      BY <1>0, <2>20, ReturnTyped DEF SaveFails, SyncersTypeOK
    <2>21. CASE Crash(s)
      BY <1>0, <2>21, ReturnTyped DEF Crash, SyncersTypeOK
    <2> QED BY <1>5, <2>1, <2>2, <2>3, <2>4, <2>5, <2>6, <2>7, <2>8, <2>9, <2>10, <2>11, <2>12,
               <2>13, <2>14, <2>15, <2>16, <2>17, <2>18, <2>19, <2>20, <2>21 DEF PassStep
  <1> QED BY <1>1, <1>2, <1>3, <1>4, <1>5 DEF Next

LEMMA InitTyped == Init => TypeOK
  BY StoreAssumption, SyncAssumption
     DEF Init, TypeOK, StoreInit, StoreTypeOK, Statuses, BackendInit, BackendTypeOK, EmptyBatch,
         Payloads, Steps

\* Every variable keeps its type; in particular no request is tried more than
\* MaxAttempts times.
THEOREM TypeCorrect == Spec => []TypeOK
  <1> QED BY InitTyped, StepTyped, PTL DEF Spec

-----------------------------------------------------------------------------
(* The safety invariants.  SyncedWasAccepted is not inductive: it rests on  *)
(* what travels and on what a pass remembers.                               *)

Sent == {"confirmed", "synced", "rejected"}

\* What is on its way to the backend was confirmed when it was read, so it
\* has not been a draft since.
TravellingWasConfirmed ==
    /\ \A s \in Syncers : \A r \in Held(batch[s]) : status[r] \in Sent
    /\ \A payload \in lateBatches : \A r \in Held(payload) : status[r] \in Sent

\* What a pass remembers as accepted is live, unless the operator rejected it.
AcceptedIsHeld ==
    \A s \in Syncers : \A r \in accepted[s] :
        status[r] \in Sent /\ (backend[r] > 0 \/ status[r] = "rejected")

SafetyInv ==
    /\ TypeOK
    /\ SyncedWasAccepted
    /\ OnlyConfirmedUploaded
    /\ VoidsAreRejected
    /\ TravellingWasConfirmed
    /\ AcceptedIsHeld

\* Once sent, always in Sent; once synced or rejected, for ever: no step takes
\* a record backwards.
Forward ==
    \A r \in Records :
        /\ status[r] \in Sent => status'[r] \in Sent
        /\ status[r] \in {"synced", "rejected"} => status'[r] = status[r]
        /\ status'[r] = "synced" /\ status[r] # "synced" =>
              status[r] = "confirmed" /\ \E s \in Syncers : r \in accepted[s]

\* The backend gains only what was sent and loses only what was rejected.
BackendMoves ==
    \A r \in Records :
        /\ backend'[r] > 0 /\ ~ (backend[r] > 0) => status[r] \in Sent
        /\ backend[r] > 0 /\ ~ (backend'[r] > 0) => status[r] = "rejected"

LEMMA StepForward == TypeOK /\ [Next]_vars => Forward
  <1> SUFFICES ASSUME TypeOK, [Next]_vars
               PROVE  Forward
    OBVIOUS
  <1>0. status \in [Records -> Statuses]
    BY DEF TypeOK, StoreTypeOK
  <1>1. CASE UNCHANGED status
    BY <1>1 DEF Forward
  <1>2. ASSUME NEW r \in Records, OperatorStep(r)
        PROVE  Forward
    <2>1. CASE Insert(r)
      BY <1>0, <2>1 DEF Forward, Insert, Sent
    <2>2. CASE Update(r)
      BY <1>1, <2>2 DEF Update
    <2>3. CASE Confirm(r)
      BY <1>0, <2>3 DEF Forward, Confirm, SetStatus, CanTransition, Sent
    <2>4. CASE Reject(r)
      BY <1>0, <2>4 DEF Forward, Reject, SetStatus, CanTransition, Sent
    <2> QED BY <1>2, <2>1, <2>2, <2>3, <2>4 DEF OperatorStep
  <1>3. ASSUME NEW s \in Syncers, Mark(s)
        PROVE  Forward
    BY <1>0, <1>3 DEF Forward, Mark, MarkSynced, Sent
  <1>4. \/ UNCHANGED status
        \/ \E r \in Records : OperatorStep(r)
        \/ \E s \in Syncers : Mark(s)
    BY DEF Next, PassStep, vars, storeVars, LateBatch, LateVoid, PushBegin, Fetch, FetchFails,
           DoFails, DoAborts, DoUnanswered, DoDelayed, PostAnswered, MarkFails, Diverge,
           DivergeFails, DivergeDone, Refuse, SetSyncRejected, RefuseFails, RefuseDone,
           VoidNothing, VoidAnswered, Save, SavePendingVoids, SetPendingVoids, SaveFails, Crash
  <1> QED BY <1>1, <1>2, <1>3, <1>4

LEMMA StepBackend == SafetyInv /\ [Next]_vars => BackendMoves
  <1> SUFFICES ASSUME SafetyInv, [Next]_vars
               PROVE  BackendMoves
    OBVIOUS
  <1>0. backend \in [Records -> 0 .. MaxRev]
    BY DEF SafetyInv, TypeOK, BackendTypeOK
  <1>1. ASSUME UNCHANGED backend
        PROVE  BackendMoves
    BY <1>1 DEF BackendMoves
  <1>2. ASSUME NEW payload \in Payloads, NEW no, HandleBatch(payload, no),
               \A r \in Held(payload) : status[r] \in Sent
        PROVE  BackendMoves
    BY <1>0, <1>2 DEF BackendMoves, HandleBatch, Held, Payloads
  <1>3. ASSUME NEW ids, HandleVoid(ids), \A r \in ids : status[r] = "rejected"
        PROVE  BackendMoves
    BY <1>0, <1>3 DEF BackendMoves, HandleVoid
  <1>4. ASSUME NEW payload \in lateBatches, LateBatch(payload)
        PROVE  BackendMoves
    BY <1>2, <1>4 DEF LateBatch, SafetyInv, TypeOK, TravellingWasConfirmed
  <1>5. ASSUME NEW ids \in lateVoids, LateVoid(ids)
        PROVE  BackendMoves
    BY <1>3, <1>5 DEF LateVoid, SafetyInv, VoidsAreRejected
  <1>6. ASSUME NEW s \in Syncers, DoUnanswered(s)
        PROVE  BackendMoves
    <2>1. CASE pc[s] = "post" /\ \E no \in Refusable(Held(batch[s])) : HandleBatch(batch[s], no)
      BY <1>2, <2>1 DEF SafetyInv, TypeOK, TravellingWasConfirmed
    <2>2. CASE pc[s] = "void" /\ \E no \in Refusable(voids[s]) : HandleVoid(voids[s] \ no)
      BY <1>3, <2>2 DEF SafetyInv, VoidsAreRejected
    <2> QED BY <1>6, <2>1, <2>2 DEF DoUnanswered
  <1>7. ASSUME NEW s \in Syncers, PostAnswered(s)
        PROVE  BackendMoves
    BY <1>2, <1>7 DEF PostAnswered, SafetyInv, TypeOK, TravellingWasConfirmed
  <1>8. ASSUME NEW s \in Syncers, VoidAnswered(s)
        PROVE  BackendMoves
    BY <1>3, <1>8 DEF VoidAnswered, SafetyInv, VoidsAreRejected
  <1>9. \/ UNCHANGED backend
        \/ \E payload \in lateBatches : LateBatch(payload)
        \/ \E ids \in lateVoids : LateVoid(ids)
        \/ \E s \in Syncers : DoUnanswered(s) \/ PostAnswered(s) \/ VoidAnswered(s)
    BY DEF Next, OperatorStep, PassStep, vars, PushBegin, Fetch, FetchFails, DoFails, DoAborts,
           DoDelayed, Mark, MarkFails, Diverge, DivergeFails, DivergeDone, Refuse, RefuseFails,
           RefuseDone, VoidNothing, Save, SaveFails, Crash
  <1> QED BY <1>1, <1>4, <1>5, <1>6, <1>7, <1>8, <1>9

\* What a step may add to the ids waiting to be voided.
VoidMoves ==
    /\ \A r \in pendingVoids' :
          r \in pendingVoids \/ \E s \in Syncers : r \in voids[s]
    /\ \A s \in Syncers : \A r \in voids'[s] :
          r \in voids[s] \/ r \in pendingVoids \/ status[r] = "rejected"
    /\ \A ids \in lateVoids' : ids \in lateVoids \/ \E s \in Syncers : ids = voids[s]

LEMMA StepVoids == TypeOK /\ [Next]_vars => VoidMoves
  <1> SUFFICES ASSUME TypeOK, [Next]_vars
               PROVE  VoidMoves
    OBVIOUS
  <1>0. voids \in [Syncers -> SUBSET Records]
    BY DEF TypeOK
  <1>1. CASE UNCHANGED <<pendingVoids, voids, lateVoids>>
    BY <1>1 DEF VoidMoves
  <1>2. ASSUME NEW s \in Syncers, PushBegin(s)
        PROVE  VoidMoves
    BY <1>0, <1>2 DEF VoidMoves, PushBegin, storeVars, netVars
  <1>3. ASSUME NEW s \in Syncers, Diverge(s)
        PROVE  VoidMoves
    BY <1>0, <1>3 DEF VoidMoves, Diverge, Diverged, storeVars, netVars
  <1>4. ASSUME NEW s \in Syncers, VoidAnswered(s)
        PROVE  VoidMoves
    BY <1>0, <1>4 DEF VoidMoves, VoidAnswered, Leftover, storeVars, netVars
  <1>5. ASSUME NEW s \in Syncers, Save(s) \/ SaveFails(s) \/ Crash(s)
        PROVE  VoidMoves
    BY <1>0, <1>5 DEF VoidMoves, Save, SaveFails, Crash, SavePendingVoids, SetPendingVoids,
                      Return, storeVars, netVars
  <1>6. ASSUME NEW s \in Syncers, DoDelayed(s)
        PROVE  VoidMoves
    BY <1>0, <1>6 DEF VoidMoves, DoDelayed, storeVars
  <1>7. ASSUME NEW ids \in lateVoids, LateVoid(ids)
        PROVE  VoidMoves
    BY <1>7 DEF VoidMoves, LateVoid, storeVars, syncerVars
  <1>8. \/ UNCHANGED <<pendingVoids, voids, lateVoids>>
        \/ \E s \in Syncers : \/ PushBegin(s) \/ Diverge(s) \/ VoidAnswered(s)
                              \/ Save(s) \/ SaveFails(s) \/ Crash(s) \/ DoDelayed(s)
        \/ \E ids \in lateVoids : LateVoid(ids)
    BY DEF Next, OperatorStep, Insert, Update, Confirm, Reject, SetStatus, PassStep, vars,
           storeVars, netVars, syncerVars, Fetch, FetchFails, DoFails, DoAborts, DoUnanswered,
           PostAnswered, Mark, MarkSynced, MarkFails, DivergeFails, DivergeDone, Refuse,
           SetSyncRejected, RefuseFails, RefuseDone, VoidNothing, LateBatch
  <1> QED BY <1>1, <1>2, <1>3, <1>4, <1>5, <1>6, <1>7, <1>8

\* What a step may put on the wire, or call accepted.
UploadMoves ==
    /\ \A s \in Syncers : \A r \in Records :
          batch'[s][r] > 0 => batch[s][r] > 0 \/ status[r] = "confirmed"
    /\ \A payload \in lateBatches' :
          payload \in lateBatches \/ \E s \in Syncers : payload = batch[s]
    /\ \A s \in Syncers : \A r \in accepted'[s] :
          r \in accepted[s] \/ (batch[s][r] > 0 /\ backend'[r] > 0)

LEMMA StepUpload == TypeOK /\ [Next]_vars => UploadMoves
  <1> SUFFICES ASSUME TypeOK, [Next]_vars
               PROVE  UploadMoves
    OBVIOUS
  <1>0. /\ batch \in [Syncers -> Payloads]
        /\ accepted \in [Syncers -> SUBSET Records]
    BY DEF TypeOK
  <1>1. CASE UNCHANGED <<batch, accepted, lateBatches>>
    BY <1>1 DEF UploadMoves
  <1>2. ASSUME NEW s \in Syncers, Fetch(s)
        PROVE  UploadMoves
    <2> DEFINE page == UnsyncedConfirmed(cursor[s], BatchSize)
               body == [r \in Records |-> IF r \in page THEN rev[r] ELSE 0]
    <2>1. \A r \in Records : body[r] > 0 => status[r] = "confirmed"
      BY PageConfirmed
    <2>2. UNCHANGED batch \/ batch' = [batch EXCEPT ![s] = body]
      BY <1>2 DEF Fetch
    <2>3. UNCHANGED <<accepted, lateBatches>>
      BY <1>2 DEF Fetch, netVars
    <2> HIDE DEF body
    <2> QED BY <1>0, <2>1, <2>2, <2>3 DEF UploadMoves
  <1>3. ASSUME NEW s \in Syncers, PostAnswered(s)
        PROVE  UploadMoves
    <2>1. PICK no \in Refusable(Held(batch[s])) :
             /\ HandleBatch(batch[s], no)
             /\ accepted' = [accepted EXCEPT ![s] = Accepted(batch[s], no)]
      BY <1>3 DEF PostAnswered
    <2>2. \A r \in Accepted(batch[s], no) : batch[s][r] > 0 /\ backend'[r] > 0
      BY <2>1 DEF Accepted, Held, HandleBatch
    <2>3. UNCHANGED <<batch, lateBatches>>
      BY <1>3 DEF PostAnswered, netVars
    <2> QED BY <1>0, <2>1, <2>2, <2>3 DEF UploadMoves
  <1>4. ASSUME NEW s \in Syncers, RefuseDone(s)
        PROVE  UploadMoves
    BY <1>0, <1>4 DEF UploadMoves, RefuseDone, EmptyBatch, netVars
  <1>5. ASSUME NEW s \in Syncers, Return(s), UNCHANGED netVars
        PROVE  UploadMoves
    BY <1>0, <1>5 DEF UploadMoves, Return, EmptyBatch, netVars
  <1>6. ASSUME NEW s \in Syncers, DoDelayed(s)
        PROVE  UploadMoves
    BY <1>6 DEF UploadMoves, DoDelayed
  <1>7. ASSUME NEW payload \in lateBatches, LateBatch(payload)
        PROVE  UploadMoves
    BY <1>7 DEF UploadMoves, LateBatch, syncerVars
  <1>8. \/ UNCHANGED <<batch, accepted, lateBatches>>
        \/ \E s \in Syncers : \/ Fetch(s) \/ PostAnswered(s) \/ RefuseDone(s) \/ DoDelayed(s)
                              \/ (Return(s) /\ UNCHANGED netVars)
        \/ \E payload \in lateBatches : LateBatch(payload)
    BY DEF Next, OperatorStep, PassStep, vars, netVars, syncerVars, PushBegin, FetchFails,
           DoFails, DoAborts, DoUnanswered, Mark, MarkFails, Diverge, DivergeFails, DivergeDone,
           Refuse, RefuseFails, VoidNothing, VoidAnswered, Save, SaveFails, Crash, LateVoid
  <1> QED BY <1>1, <1>2, <1>3, <1>4, <1>5, <1>6, <1>7, <1>8

LEMMA StepSafety == SafetyInv /\ [Next]_vars => SafetyInv'
  <1> SUFFICES ASSUME SafetyInv, [Next]_vars
               PROVE  SafetyInv'
    OBVIOUS
  <1>1. TypeOK /\ TypeOK'
    BY StepTyped DEF SafetyInv
  <1>2. Forward /\ VoidMoves /\ UploadMoves
    BY <1>1, StepForward, StepVoids, StepUpload
  <1>3. BackendMoves
    BY StepBackend
  <1>4. SyncedWasAccepted'
    BY <1>2, <1>3 DEF SafetyInv, SyncedWasAccepted, AcceptedIsHeld, Forward, BackendMoves
  <1>5. OnlyConfirmedUploaded'
    BY <1>2, <1>3 DEF SafetyInv, OnlyConfirmedUploaded, Live, Held, Forward, BackendMoves, Sent
  <1>6. VoidsAreRejected'
    <2>1. \A r \in Records : status[r] = "rejected" => status'[r] = "rejected"
      BY <1>2 DEF Forward
    <2>2. /\ pendingVoids \subseteq Records /\ pendingVoids' \subseteq Records
          /\ \A s \in Syncers : voids[s] \subseteq Records /\ voids'[s] \subseteq Records
          /\ lateVoids \subseteq SUBSET Records
      BY <1>1 DEF TypeOK, StoreTypeOK
    <2>3. \A r \in pendingVoids' : status'[r] = "rejected"
      BY <1>2, <2>1, <2>2 DEF SafetyInv, VoidsAreRejected, VoidMoves
    <2>4. \A s \in Syncers : \A r \in voids'[s] : status'[r] = "rejected"
      BY <1>2, <2>1, <2>2 DEF SafetyInv, VoidsAreRejected, VoidMoves
    <2>5. \A ids \in lateVoids' : \A r \in ids : status'[r] = "rejected"
      BY <1>2, <2>1, <2>2 DEF SafetyInv, VoidsAreRejected, VoidMoves
    <2> QED BY <2>3, <2>4, <2>5 DEF VoidsAreRejected
  <1>7. TravellingWasConfirmed'
    BY <1>1, <1>2 DEF SafetyInv, TravellingWasConfirmed, UploadMoves, Forward, Held, Sent
  <1>8. AcceptedIsHeld'
    <2>1. \A s \in Syncers : accepted'[s] \subseteq Records
      BY <1>1 DEF TypeOK
    <2> QED BY <1>2, <1>3, <2>1
            DEF SafetyInv, AcceptedIsHeld, TravellingWasConfirmed, UploadMoves, Forward,
                BackendMoves, Held, Sent
  <1> QED BY <1>1, <1>4, <1>5, <1>6, <1>7, <1>8 DEF SafetyInv

LEMMA InitSafety == Init => SafetyInv
  BY InitTyped
     DEF Init, StoreInit, BackendInit, EmptyBatch, SafetyInv, SyncedWasAccepted,
         OnlyConfirmedUploaded, VoidsAreRejected, TravellingWasConfirmed, AcceptedIsHeld, Live, Held

\* The invariant the three theorems below are read off.
THEOREM Safety == Spec => []SafetyInv
  <1> QED BY InitSafety, StepSafety, PTL DEF Spec

\* Only what the backend holds is called synced, whatever fails and however
\* many syncers run.
THEOREM SyncedIsBackedUp == Spec => []SyncedWasAccepted
  <1>1. SafetyInv => SyncedWasAccepted
    BY DEF SafetyInv
  <1> QED BY <1>1, Safety, PTL

\* No draft reaches the backend.
THEOREM DraftsStay == Spec => []OnlyConfirmedUploaded
  <1>1. SafetyInv => OnlyConfirmedUploaded
    BY DEF SafetyInv
  <1> QED BY <1>1, Safety, PTL

\* No live observation is ever asked to be voided.
THEOREM VoidsOnlyRejected == Spec => []VoidsAreRejected
  <1>1. SafetyInv => VoidsAreRejected
    BY DEF SafetyInv
  <1> QED BY <1>1, Safety, PTL

-----------------------------------------------------------------------------
(* The upload path implements the outbox. *)

LEMMA InitRefines == Init => outbox!Init
  BY DEF Init, StoreInit, BackendInit, Live, Held, outbox!Init

LEMMA StepRefines == SafetyInv /\ [Next]_vars => [outbox!Next]_(outbox!vars)
  <1> SUFFICES ASSUME SafetyInv, [Next]_vars
               PROVE  outbox!Next \/ UNCHANGED outbox!vars
    OBVIOUS
  <1>0. status \in [Records -> Statuses]
    BY DEF SafetyInv, TypeOK, StoreTypeOK
  <1>1. CASE UNCHANGED <<status, backend>>
    BY <1>1 DEF outbox!vars, Live, Held
  <1>2. ASSUME NEW r \in Records, OperatorStep(r)
        PROVE  outbox!Next \/ UNCHANGED outbox!vars
    <2>0. UNCHANGED Live
      BY <1>2 DEF OperatorStep, Live, Held
    <2>1. CASE Insert(r)
      <3>1. outbox!Capture(r)
        BY <1>0, <2>0, <2>1 DEF Insert, outbox!Capture, outbox!With, outbox!Become
      <3> QED BY <3>1 DEF outbox!Next
    <2>2. CASE Update(r)
      BY <2>0, <2>2 DEF Update, outbox!vars
    <2>3. CASE Confirm(r)
      <3>1. outbox!Confirm(r)
        BY <1>0, <2>0, <2>3
           DEF Confirm, SetStatus, CanTransition, outbox!Confirm, outbox!With, outbox!Become
      <3> QED BY <3>1 DEF outbox!Next
    <2>4. CASE Reject(r)
      <3>1. outbox!Discard(r)
        BY <1>0, <2>0, <2>4
           DEF Reject, SetStatus, CanTransition, outbox!Discard, outbox!With, outbox!Become
      <3> QED BY <3>1 DEF outbox!Next
    <2> QED BY <1>2, <2>1, <2>2, <2>3, <2>4 DEF OperatorStep
  <1>3. ASSUME NEW s \in Syncers, Mark(s)
        PROVE  outbox!Next
    <2> DEFINE changed == {r \in accepted[s] : status[r] = "confirmed"}
    <2>1. UNCHANGED Live
      BY <1>3 DEF Mark, Live, Held
    <2>2. changed \in SUBSET (outbox!With("confirmed") \cap Live)
      BY <1>3 DEF SafetyInv, TypeOK, AcceptedIsHeld, outbox!With, Live, Held
    <2>3. outbox!Become(changed, "synced")
      BY <1>3 DEF Mark, MarkSynced, outbox!Become
    <2>4. outbox!Acknowledge
      BY <2>1, <2>2, <2>3 DEF outbox!Acknowledge
    <2> QED BY <2>4 DEF outbox!Next
  <1>4. ASSUME NEW payload \in Payloads, NEW no, HandleBatch(payload, no), UNCHANGED status,
               \A r \in Held(payload) : status[r] \in Sent
        PROVE  outbox!Next
    <2>1. Held(payload) \ no \in
            SUBSET (outbox!With("confirmed") \cup outbox!With("synced") \cup outbox!With("rejected"))
      BY <1>4 DEF Held, Sent, outbox!With
    <2>2. Live' = Live \cup (Held(payload) \ no)
      BY <1>4 DEF Live, Held, HandleBatch
    <2>3. outbox!Deliver
      BY <1>4, <2>1, <2>2 DEF outbox!Deliver
    <2> QED BY <2>3 DEF outbox!Next
  <1>5. ASSUME NEW ids \in SUBSET Records, HandleVoid(ids), UNCHANGED status,
               \A r \in ids : status[r] = "rejected"
        PROVE  outbox!Next
    <2>1. ids \in SUBSET outbox!With("rejected")
      BY <1>5 DEF outbox!With
    <2>2. Live' = Live \ ids
      BY <1>5 DEF Live, Held, HandleVoid
    <2>3. outbox!Withdraw
      BY <1>5, <2>1, <2>2 DEF outbox!Withdraw
    <2> QED BY <2>3 DEF outbox!Next
  <1>6. ASSUME NEW payload \in lateBatches, LateBatch(payload)
        PROVE  outbox!Next
    BY <1>4, <1>6 DEF LateBatch, storeVars, SafetyInv, TypeOK, TravellingWasConfirmed
  <1>7. ASSUME NEW ids \in lateVoids, LateVoid(ids)
        PROVE  outbox!Next
    <2>1. PICK no \in Refusable(ids) : HandleVoid(ids \ no)
      BY <1>7 DEF LateVoid
    <2>2. ids \ no \in SUBSET Records /\ \A r \in ids \ no : status[r] = "rejected"
      BY <1>7 DEF SafetyInv, TypeOK, VoidsAreRejected
    <2> QED BY <1>5, <1>7, <2>1, <2>2 DEF LateVoid, storeVars
  <1>8. ASSUME NEW s \in Syncers, DoUnanswered(s) \/ PostAnswered(s) \/ VoidAnswered(s)
        PROVE  outbox!Next
    <2>1. UNCHANGED status
      BY <1>8 DEF DoUnanswered, PostAnswered, VoidAnswered, storeVars
    <2>2. ASSUME NEW no, HandleBatch(batch[s], no)
          PROVE  outbox!Next
      BY <1>4, <2>1, <2>2 DEF SafetyInv, TypeOK, TravellingWasConfirmed
    <2>3. ASSUME NEW no, HandleVoid(voids[s] \ no)
          PROVE  outbox!Next
      <3>1. voids[s] \ no \in SUBSET Records /\ \A r \in voids[s] \ no : status[r] = "rejected"
        BY DEF SafetyInv, TypeOK, VoidsAreRejected
      <3> QED BY <1>5, <2>1, <2>3, <3>1
    <2> QED BY <1>8, <2>2, <2>3 DEF DoUnanswered, PostAnswered, VoidAnswered
  <1>9. \/ UNCHANGED <<status, backend>>
        \/ \E r \in Records : OperatorStep(r)
        \/ \E s \in Syncers : Mark(s) \/ DoUnanswered(s) \/ PostAnswered(s) \/ VoidAnswered(s)
        \/ \E payload \in lateBatches : LateBatch(payload)
        \/ \E ids \in lateVoids : LateVoid(ids)
    BY DEF Next, PassStep, vars, storeVars, PushBegin, Fetch, FetchFails, DoFails, DoAborts,
           DoDelayed, MarkFails, Diverge, DivergeFails, DivergeDone, Refuse, SetSyncRejected,
           RefuseFails, RefuseDone, VoidNothing, Save, SavePendingVoids, SetPendingVoids,
           SaveFails, Crash
  <1> QED BY <1>1, <1>2, <1>3, <1>6, <1>7, <1>8, <1>9

\* Every behaviour of the upload path, faults included, is one of the outbox.
THEOREM Refinement == Spec => Refines
  <1> QED BY InitRefines, StepRefines, Safety, PTL DEF Spec, Refines, outbox!Spec

-----------------------------------------------------------------------------
(* The void protocol keeps its promise when one syncer runs, every request  *)
(* the backend handles is answered, the store does not fail and the process *)
(* lives: each of these is needed, and the runs show what goes wrong        *)
(* without the first two.                                                   *)

Calm == Faults = {} /\ \E s \in Syncers : Syncers = {s}

NothingLate == lateBatches = {} /\ lateVoids = {}

\* A pass's lookups are over before it leaves "diverge"; at rest it holds none.
LookupsInTime ==
    \A s \in Syncers : /\ pc[s] # "diverge" => todo[s] = {}
                       /\ pc[s] = "idle" => voids[s] = {}

\* A pass carries every saved void, until the backend has withdrawn it.
VoidsCarried ==
    \A s \in Syncers :
        /\ pc[s] \notin {"idle", "save"} => pendingVoids \subseteq voids[s]
        /\ pc[s] = "save" => \A r \in pendingVoids : r \in voids[s] \/ r \notin Live

\* Every live record that is not synced is accounted for: confirmed only while
\* its acceptance is about to be marked, rejected only while the void is on
\* its way to pending_voids.
LiveAccounted ==
    \A r \in Live :
        /\ status[r] = "confirmed" =>
              \E s \in Syncers : pc[s] = "mark" /\ r \in accepted[s]
        /\ status[r] = "rejected" =>
              \/ r \in pendingVoids
              \/ \E s \in Syncers : \/ r \in voids[s] \cup todo[s]
                                    \/ pc[s] = "mark" /\ r \in accepted[s]

CalmInv ==
    /\ SafetyInv
    /\ NothingLate
    /\ LookupsInTime
    /\ VoidsCarried
    /\ LiveAccounted

LEMMA StepCalm == Calm /\ CalmInv /\ [Next]_vars => CalmInv'
  <1> SUFFICES ASSUME Calm, CalmInv, [Next]_vars
               PROVE  CalmInv'
    OBVIOUS
  <1>1. SafetyInv /\ SafetyInv' /\ TypeOK /\ TypeOK'
    BY StepSafety DEF CalmInv, SafetyInv
  <1>2. Forward /\ BackendMoves
    BY <1>1, StepForward, StepBackend
  <1> SUFFICES NothingLate' /\ LookupsInTime' /\ VoidsCarried' /\ LiveAccounted'
    BY <1>1 DEF CalmInv
  <1>3. CASE UNCHANGED vars
    BY <1>3 DEF CalmInv, NothingLate, LookupsInTime, VoidsCarried, LiveAccounted, Live, Held,
                vars, storeVars, netVars, syncerVars
  <1>4. ASSUME NEW r \in Records, OperatorStep(r)
        PROVE  NothingLate' /\ LookupsInTime' /\ VoidsCarried' /\ LiveAccounted'
    <2>1. UNCHANGED <<backend, lateBatches, lateVoids, pc, todo, voids, accepted, pendingVoids>>
      BY <1>4 DEF OperatorStep, Insert, Update, Confirm, Reject, SetStatus, netVars, syncerVars
    <2>2. \A q \in Live : status'[q] = "confirmed" => status[q] = "confirmed"
      BY <1>1, <1>2 DEF SafetyInv, OnlyConfirmedUploaded, Forward, Live, Held
    <2>3. \A q \in Live : status'[q] = "rejected" => status[q] \in {"confirmed", "rejected"}
      BY <1>1, <1>2 DEF SafetyInv, OnlyConfirmedUploaded, Forward, Live, Held
    <2> QED BY <2>1, <2>2, <2>3
            DEF CalmInv, NothingLate, LookupsInTime, VoidsCarried, LiveAccounted, Live, Held
  <1>5. ASSUME NEW s \in Syncers, PushBegin(s) \/ PassStep(s) \/ Crash(s)
        PROVE  NothingLate' /\ LookupsInTime' /\ VoidsCarried' /\ LiveAccounted'
    <2>1. Syncers = {s} /\ Faults = {}
      BY DEF Calm
    <2>2. /\ pc \in [Syncers -> Steps]
          /\ todo \in [Syncers -> SUBSET Records]
          /\ voids \in [Syncers -> SUBSET Records]
          /\ accepted \in [Syncers -> SUBSET Records]
      BY <1>1 DEF TypeOK
    <2>3. /\ lateBatches = {} /\ lateVoids = {}
          /\ pc[s] # "diverge" => todo[s] = {}
          /\ pc[s] = "idle" => voids[s] = {}
          /\ pc[s] \notin {"idle", "save"} => pendingVoids \subseteq voids[s]
          /\ pc[s] = "save" => \A r \in pendingVoids : r \in voids[s] \/ r \notin Live
          /\ \A r \in Live : status[r] = "confirmed" => pc[s] = "mark" /\ r \in accepted[s]
          /\ \A r \in Live : status[r] = "rejected" =>
                \/ r \in pendingVoids \cup voids[s] \cup todo[s]
                \/ pc[s] = "mark" /\ r \in accepted[s]
      BY <2>1 DEF CalmInv, NothingLate, LookupsInTime, VoidsCarried, LiveAccounted
    <2> DEFINE Goal ==
          /\ lateBatches' = {} /\ lateVoids' = {}
          /\ pc'[s] # "diverge" => todo'[s] = {}
          /\ pc'[s] = "idle" => voids'[s] = {}
          /\ pc'[s] \notin {"idle", "save"} => pendingVoids' \subseteq voids'[s]
          /\ pc'[s] = "save" => \A r \in pendingVoids' : r \in voids'[s] \/ r \notin Live'
          /\ \A r \in Live' : status'[r] = "confirmed" => pc'[s] = "mark" /\ r \in accepted'[s]
          /\ \A r \in Live' : status'[r] = "rejected" =>
                \/ r \in pendingVoids' \cup voids'[s] \cup todo'[s]
                \/ pc'[s] = "mark" /\ r \in accepted'[s]
    <2> SUFFICES Goal
      BY <2>1 DEF NothingLate, LookupsInTime, VoidsCarried, LiveAccounted
    <2> USE DEF Live, Held, storeVars, netVars, GoTo
    <2>4. CASE PushBegin(s)
      BY <2>2, <2>3, <2>4 DEF PushBegin
    <2>5. CASE Fetch(s)
      BY <2>2, <2>3, <2>5 DEF Fetch
    <2>6. CASE DoFails(s)
      BY <2>2, <2>3, <2>6 DEF DoFails, Sending, Retry
    <2>7. CASE DoAborts(s)
      BY <2>2, <2>3, <2>7 DEF DoAborts, Sending
    <2>8. CASE PostAnswered(s)
      <3>1. PICK no \in Refusable(Held(batch[s])) :
               /\ HandleBatch(batch[s], no)
               /\ accepted' = [accepted EXCEPT ![s] = Accepted(batch[s], no)]
        BY <2>8 DEF PostAnswered
      <3>2. accepted'[s] = Held(batch[s]) \ no /\ pc'[s] = "mark"
        BY <2>2, <2>8, <3>1 DEF PostAnswered, Accepted
      <3>3. \A r \in Live' : r \in Live \/ r \in accepted'[s]
        BY <3>1, <3>2 DEF HandleBatch
      <3> QED BY <2>2, <2>3, <2>8, <3>2, <3>3 DEF PostAnswered
    <2>9. CASE Mark(s)
      <3>1. \A r \in accepted[s] : status'[r] # "confirmed"
        BY <2>2, <2>9 DEF Mark, MarkSynced
      <3>2. \A r \in Records : status'[r] = "rejected" => status[r] = "rejected"
        BY <2>9 DEF Mark, MarkSynced
      <3>3. \A r \in Records : status'[r] = "confirmed" => status[r] = "confirmed"
        BY <2>9 DEF Mark, MarkSynced
      <3>4. /\ todo'[s] = {r \in accepted[s] : status[r] # "confirmed"} /\ pc'[s] = "diverge"
            /\ UNCHANGED <<backend, lateBatches, lateVoids, pendingVoids, voids, accepted>>
        BY <2>2, <2>9 DEF Mark, MarkSynced
      <3> QED BY <2>2, <2>3, <2>9, <3>1, <3>2, <3>3, <3>4 DEF Mark
    <2>10. CASE Diverge(s)
      BY <2>2, <2>3, <2>10 DEF Diverge, Diverged
    <2>11. CASE DivergeDone(s)
      BY <2>2, <2>3, <2>11 DEF DivergeDone
    <2>12. CASE Refuse(s)
      BY <2>2, <2>3, <2>12 DEF Refuse, SetSyncRejected
    <2>13. CASE RefuseDone(s)
      BY <2>2, <2>3, <2>13 DEF RefuseDone
    <2>14. CASE VoidNothing(s)
      BY <2>2, <2>3, <2>14 DEF VoidNothing
    <2>15. CASE VoidAnswered(s)
      <3>1. PICK no \in Refusable(voids[s]) :
               /\ HandleVoid(voids[s] \ no)
               /\ voids' = [voids EXCEPT ![s] = Leftover(@, voids[s] \ no)]
        BY <2>15 DEF VoidAnswered
      <3>2. voids'[s] = voids[s] \ (voids[s] \ no) /\ pc'[s] = "save"
        BY <2>2, <2>15, <3>1 DEF VoidAnswered, Leftover
      <3>3. Live' = Live \ (voids[s] \ no)
        BY <3>1 DEF HandleVoid
      <3> QED BY <2>2, <2>3, <2>15, <3>2, <3>3 DEF VoidAnswered
    <2>16. CASE Save(s)
      BY <2>2, <2>3, <2>16 DEF Save, SavePendingVoids, SetPendingVoids, Return
    <2> QED BY <1>5, <2>1, <2>4, <2>5, <2>6, <2>7, <2>8, <2>9, <2>10, <2>11, <2>12, <2>13, <2>14,
               <2>15, <2>16
            DEF PassStep, FetchFails, DoUnanswered, DoDelayed, MarkFails, DivergeFails,
                RefuseFails, SaveFails, Crash
  <1>6. (lateBatches = {} /\ lateVoids = {})
    BY DEF CalmInv, NothingLate
  <1> QED BY <1>3, <1>4, <1>5, <1>6 DEF Next

LEMMA InitCalm == Init => CalmInv
  BY InitSafety
     DEF Init, StoreInit, BackendInit, CalmInv, NothingLate, LookupsInTime, VoidsCarried,
         LiveAccounted, Live, Held

\* In calm, a record the operator rejected is off the backend or waits in
\* pending_voids whenever no pass is running: no divergence is silent.
THEOREM RejectedIsWithdrawn == ASSUME Calm PROVE Spec => []NoSilentDivergence
  <1>1. CalmInv => NoSilentDivergence
    BY DEF CalmInv, LiveAccounted, LookupsInTime, NoSilentDivergence, Quiet
  <1>2. CalmInv /\ [Next]_vars => CalmInv'
    BY StepCalm
  <1> QED BY <1>1, <1>2, InitCalm, PTL DEF Spec
-----------------------------------------------------------------------------
(* The badge. *)

\* A badge is put on a confirmed record, and comes off when the record is
\* marked synced and not otherwise.
BadgeMoves ==
    /\ \A r \in badge' \ badge : status[r] = "confirmed" /\ status'[r] = "confirmed"
    /\ \A r \in badge \ badge' : status'[r] = "synced"
    /\ \A r \in badge' : status'[r] = "synced" => status[r] = "synced"

LEMMA StepBadge == TypeOK /\ [Next]_vars => BadgeMoves
  <1> SUFFICES ASSUME TypeOK, [Next]_vars
               PROVE  BadgeMoves
    OBVIOUS
  <1>0. status \in [Records -> Statuses] /\ badge \subseteq Records
    BY DEF TypeOK, StoreTypeOK
  <1>1. CASE UNCHANGED <<status, badge>>
    BY <1>1 DEF BadgeMoves
  <1>2. ASSUME NEW r \in Records, OperatorStep(r)
        PROVE  BadgeMoves
    <2>1. UNCHANGED badge
      BY <1>2 DEF OperatorStep, Insert, Update, Confirm, Reject, SetStatus
    <2>2. \A q \in Records : status'[q] = "synced" => status[q] = "synced"
      BY <1>0, <1>2 DEF OperatorStep, Insert, Update, Confirm, Reject, SetStatus
    <2> QED BY <1>0, <2>1, <2>2 DEF BadgeMoves
  <1>3. ASSUME NEW s \in Syncers, Mark(s)
        PROVE  BadgeMoves
    BY <1>0, <1>3 DEF BadgeMoves, Mark, MarkSynced
  <1>4. ASSUME NEW s \in Syncers, Refuse(s)
        PROVE  BadgeMoves
    BY <1>0, <1>4 DEF BadgeMoves, Refuse, SetSyncRejected
  <1>5. \/ UNCHANGED <<status, badge>>
        \/ \E r \in Records : OperatorStep(r)
        \/ \E s \in Syncers : Mark(s) \/ Refuse(s)
    BY DEF Next, PassStep, vars, storeVars, LateBatch, LateVoid, PushBegin, Fetch, FetchFails,
           DoFails, DoAborts, DoUnanswered, DoDelayed, PostAnswered, MarkFails, Diverge,
           DivergeFails, DivergeDone, RefuseFails, RefuseDone,
           VoidNothing, VoidAnswered, Save, SavePendingVoids, SetPendingVoids, SaveFails, Crash
  <1> QED BY <1>1, <1>2, <1>3, <1>4, <1>5

\* However a refusal and an upload of the same record cross, a synced record
\* carries no badge.
THEOREM BadgeComesOff == Spec => []SyncedHasNoBadge
  <1>1. Init => SyncedHasNoBadge
    BY DEF Init, StoreInit, SyncedHasNoBadge
  <1>2. TypeOK /\ SyncedHasNoBadge /\ [Next]_vars => SyncedHasNoBadge'
    <2> SUFFICES ASSUME TypeOK, SyncedHasNoBadge, [Next]_vars, NEW r \in badge'
                 PROVE  status'[r] \in {"confirmed", "rejected"}
      BY DEF SyncedHasNoBadge
    <2>1. BadgeMoves /\ Forward /\ TypeOK'
      BY StepBadge, StepForward, StepTyped
    <2>2. r \in Records
      BY <2>1 DEF TypeOK, StoreTypeOK
    <2>3. CASE r \notin badge
      BY <2>1, <2>3 DEF BadgeMoves
    <2>4. CASE r \in badge
      <3>1. status[r] \in {"confirmed", "rejected"}
        BY <2>4 DEF SyncedHasNoBadge
      <3>2. status'[r] \in Sent
        BY <2>1, <2>2, <3>1 DEF Forward, Sent
      <3> QED BY <2>1, <3>1, <3>2 DEF BadgeMoves, Sent
    <2> QED BY <2>3, <2>4
  <1> QED BY <1>1, <1>2, TypeCorrect, PTL DEF Spec

-----------------------------------------------------------------------------
(* A page of the queue. *)

\* Every nonempty set of numbers has a smallest one.
LEMMA Least ==
    ASSUME NEW T \in SUBSET Nat, T # {}
    PROVE  \E x \in T : \A y \in T : x <= y
  <1>1. PICK x \in T : \A y \in T : <<y, x>> \notin OpToRel(<, Nat)
    BY NatLessThanWellFounded, WFMin
  <1>2. ASSUME NEW y \in T, y < x
        PROVE  FALSE
    <2>1. <<y, x>> \in Nat \X Nat
      OBVIOUS
    <2>2. <<y, x>>[1] < <<y, x>>[2]
      BY <1>2
    <2>3. <<y, x>> \in OpToRel(<, Nat)
      BY <2>1, <2>2, Zenon DEF OpToRel
    <2> QED BY <1>1, <2>3
  <1> QED BY <1>2

\* What a page leaves waiting lies behind its last record, and it leaves
\* something waiting only if it is full.
LEMMA PageIsAHead ==
    ASSUME IsFiniteSet(Records), NEW after \in Nat, NEW r \in Records,
           status[r] = "confirmed", r > after, r \notin UnsyncedConfirmed(after, BatchSize)
    PROVE  /\ Cardinality(UnsyncedConfirmed(after, BatchSize)) >= BatchSize
           /\ \A last \in UnsyncedConfirmed(after, BatchSize) : r > last
  <1> DEFINE waiting == {q \in Records : status[q] = "confirmed" /\ q > after}
             page == UnsyncedConfirmed(after, BatchSize)
             before(q) == {p \in waiting : p < q}
  <1>0. /\ waiting \subseteq Records /\ Records \subseteq Nat
        /\ page = {q \in waiting : Cardinality(before(q)) < BatchSize}
        /\ BatchSize \in Nat
    BY StoreAssumption, SyncAssumption DEF UnsyncedConfirmed
  <1>1. ASSUME NEW S \in SUBSET Records, NEW Q \in SUBSET S
        PROVE  Cardinality(S) \in Nat /\ Cardinality(Q) \in Nat /\ Cardinality(Q) <= Cardinality(S)
    <2>1. IsFiniteSet(S)
      BY FS_Subset
    <2> QED BY <2>1, FS_Subset, FS_CardinalityType
  <1> HIDE DEF page, waiting
  <1>a. waiting \subseteq Nat /\ page \subseteq waiting /\ page \subseteq Records
    BY <1>0
  <1>2. ASSUME NEW last \in page
        PROVE  r > last
    <2>1. CASE r <= last
      <3>1. before(r) \subseteq before(last)
        <4> SUFFICES ASSUME NEW p \in waiting, p < r
                     PROVE  p < last
          OBVIOUS
        <4>1. p \in Nat /\ r \in Nat /\ last \in Nat
          BY <1>0, <1>2, <1>a
        <4> QED BY <2>1, <4>1
      <3>3. before(last) \subseteq Records
        BY <1>0
      <3>2. Cardinality(before(r)) < BatchSize
        <4>1. Cardinality(before(last)) < BatchSize
          BY <1>0, <1>2
        <4> QED BY <1>0, <1>1, <3>1, <3>3, <4>1
      <3> QED BY <1>0, <3>2 DEF page, waiting
    <2> QED BY <1>0, <2>1
  <1>3. PICK m \in waiting \ page : \A q \in waiting \ page : m <= q
    <2>1. waiting \ page \in SUBSET Nat /\ r \in waiting \ page
      BY <1>0 DEF page, waiting
    <2> QED BY <2>1, Least
  <1>4. before(m) \subseteq page
    <2> SUFFICES ASSUME NEW p \in waiting, p < m, p \notin page
                 PROVE  FALSE
      OBVIOUS
    <2>1. m <= p
      BY <1>3
    <2> QED BY <1>3, <1>a, <2>1
  <1>5. ~ (Cardinality(before(m)) < BatchSize)
    BY <1>0, <1>3
  <1>6. Cardinality(page) >= BatchSize
    <2>1. /\ Cardinality(page) \in Nat /\ Cardinality(before(m)) \in Nat
          /\ Cardinality(before(m)) <= Cardinality(page)
      BY <1>1, <1>4, <1>a
    <2> QED BY <1>0, <1>5, <2>1
  <1> QED BY <1>2, <1>6 DEF page

-----------------------------------------------------------------------------
(* What a pass still owes to the queue it began with, at each of its steps. *)

\* What was confirmed when the pass began, is confirmed yet and has no badge.
Waits(s) == {r \in queued[s] : status[r] = "confirmed" /\ r \notin badge}

\* The loop will come to r on a later page.
Ahead(s, r) == r > cursor[s] /\ ~ LastPage(s)

Covered(s) ==
    \A r \in Waits(s) :
        /\ pc[s] = "fetch" => r > cursor[s]
        /\ pc[s] = "post" => r \in Held(batch[s]) \/ Ahead(s, r)
        /\ pc[s] = "mark" => r \in accepted[s] \cup refused[s] \/ Ahead(s, r)
        /\ pc[s] = "diverge" /\ marked[s] => r \in refused[s] \/ Ahead(s, r)
        /\ pc[s] = "refuse" => r \in refused[s] \/ Ahead(s, r)
        /\ pc[s] # "void"

QueuedWasSent == \A s \in Syncers : \A r \in queued[s] : status[r] \in Sent

\* A row that exists has content, so a page of the queue is never empty on
\* the wire.
RowsHaveContent == \A r \in Records : status[r] # "none" => rev[r] > 0

QueueInv ==
    /\ TypeOK
    /\ RowsHaveContent
    /\ QueuedWasSent
    /\ \A s \in Syncers : Covered(s)

\* The pass of s stands where it stood.
Still(s) ==
    /\ pc'[s] = pc[s] /\ cursor'[s] = cursor[s] /\ batch'[s] = batch[s]
    /\ accepted'[s] = accepted[s] /\ refused'[s] = refused[s] /\ marked'[s] = marked[s]

LEMMA StepContent == TypeOK /\ RowsHaveContent /\ [Next]_vars => RowsHaveContent'
  <1> SUFFICES ASSUME TypeOK, RowsHaveContent, [Next]_vars
               PROVE  RowsHaveContent'
    OBVIOUS
  <1>0. status \in [Records -> Statuses] /\ rev \in [Records -> 0 .. MaxRev]
    BY DEF TypeOK, StoreTypeOK
  <1>1. CASE UNCHANGED <<status, rev>>
    BY <1>1 DEF RowsHaveContent
  <1>2. ASSUME NEW r \in Records, OperatorStep(r)
        PROVE  RowsHaveContent'
    BY <1>0, <1>2, StoreAssumption
       DEF RowsHaveContent, OperatorStep, Insert, Update, Confirm, Reject, SetStatus, CanTransition
  <1>3. ASSUME NEW s \in Syncers, Mark(s)
        PROVE  RowsHaveContent'
    BY <1>0, <1>3 DEF RowsHaveContent, Mark, MarkSynced
  <1>4. \/ UNCHANGED <<status, rev>>
        \/ \E r \in Records : OperatorStep(r)
        \/ \E s \in Syncers : Mark(s)
    BY DEF Next, PassStep, vars, storeVars, LateBatch, LateVoid, PushBegin, Fetch, FetchFails,
           DoFails, DoAborts, DoUnanswered, DoDelayed, PostAnswered, MarkFails, Diverge,
           DivergeFails, DivergeDone, Refuse, SetSyncRejected, RefuseFails, RefuseDone,
           VoidNothing, VoidAnswered, Save, SavePendingVoids, SetPendingVoids, SaveFails, Crash
  <1> QED BY <1>1, <1>2, <1>3, <1>4

\* Nothing joins what a running pass owes, whoever moves.
LEMMA WaitsShrinks ==
    ASSUME TypeOK, QueuedWasSent, [Next]_vars, NEW s \in Syncers, queued'[s] = queued[s]
    PROVE  /\ Waits(s)' \subseteq Waits(s)
           /\ \A r \in queued[s] : status'[r] \in Sent
  <1>1. Forward /\ BadgeMoves
    BY StepForward, StepBadge
  <1>2. queued[s] \subseteq Records
    BY DEF TypeOK
  <1>3. ASSUME NEW r \in queued[s]
        PROVE  status'[r] \in Sent
    BY <1>1, <1>2, <1>3 DEF Forward, QueuedWasSent
  <1>4. ASSUME NEW r \in queued[s], status'[r] = "confirmed", r \notin badge'
        PROVE  status[r] = "confirmed" /\ r \notin badge
    <2>1. status[r] \in Sent
      BY DEF QueuedWasSent
    <2>2. status[r] = "confirmed"
      BY <1>1, <1>2, <1>4, <2>1 DEF Forward, Sent
    <2>3. r \notin badge
      BY <1>1, <1>4 DEF BadgeMoves
    <2> QED BY <2>2, <2>3
  <1> QED BY <1>3, <1>4 DEF Waits

LEMMA StillCovered ==
    ASSUME NEW s \in Syncers, Covered(s), Still(s), Waits(s)' \subseteq Waits(s)
    PROVE  Covered(s)'
  BY DEF Covered, Still, Ahead, LastPage, Held

\* A step is of one syncer, or of none.
LEMMA OneMoves ==
    ASSUME TypeOK, [Next]_vars
    PROVE  \/ \A s \in Syncers : Still(s) /\ queued'[s] = queued[s]
           \/ \E t \in Syncers :
                 /\ PushBegin(t) \/ PassStep(t) \/ Crash(t)
                 /\ \A s \in Syncers \ {t} : Still(s) /\ queued'[s] = queued[s]
  <1>1. CASE UNCHANGED syncerVars
    BY <1>1 DEF syncerVars, Still
  <1>2. ASSUME NEW t \in Syncers, PushBegin(t) \/ PassStep(t) \/ Crash(t),
               NEW s \in Syncers, s # t
        PROVE  Still(s) /\ queued'[s] = queued[s]
    BY <1>2 DEF TypeOK, Still, PushBegin, PassStep, GoTo, Retry, Return, Fetch, FetchFails,
           DoFails, DoAborts, DoUnanswered, DoDelayed, PostAnswered, Mark, MarkFails, Diverge,
           DivergeFails, DivergeDone, Refuse, RefuseFails, RefuseDone,
           VoidNothing, VoidAnswered, Save, SaveFails, Crash
  <1>3. \/ UNCHANGED syncerVars
        \/ \E t \in Syncers : PushBegin(t) \/ PassStep(t) \/ Crash(t)
    BY DEF Next, vars, OperatorStep, LateBatch, LateVoid
  <1> QED BY <1>1, <1>2, <1>3

\* The step of the pass itself.  A pass that returns, or gives up and saves,
\* owes nothing.
LEMMA OwnStep ==
    ASSUME IsFiniteSet(Records), QueueInv, [Next]_vars, NEW s \in Syncers,
           PushBegin(s) \/ PassStep(s) \/ Crash(s)
    PROVE  Covered(s)' /\ \A r \in queued'[s] : status'[r] \in Sent
  <1>0. TypeOK /\ Covered(s)
    BY DEF QueueInv
  <1> USE <1>0 DEF TypeOK
  <1>1. CASE PushBegin(s)
    <2>1. queued'[s] = {r \in Records : status[r] = "confirmed"} /\ cursor'[s] = 0
          /\ pc'[s] = "fetch" /\ status' = status
      BY <1>1 DEF PushBegin, GoTo, storeVars
    <2>2. \A r \in Records : r > 0
      BY StoreAssumption
    <2> QED BY <2>1, <2>2 DEF Covered, Waits, Sent
  <1>2. CASE pc'[s] \in {"idle", "save"} /\ queued'[s] \in {{}, queued[s]}
    <2>1. Covered(s)'
      BY <1>2 DEF Covered
    <2>2. CASE queued'[s] = queued[s]
      BY <2>1, <2>2, WaitsShrinks DEF QueueInv
    <2> QED BY <1>2, <2>1, <2>2
  <1>3. ASSUME queued'[s] = queued[s]
        PROVE  /\ Waits(s)' \subseteq Waits(s)
               /\ \A r \in queued'[s] : status'[r] \in Sent
    BY <1>3, WaitsShrinks DEF QueueInv
  <1>4. CASE Still(s) /\ queued'[s] = queued[s]
    BY <1>3, <1>4, StillCovered
  <1>5. CASE Fetch(s)
    <2> DEFINE page == UnsyncedConfirmed(cursor[s], BatchSize)
    <2>1. queued'[s] = queued[s] /\ UNCHANGED <<status, rev, badge>>
      BY <1>5 DEF Fetch, storeVars
    <2>2. ASSUME NEW r \in Waits(s), r \notin page
          PROVE  Cardinality(page) >= BatchSize /\ \A last \in page : r > last
      <3>1. r \in Records /\ status[r] = "confirmed" /\ r > cursor[s] /\ cursor[s] \in Nat
        BY <1>5 DEF Covered, Waits, Fetch
      <3> QED BY <2>2, <3>1, PageIsAHead
    <2>3. page \subseteq Records /\ \A r \in page : rev[r] > 0
      BY DEF UnsyncedConfirmed, QueueInv, RowsHaveContent
    <2> HIDE DEF page
    <2>4. CASE page = {} /\ GoTo(s, "void")
      <3>1. Waits(s) = {}
        <4>1. Cardinality(page) = 0
          BY <2>4, FS_EmptySet
        <4> QED BY <2>2, <2>4, <4>1, SyncAssumption
      <3> QED BY <1>3, <2>1, <3>1 DEF Covered
    <2>5. ASSUME NEW last \in page, cursor' = [cursor EXCEPT ![s] = last],
                 batch' = [batch EXCEPT ![s] = [r \in Records |-> IF r \in page THEN rev[r] ELSE 0]],
                 GoTo(s, "post")
          PROVE  Covered(s)'
      <3>1. pc'[s] = "post" /\ cursor'[s] = last /\ Held(batch'[s]) = page
        <4>1. batch'[s] = [r \in Records |-> IF r \in page THEN rev[r] ELSE 0]
          BY <2>5
        <4>2. Held(batch'[s]) = page
          BY <2>3, <4>1 DEF Held
        <4> QED BY <2>5, <4>2 DEF GoTo
      <3>2. ASSUME NEW r \in Waits(s), r \notin page
            PROVE  Ahead(s, r)'
        <4>1. Cardinality(page) \in Nat
          BY <2>3, FS_Subset, FS_CardinalityType
        <4> QED BY <2>2, <3>1, <3>2, <4>1, SyncAssumption DEF Ahead, LastPage
      <3> QED BY <1>3, <2>1, <3>1, <3>2 DEF Covered
    <2> QED BY <1>3, <1>5, <2>1, <2>4, <2>5 DEF Fetch, page
  <1>6. CASE PostAnswered(s)
    <2>1. queued'[s] = queued[s] /\ pc'[s] = "mark" /\ cursor' = cursor /\ batch' = batch
      BY <1>6 DEF PostAnswered, GoTo
    <2>2. Held(batch[s]) = accepted'[s] \cup refused'[s]
      BY <1>6 DEF PostAnswered, Accepted, Refusable
    <2>3. \A r \in Waits(s) : r \in Held(batch[s]) \/ Ahead(s, r)
      BY <1>6 DEF PostAnswered, Covered
    <2> QED BY <1>3, <2>1, <2>2, <2>3 DEF Covered, Ahead, LastPage
  <1>7. CASE Mark(s)
    <2>1. queued'[s] = queued[s] /\ pc'[s] = "diverge" /\ cursor' = cursor /\ batch' = batch
          /\ refused' = refused
      BY <1>7 DEF Mark, GoTo
    <2>2. \A r \in Waits(s)' : r \notin accepted[s]
      <3>1. queued[s] \subseteq Records
        OBVIOUS
      <3> QED BY <1>7, <2>1, <3>1 DEF Mark, MarkSynced, Waits, StoreTypeOK
    <2>3. \A r \in Waits(s) : r \in accepted[s] \cup refused[s] \/ Ahead(s, r)
      BY <1>7 DEF Mark, Covered
    <2> QED BY <1>3, <2>1, <2>2, <2>3 DEF Covered, Ahead, LastPage
  <1>8. CASE MarkFails(s)
    <2>1. queued'[s] = queued[s] /\ pc'[s] = "diverge" /\ ~ marked'[s]
      BY <1>8 DEF MarkFails, GoTo
    <2> QED BY <1>3, <2>1 DEF Covered
  <1>9. CASE DivergeDone(s)
    <2>1. queued'[s] = queued[s] /\ cursor' = cursor /\ batch' = batch /\ refused' = refused
          /\ pc'[s] = (IF marked[s] THEN "refuse" ELSE "save") /\ pc[s] = "diverge"
      BY <1>9 DEF DivergeDone, GoTo
    <2> QED BY <1>3, <2>1 DEF Covered, Ahead, LastPage
  <1>10. CASE Refuse(s)
    <2>1. PICK q \in refused[s] : SetSyncRejected(q) /\ refused' = [refused EXCEPT ![s] = @ \ {q}]
      BY <1>10 DEF Refuse
    <2>2. queued'[s] = queued[s] /\ pc' = pc /\ cursor' = cursor /\ batch' = batch
          /\ pc[s] = "refuse" /\ refused'[s] = refused[s] \ {q}
      BY <1>10, <2>1 DEF Refuse
    <2>3. q \notin Waits(s)'
      BY <2>1 DEF SetSyncRejected, Waits
    <2> QED BY <1>3, <2>2, <2>3 DEF Covered, Ahead, LastPage
  <1>11. CASE RefuseDone(s)
    <2>1. queued'[s] = queued[s] /\ cursor' = cursor
          /\ pc'[s] = (IF LastPage(s) THEN "void" ELSE "fetch")
      BY <1>11 DEF RefuseDone, GoTo
    <2>2. \A r \in Waits(s) : Ahead(s, r)
      BY <1>11 DEF RefuseDone, Covered
    <2> QED BY <1>3, <2>1, <2>2 DEF Covered, Ahead
  <1>12. CASE RefuseFails(s) \/ VoidNothing(s) \/ VoidAnswered(s) \/ Save(s) \/ SaveFails(s)
              \/ FetchFails(s) \/ DoAborts(s) \/ Crash(s)
    <2>1. pc'[s] \in {"idle", "save"} /\ queued'[s] \in {{}, queued[s]}
      BY <1>12 DEF RefuseFails, VoidNothing, VoidAnswered, Save, SaveFails, FetchFails, DoAborts,
                   Crash, Return, GoTo
    <2> QED BY <1>2, <2>1
  <1>13. CASE DoFails(s) \/ DoUnanswered(s) \/ DoDelayed(s) \/ Diverge(s) \/ DivergeFails(s)
    <2>1. queued'[s] = queued[s] /\ (pc'[s] = "save" \/ Still(s))
      BY <1>13 DEF DoFails, DoUnanswered, DoDelayed, Diverge, DivergeFails, Retry, GoTo, Still
    <2> QED BY <1>2, <1>4, <2>1
  <1> QED BY <1>1, <1>5, <1>6, <1>7, <1>8, <1>9, <1>10, <1>11, <1>12, <1>13 DEF PassStep

LEMMA StepQueue == IsFiniteSet(Records) /\ QueueInv /\ [Next]_vars => QueueInv'
  <1> SUFFICES ASSUME IsFiniteSet(Records), QueueInv, [Next]_vars
               PROVE  QueueInv'
    OBVIOUS
  <1>1. TypeOK' /\ RowsHaveContent'
    BY StepTyped, StepContent DEF QueueInv
  <1>2. ASSUME NEW s \in Syncers
        PROVE  Covered(s)' /\ \A r \in queued'[s] : status'[r] \in Sent
    <2>1. CASE Still(s) /\ queued'[s] = queued[s]
      BY <2>1, WaitsShrinks, StillCovered DEF QueueInv
    <2>2. CASE PushBegin(s) \/ PassStep(s) \/ Crash(s)
      BY <2>2, OwnStep
    <2> QED BY <2>1, <2>2, OneMoves DEF QueueInv
  <1> QED BY <1>1, <1>2 DEF QueueInv, QueuedWasSent

LEMMA InitQueue == Init => QueueInv
  BY InitTyped
     DEF Init, StoreInit, QueueInv, RowsHaveContent, QueuedWasSent, Covered, Waits

\* Every record that waited when a pass began has been offered by the time the
\* pass turns to its voids: whoever is still confirmed wears the badge of a
\* refusal.  Pages may be refused in part or whole, records may be decided and
\* other passes may run meanwhile.
THEOREM PassLeavesNobodyOut == ASSUME IsFiniteSet(Records) PROVE Spec => []PassCoversQueue
  <1>1. QueueInv => PassCoversQueue
    BY DEF QueueInv, Covered, Waits, PassCoversQueue
  <1>2. QueueInv /\ [Next]_vars => QueueInv'
    BY StepQueue
  <1> QED BY <1>1, <1>2, InitQueue, PTL DEF Spec

-----------------------------------------------------------------------------
(* The pending voids: one syncer, and no request that outlives its sender.   *)
(* Store errors, lost answers and process death are allowed.                 *)

OneCarrier == (\A s, t \in Syncers : s = t) /\ "late" \notin Faults

\* A pass carries every saved id, until the backend has withdrawn it.
VoidsInHand ==
    /\ lateBatches = {} /\ lateVoids = {}
    /\ \A s \in Syncers : pc[s] # "idle" =>
          \A r \in pendingVoids : r \in voids[s] \/ (pc[s] = "save" /\ backend[r] = 0)

NoneLost == \A r \in pendingVoids \ pendingVoids' : backend[r] = 0

LEMMA StepVoidsInHand ==
    ASSUME OneCarrier, TypeOK, VoidsInHand, [Next]_vars
    PROVE  VoidsInHand' /\ NoneLost
  <1>1. CASE UNCHANGED <<backend, pendingVoids, netVars, pc, voids>>
    BY <1>1 DEF VoidsInHand, NoneLost, netVars
  <1>2. ASSUME NEW s \in Syncers, PushBegin(s) \/ PassStep(s) \/ Crash(s)
        PROVE  VoidsInHand' /\ NoneLost
    <2>0. Syncers = {s}
      BY DEF OneCarrier
    <2>a. /\ pc[s] # "idle" => \A r \in pendingVoids :
                  r \in voids[s] \/ (pc[s] = "save" /\ backend[r] = 0)
          /\ lateBatches = {} /\ lateVoids = {}
      BY DEF VoidsInHand
    <2> USE <2>0, <2>a DEF TypeOK, NoneLost, storeVars, netVars, GoTo
    <2>1. CASE PushBegin(s)
      BY <2>1 DEF PushBegin, VoidsInHand
    <2>2. CASE Fetch(s) \/ FetchFails(s) \/ DivergeDone(s) \/ RefuseFails(s) \/ RefuseDone(s)
               \/ VoidNothing(s) \/ DoFails(s) \/ DoAborts(s)
      BY <2>2 DEF Fetch, FetchFails, DivergeDone, RefuseFails, RefuseDone, VoidNothing, DoFails,
                  DoAborts, Sending, Retry, VoidsInHand
    <2>3. CASE DoUnanswered(s)
      BY <2>3 DEF DoUnanswered, Sending, Retry, VoidsInHand
    <2>4. CASE DoDelayed(s)
      BY <2>4 DEF DoDelayed, OneCarrier
    <2>5. CASE PostAnswered(s)
      BY <2>5 DEF PostAnswered, VoidsInHand
    <2>6. CASE Mark(s) \/ MarkFails(s) \/ Refuse(s)
      BY <2>6 DEF Mark, MarkFails, MarkSynced, Refuse, SetSyncRejected, VoidsInHand
    <2>7. CASE Diverge(s) \/ DivergeFails(s)
      BY <2>7 DEF Diverge, DivergeFails, VoidsInHand
    <2>8. CASE VoidAnswered(s)
      <3>1. PICK no \in Refusable(voids[s]) :
                /\ HandleVoid(voids[s] \ no)
                /\ voids' = [voids EXCEPT ![s] = Leftover(@, voids[s] \ no)]
        BY <2>8 DEF VoidAnswered
      <3>2. \A r \in voids[s] : r \in voids'[s] \/ backend'[r] = 0
        BY <3>1 DEF HandleVoid, Leftover
      <3>3. pc'[s] = "save" /\ pendingVoids' = pendingVoids /\ UNCHANGED netVars /\ pc[s] = "void"
        BY <2>8 DEF VoidAnswered
      <3> QED BY <3>2, <3>3 DEF VoidsInHand
    <2>9. CASE Save(s)
      BY <2>9 DEF Save, SavePendingVoids, SetPendingVoids, Return, VoidsInHand
    <2>10. CASE SaveFails(s) \/ Crash(s)
      BY <2>10 DEF SaveFails, Crash, Return, VoidsInHand
    <2> QED BY <1>2, <2>1, <2>2, <2>3, <2>4, <2>5, <2>6, <2>7, <2>8, <2>9, <2>10 DEF PassStep
  <1>3. \/ UNCHANGED <<backend, pendingVoids, netVars, pc, voids>>
        \/ \E s \in Syncers : PushBegin(s) \/ PassStep(s) \/ Crash(s)
    BY DEF VoidsInHand, Next, vars, storeVars, syncerVars, OperatorStep, Insert, Update, Confirm,
           Reject, SetStatus
  <1> QED BY <1>1, <1>2, <1>3

\* With one syncer an id leaves pending_voids only once the backend has
\* withdrawn the record, though the list is read at the start of a pass and
\* written at its end; two_syncers shows that one syncer is what it takes.
THEOREM NoVoidIsLost == ASSUME OneCarrier PROVE Spec => PendingVoidsNotLost
  <1>1. Init => VoidsInHand
    BY DEF Init, VoidsInHand
  <1>2. TypeOK /\ VoidsInHand /\ [Next]_vars => VoidsInHand' /\ [NoneLost]_vars
    BY StepVoidsInHand
  <1> QED BY <1>1, <1>2, TypeCorrect, PTL DEF Spec, PendingVoidsNotLost, NoneLost
=============================================================================
