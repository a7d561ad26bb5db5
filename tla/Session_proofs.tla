---------------------------- MODULE Session_proofs ----------------------------
(***************************************************************************)
(* Proofs about Session, for every set of records and of threads, every    *)
(* choice of calls, and a store that may fail.                             *)
(***************************************************************************)
EXTENDS Session, TLAPS

\* The steps at which a thread's call is about a record.
AboutRecord ==
    {"confirmStore", "confirmGet", "confirmed", "reject", "rejectGet", "scratched", "update",
     "swap", "clear", "editGet", "editUpdate", "itemConfirm", "itemSaved", "review",
     "autoConfirm"}

\* There a record is aimed at.
Targeted == \A t \in Threads : pc[t] \in AboutRecord => target[t] \in Records

\* A thread about to insert has an item left to insert.
Counted == \A t \in Threads : pc[t] = "insert" => left[t] # 0

SessionInv ==
    /\ TypeOK
    /\ Targeted
    /\ Counted
    /\ ReviewHasPending

-----------------------------------------------------------------------------
(* The store. *)

LEMMA NoneIsNoRecord == None \notin Records /\ MaxRev \in Nat \ {0}
  BY StoreAssumption DEF None

LEMMA SetStatusTyped ==
    ASSUME StoreTypeOK, NEW r, NEW to \in Statuses, SetStatus(r, to)
    PROVE  StoreTypeOK'
  BY DEF StoreTypeOK, SetStatus

LEMMA InsertTyped ==
    ASSUME StoreTypeOK, NEW r \in Records, Insert(r)
    PROVE  StoreTypeOK'
  BY StoreAssumption DEF StoreTypeOK, Insert, Statuses

LEMMA UpdateTyped ==
    ASSUME StoreTypeOK, NEW r \in Records, Update(r)
    PROVE  StoreTypeOK' /\ rev[r] + 1 \in 0 .. MaxRev
  <1>1. rev[r] + 1 \in 0 .. MaxRev
    BY StoreAssumption DEF StoreTypeOK, Update
  <1> QED BY <1>1 DEF StoreTypeOK, Update

LEMMA MarkSyncedTyped ==
    ASSUME StoreTypeOK, NEW ids \in SUBSET Records, MarkSynced(ids)
    PROVE  StoreTypeOK'
  BY DEF StoreTypeOK, Statuses, MarkSynced

LEMMA ConfirmTyped ==
    ASSUME StoreTypeOK, NEW r, Confirm(r) \/ Reject(r)
    PROVE  StoreTypeOK'
  BY SetStatusTyped DEF Confirm, Reject, Statuses

-----------------------------------------------------------------------------
(* The threads. *)

ThreadsTypeOK ==
    /\ pc \in [Threads -> Steps]
    /\ target \in [Threads -> Refs]
    /\ base \in [Threads -> 0 .. MaxRev]
    /\ copy \in [Threads -> 0 .. MaxRev]
    /\ left \in [Threads -> 0 .. MaxItems]
    /\ hadPending \in [Threads -> BOOLEAN]

ThreadsInv == ThreadsTypeOK /\ Targeted /\ Counted

MemoryInv ==
    /\ state \in SessionStates
    /\ pending \in Refs
    /\ pendingRev \in 0 .. MaxRev
    /\ lastSaved \in Refs
    /\ ReviewHasPending

LEMMA Parts ==
    /\ SessionInv <=> StoreTypeOK /\ MemoryInv /\ ThreadsInv
    /\ SessionInv' <=> StoreTypeOK' /\ MemoryInv' /\ ThreadsInv'
  BY DEF SessionInv, TypeOK, MemoryInv, ThreadsInv, ThreadsTypeOK

LEMMA ReturnKeeps ==
    ASSUME ThreadsInv, NEW t \in Threads, Return(t)
    PROVE  ThreadsInv'
  <1>1. 0 \in 0 .. MaxRev /\ 0 \in 0 .. MaxItems
    BY StoreAssumption, SessionAssumption
  <1> QED BY <1>1 DEF ThreadsInv, ThreadsTypeOK, Targeted, Counted, Return, GoTo, Aim, Steps,
                      Refs, None, AboutRecord

\* Going to a step that needs nothing, or keeping the record aimed at.
LEMMA GoToKeeps ==
    ASSUME ThreadsInv, NEW t \in Threads, NEW step \in Steps \ {"insert"}, GoTo(t, step),
           step \in AboutRecord => target[t] \in Records,
           UNCHANGED <<target, base, left, hadPending>>,
           copy' \in [Threads -> 0 .. MaxRev]
    PROVE  ThreadsInv'
  BY DEF ThreadsInv, ThreadsTypeOK, Targeted, Counted, GoTo

LEMMA AimKeeps ==
    ASSUME ThreadsInv, NEW t \in Threads, NEW step \in Steps \ {"insert"}, GoTo(t, step),
           NEW r \in Records, Aim(t, r),
           base' \in [Threads -> 0 .. MaxRev],
           left' \in [Threads -> 0 .. MaxItems],
           \A u \in Threads : u # t => left'[u] = left[u],
           UNCHANGED copy,
           hadPending' \in [Threads -> BOOLEAN]
    PROVE  ThreadsInv'
  BY DEF ThreadsInv, ThreadsTypeOK, Targeted, Counted, GoTo, Aim, Refs

LEMMA ContinueKeeps ==
    ASSUME ThreadsInv, NEW t \in Threads,
           NEW step \in (Steps \ {"insert"}) \cup {"give up"}, Continue(t, step),
           target[t] \in Records
    PROVE  ThreadsInv'
  <1>1. CASE step = "give up"
    BY <1>1, ReturnKeeps DEF Continue
  <1>2. CASE step # "give up"
    <2>1. copy' \in [Threads -> 0 .. MaxRev]
      BY <1>2 DEF Continue, ThreadsInv, ThreadsTypeOK
    <2> QED BY <1>2, <2>1, GoToKeeps DEF Continue
  <1> QED BY <1>1, <1>2

LEMMA Unmoved ==
    /\ StoreTypeOK /\ UNCHANGED storeVars => StoreTypeOK'
    /\ MemoryInv /\ UNCHANGED memVars => MemoryInv'
    /\ ThreadsInv /\ UNCHANGED threadVars => ThreadsInv'
  BY DEF storeVars, memVars, threadVars, StoreTypeOK, MemoryInv, ReviewHasPending, ThreadsInv,
         ThreadsTypeOK, Targeted, Counted

-----------------------------------------------------------------------------
(* One lemma per group of actions. *)

LEMMA CallInv ==
    ASSUME SessionInv, NEW t \in Threads, Call(t)
    PROVE  SessionInv'
  <1>0. StoreTypeOK /\ MemoryInv /\ ThreadsInv
    BY Parts
  <1>1. CASE Arm(t)
    <2>1. MemoryInv'
      BY <1>0, <1>1 DEF Arm, MemoryInv, ReviewHasPending, SessionStates
    <2> QED BY <1>0, <1>1, <2>1, Unmoved, Parts DEF Arm
  <1>2. CASE Disarm(t)
    <2>1. MemoryInv'
      BY <1>0, <1>2 DEF Disarm, MemoryInv, ReviewHasPending, SessionStates
    <2> QED BY <1>0, <1>2, <2>1, Unmoved, Parts DEF Disarm
  <1>3. CASE Hear(t)
    <2>1. left' \in [Threads -> 0 .. MaxItems]
      BY <1>0, <1>3, SessionAssumption DEF Hear, ThreadsInv, ThreadsTypeOK
    <2>2. \A u \in Threads : pc'[u] = "insert" => left'[u] # 0
      BY <1>0, <1>3, SessionAssumption DEF Hear, GoTo, ThreadsInv, ThreadsTypeOK, Counted
    <2>3. pc' \in [Threads -> Steps] /\ \A u \in Threads : pc'[u] \in AboutRecord => pc'[u] = pc[u]
      BY <1>0, <1>3 DEF Hear, GoTo, ThreadsInv, ThreadsTypeOK, Steps, AboutRecord
    <2>4. ThreadsInv'
      BY <1>0, <1>3, <2>1, <2>2, <2>3 DEF Hear, ThreadsInv, ThreadsTypeOK, Targeted, Counted
    <2> QED BY <1>0, <1>3, <2>4, Unmoved, Parts DEF Hear
  <1>4. CASE CallConfirm(t) \/ CallScratch(t) \/ CallCorrect(t)
    <2>1. PICK step \in {"confirm", "scratch", "clone"} : GoTo(t, step)
      BY <1>4 DEF CallConfirm, CallScratch, CallCorrect
    <2>2. UNCHANGED <<storeVars, memVars, target, base, copy, left, hadPending>>
      BY <1>4 DEF CallConfirm, CallScratch, CallCorrect
    <2>3. step \in Steps \ {"insert"} /\ step \notin AboutRecord
      BY DEF Steps, AboutRecord
    <2>4. copy' \in [Threads -> 0 .. MaxRev]
      BY <1>0, <2>2 DEF ThreadsInv, ThreadsTypeOK
    <2>5. ThreadsInv'
      BY <1>0, <2>1, <2>2, <2>3, <2>4, GoToKeeps
    <2> QED BY <1>0, <2>2, <2>5, Unmoved, Parts
  <1>5. CASE CallEdit(t)
    <2>1. PICK r \in Records : Aim(t, r)
      BY <1>5 DEF CallEdit
    <2>2. ThreadsInv'
      BY <1>0, <1>5, <2>1 DEF CallEdit, ThreadsInv, ThreadsTypeOK, Targeted, Counted, GoTo, Aim,
                              Refs, Steps
    <2> QED BY <1>0, <1>5, <2>2, Unmoved, Parts DEF CallEdit
  <1>6. CASE InsertManual(t)
    <2>1. PICK r \in Records : Insert(r) /\ Aim(t, r)
      BY <1>6 DEF InsertManual
    <2>2. ThreadsInv'
      BY <1>0, <1>6, <2>1 DEF InsertManual, ThreadsInv, ThreadsTypeOK, Targeted, Counted, GoTo,
                              Aim, Refs, Steps
    <2> QED BY <1>0, <1>6, <2>1, <2>2, InsertTyped, Unmoved, Parts DEF InsertManual
  <1>7. CASE InsertManualDraft(t)
    <2>1. PICK r \in Records : Insert(r)
      BY <1>7 DEF InsertManualDraft
    <2> QED BY <1>0, <1>7, <2>1, InsertTyped, Unmoved, Parts DEF InsertManualDraft
  <1> QED BY <1>1, <1>2, <1>3, <1>4, <1>5, <1>6, <1>7 DEF Call

\* Confirm and Scratch.
LEMMA DecideInv ==
    ASSUME SessionInv, NEW t \in Threads,
           \/ ConfirmBegin(t) \/ ConfirmStore(t) \/ ConfirmGet(t) \/ Confirmed(t)
           \/ ScratchBegin(t) \/ LastActive(t) \/ RejectTarget(t) \/ RejectGet(t) \/ Scratched(t)
    PROVE  SessionInv'
  <1>0. StoreTypeOK /\ MemoryInv /\ ThreadsInv
    BY Parts
  <1>a. copy \in [Threads -> 0 .. MaxRev] /\ Refs = Records \cup {None} /\ Targeted
    BY <1>0 DEF ThreadsInv, ThreadsTypeOK, Refs
  <1>1. CASE ConfirmBegin(t)
    <2>1. CASE Return(t)
      BY <1>0, <1>1, <2>1, ReturnKeeps, Unmoved, Parts DEF ConfirmBegin
    <2>2. CASE pending # None /\ Aim(t, pending) /\ GoTo(t, "confirmStore")
               /\ UNCHANGED <<base, copy, left, hadPending>>
      <3>1. ThreadsInv'
        BY <1>0, <1>a, <2>2 DEF ThreadsInv, ThreadsTypeOK, Targeted, Counted, GoTo, Aim, Steps,
                                MemoryInv
      <3> QED BY <1>0, <1>1, <3>1, Unmoved, Parts DEF ConfirmBegin
    <2> QED BY <1>1, <2>1, <2>2 DEF ConfirmBegin
  <1>2. CASE ConfirmStore(t)
    <2>1. StoreTypeOK'
      BY <1>0, <1>2, ConfirmTyped, Unmoved DEF ConfirmStore
    <2>2. ThreadsInv'
      BY <1>0, <1>a, <1>2 DEF ConfirmStore, ThreadsInv, ThreadsTypeOK, Targeted, Counted, GoTo,
                              AboutRecord, Steps
    <2> QED BY <1>0, <1>2, <2>1, <2>2, Unmoved, Parts DEF ConfirmStore
  <1>3. CASE ConfirmGet(t)
    <2>1. AfterFailedConfirm(target[t]) \in (Steps \ {"insert"}) \cup {"give up"}
      BY DEF AfterFailedConfirm, Steps
    <2>2. target[t] \in Records
      BY <1>a, <1>3 DEF ConfirmGet, Targeted, AboutRecord
    <2>3. ThreadsInv'
      BY <1>0, <1>3, <2>1, <2>2, ContinueKeeps DEF ConfirmGet
    <2> QED BY <1>0, <1>3, <2>3, Unmoved, Parts DEF ConfirmGet
  <1>4. CASE Confirmed(t)
    <2>1. MemoryInv'
      BY <1>0, <1>a, <1>4 DEF Confirmed, MemoryInv, ReviewHasPending, SessionStates, ThreadsInv,
                              ThreadsTypeOK
    <2> QED BY <1>0, <1>4, <2>1, ReturnKeeps, Unmoved, Parts DEF Confirmed
  <1>5. CASE ScratchBegin(t)
    <2>1. ThreadsInv'
      BY <1>0, <1>a, <1>5 DEF ScratchBegin, ThreadsInv, ThreadsTypeOK, Targeted, Counted, GoTo,
                              Aim, Steps, AboutRecord, MemoryInv
    <2> QED BY <1>0, <1>5, <2>1, Unmoved, Parts DEF ScratchBegin
  <1>6. CASE LastActive(t)
    <2>1. CASE Return(t)
      BY <1>0, <1>6, <2>1, ReturnKeeps, Unmoved, Parts DEF LastActive
    <2>2. ASSUME NEW r \in Records, Aim(t, r), GoTo(t, "reject"),
                 UNCHANGED <<base, copy, left, hadPending>>
          PROVE  SessionInv'
      <3>1. ThreadsInv'
        BY <1>0, <1>a, <2>2 DEF ThreadsInv, ThreadsTypeOK, Targeted, Counted, GoTo, Aim, Steps
      <3> QED BY <1>0, <1>6, <3>1, Unmoved, Parts DEF LastActive
    <2> QED BY <1>6, <2>1, <2>2 DEF LastActive, Active
  <1>7. CASE RejectTarget(t)
    <2>1. StoreTypeOK'
      BY <1>0, <1>7, ConfirmTyped, Unmoved DEF RejectTarget
    <2>2. ThreadsInv'
      BY <1>0, <1>a, <1>7 DEF RejectTarget, ThreadsInv, ThreadsTypeOK, Targeted, Counted, GoTo,
                              AboutRecord, Steps
    <2> QED BY <1>0, <1>7, <2>1, <2>2, Unmoved, Parts DEF RejectTarget
  <1>8. CASE RejectGet(t)
    <2>1. AfterFailedReject(target[t]) \in (Steps \ {"insert"}) \cup {"give up"}
      BY DEF AfterFailedReject, Steps
    <2>2. target[t] \in Records
      BY <1>a, <1>8 DEF RejectGet, Targeted, AboutRecord
    <2>3. ThreadsInv'
      BY <1>0, <1>8, <2>1, <2>2, ContinueKeeps DEF RejectGet
    <2> QED BY <1>0, <1>8, <2>3, Unmoved, Parts DEF RejectGet
  <1>9. CASE Scratched(t)
    <2>1. MemoryInv'
      BY <1>0, <1>a, <1>9 DEF Scratched, Resume, MemoryInv, ReviewHasPending, SessionStates
    <2> QED BY <1>0, <1>9, <2>1, ReturnKeeps, Unmoved, Parts DEF Scratched
  <1> QED BY <1>1, <1>2, <1>3, <1>4, <1>5, <1>6, <1>7, <1>8, <1>9

\* Corrections and edits.
LEMMA CorrectInv ==
    ASSUME SessionInv, NEW t \in Threads,
           CloneBegin(t) \/ UpdateTarget(t) \/ Swap(t) \/ Clear(t) \/ EditGet(t) \/ EditUpdate(t)
    PROVE  SessionInv'
  <1>0. StoreTypeOK /\ MemoryInv /\ ThreadsInv
    BY Parts
  <1>a. copy \in [Threads -> 0 .. MaxRev] /\ Refs = Records \cup {None} /\ Targeted
    BY <1>0 DEF ThreadsInv, ThreadsTypeOK, Refs
  <1>1. CASE CloneBegin(t)
    <2>1. CASE Return(t)
      BY <1>0, <1>1, <2>1, ReturnKeeps, Unmoved, Parts DEF CloneBegin
    <2>2. CASE pending # None /\ Aim(t, pending) /\ base' = [base EXCEPT ![t] = pendingRev]
               /\ GoTo(t, "update") /\ UNCHANGED <<copy, left, hadPending>>
      <3>1. ThreadsInv'
        BY <1>0, <1>a, <2>2 DEF ThreadsInv, ThreadsTypeOK, Targeted, Counted, GoTo, Aim, Steps,
                                MemoryInv
      <3> QED BY <1>0, <1>1, <3>1, Unmoved, Parts DEF CloneBegin
    <2> QED BY <1>1, <2>1, <2>2 DEF CloneBegin
  <1>2. CASE UpdateTarget(t)
    <2>0. target[t] \in Records
      BY <1>a, <1>2 DEF UpdateTarget, Targeted, AboutRecord
    <2>1. StoreTypeOK' /\ copy' \in [Threads -> 0 .. MaxRev]
      <3>1. CASE UpdateRow(t)
        BY <1>0, <1>a, <2>0, <3>1, UpdateTyped DEF UpdateRow
      <3>2. CASE UNCHANGED <<storeVars, copy>>
        BY <1>0, <1>a, <3>2, Unmoved
      <3> QED BY <1>2, <3>1, <3>2 DEF UpdateTarget
    <2>2. ThreadsInv'
      BY <1>0, <1>2, <2>0, <2>1 DEF UpdateTarget, ThreadsInv, ThreadsTypeOK, Targeted, Counted,
                                    GoTo, Steps
    <2> QED BY <1>0, <1>2, <2>1, <2>2, Unmoved, Parts DEF UpdateTarget
  <1>3. CASE Swap(t)
    <2>1. MemoryInv'
      BY <1>0, <1>a, <1>3 DEF Swap, SwapIn, MemoryInv, ReviewHasPending
    <2> QED BY <1>0, <1>3, <2>1, ReturnKeeps, Unmoved, Parts DEF Swap
  <1>4. CASE Clear(t)
    <2>1. MemoryInv'
      BY <1>0, <1>a, <1>4 DEF Clear, Drop, Resume, MemoryInv, ReviewHasPending, SessionStates
    <2> QED BY <1>0, <1>4, <2>1, ReturnKeeps, Unmoved, Parts DEF Clear
  <1>5. CASE EditGet(t)
    <2>0. target[t] \in Records
      BY <1>a, <1>5 DEF EditGet, Targeted, AboutRecord
    <2>1. rev[target[t]] \in 0 .. MaxRev
      BY <1>0, <2>0 DEF StoreTypeOK
    <2>2. ThreadsInv'
      BY <1>0, <1>5, <2>0, <2>1 DEF EditGet, ThreadsInv, ThreadsTypeOK, Targeted, Counted, GoTo,
                                    Steps
    <2> QED BY <1>0, <1>5, <2>2, Unmoved, Parts DEF EditGet
  <1>6. CASE EditUpdate(t)
    <2>0. target[t] \in Records
      BY <1>a, <1>6 DEF EditUpdate, Targeted, AboutRecord
    <2>1. StoreTypeOK'
      BY <1>0, <1>6, <2>0, UpdateTyped, Unmoved DEF EditUpdate
    <2> QED BY <1>0, <1>6, <2>1, ReturnKeeps, Unmoved, Parts DEF EditUpdate
  <1> QED BY <1>1, <1>2, <1>3, <1>4, <1>5, <1>6

\* Recording an utterance, a typed record, and what fails.
LEMMA RecordInv ==
    ASSUME SessionInv, NEW t \in Threads,
           \/ InsertItem(t) \/ ItemConfirm(t) \/ ItemSaved(t)
           \/ EnterReview(t) \/ EnterAuto(t) \/ AutoConfirmStore(t)
           \/ StoreError(t)
    PROVE  SessionInv'
  <1>0. StoreTypeOK /\ MemoryInv /\ ThreadsInv
    BY Parts
  <1>a. copy \in [Threads -> 0 .. MaxRev] /\ Refs = Records \cup {None} /\ Targeted
    BY <1>0 DEF ThreadsInv, ThreadsTypeOK, Refs
  <1>1. CASE InsertItem(t)
    <2>1. PICK r \in Records : Insert(r) /\ Aim(t, r)
      BY <1>1 DEF InsertItem
    <2>2. left[t] - 1 \in 0 .. MaxItems
      BY <1>0, <1>1, SessionAssumption DEF InsertItem, ThreadsInv, ThreadsTypeOK, Counted
    <2>3. ThreadsInv'
      BY <1>0, <1>1, <2>1, <2>2 DEF InsertItem, ThreadsInv, ThreadsTypeOK, Targeted, Counted,
                                    GoTo, Aim, Refs, Steps
    <2> QED BY <1>0, <1>1, <2>1, <2>3, InsertTyped, Unmoved, Parts DEF InsertItem
  <1>2. CASE ItemConfirm(t)
    <2>1. StoreTypeOK'
      BY <1>0, <1>2, ConfirmTyped, Unmoved DEF ItemConfirm
    <2>2. CASE Return(t)
      BY <1>0, <1>2, <2>1, <2>2, ReturnKeeps, Unmoved, Parts DEF ItemConfirm
    <2>3. CASE GoTo(t, "itemSaved") /\ UNCHANGED <<target, base, copy, left, hadPending>>
      <3>1. ThreadsInv'
        BY <1>0, <1>a, <1>2, <2>3 DEF ItemConfirm, ThreadsInv, ThreadsTypeOK, Targeted, Counted,
                                      GoTo, AboutRecord, Steps
      <3> QED BY <1>0, <1>2, <2>1, <3>1, Unmoved, Parts DEF ItemConfirm
    <2> QED BY <1>2, <2>2, <2>3 DEF ItemConfirm
  <1>3. CASE ItemSaved(t)
    <2>1. MemoryInv'
      BY <1>0, <1>3 DEF ItemSaved, MemoryInv, ReviewHasPending, ThreadsInv, ThreadsTypeOK
    <2>2. ThreadsInv'
      <3>1. CASE Return(t)
        BY <1>0, <3>1, ReturnKeeps
      <3>2. CASE MoreItems(t) /\ GoTo(t, "insert") /\ Aim(t, None)
                 /\ UNCHANGED <<base, copy, left, hadPending>>
        BY <1>0, <1>a, <3>2, SessionAssumption
           DEF MoreItems, ThreadsInv, ThreadsTypeOK, Targeted, Counted, GoTo, Aim, Steps,
               AboutRecord
      <3> QED BY <1>3, <3>1, <3>2 DEF ItemSaved
    <2> QED BY <1>0, <1>3, <2>1, <2>2, Unmoved, Parts DEF ItemSaved
  <1>4. CASE EnterReview(t)
    <2>0. target[t] \in Records /\ 1 \in 0 .. MaxRev
      BY <1>a, <1>4, NoneIsNoRecord DEF EnterReview, Targeted, AboutRecord
    <2>1. MemoryInv'
      BY <1>0, <1>a, <1>4, <2>0, NoneIsNoRecord
         DEF EnterReview, MemoryInv, ReviewHasPending, SessionStates
    <2> QED BY <1>0, <1>4, <2>1, ReturnKeeps, Unmoved, Parts DEF EnterReview
  <1>5. CASE EnterAuto(t)
    <2>0. target[t] \in Records
      BY <1>a, <1>5 DEF EnterAuto, Targeted, AboutRecord
    <2>1. MemoryInv'
      BY <1>0, <1>a, <1>5, <2>0 DEF EnterAuto, MemoryInv, ReviewHasPending, SessionStates
    <2>2. ThreadsInv'
      BY <1>0, <1>5, <2>0 DEF EnterAuto, ThreadsInv, ThreadsTypeOK, Targeted, Counted, GoTo,
                              Steps
    <2> QED BY <1>0, <1>5, <2>1, <2>2, Unmoved, Parts DEF EnterAuto
  <1>6. CASE AutoConfirmStore(t)
    <2>1. StoreTypeOK'
      BY <1>0, <1>6, ConfirmTyped, Unmoved DEF AutoConfirmStore, AutoSave
    <2> QED BY <1>0, <1>6, <2>1, ReturnKeeps, Unmoved, Parts DEF AutoConfirmStore
  <1>7. CASE StoreError(t)
    <2>1. CASE Return(t)
      BY <1>0, <1>7, <2>1, ReturnKeeps, Unmoved, Parts DEF StoreError
    <2>2. ASSUME NEW step \in {"confirmGet", "rejectGet"}, Continue(t, step),
                 pc[t] \in AboutRecord
          PROVE  SessionInv'
      <3>1. step \in (Steps \ {"insert"}) \cup {"give up"} /\ target[t] \in Records
        BY <1>a, <2>2 DEF Steps, Targeted
      <3>2. ThreadsInv'
        BY <1>0, <2>2, <3>1, ContinueKeeps
      <3> QED BY <1>0, <1>7, <3>2, Unmoved, Parts DEF StoreError
    <2> QED BY <1>7, <2>1, <2>2 DEF StoreError, AboutRecord
  <1> QED BY <1>1, <1>2, <1>3, <1>4, <1>5, <1>6, <1>7

LEMMA StepInv == SessionInv /\ [Next]_vars => SessionInv'
  <1> SUFFICES ASSUME SessionInv, [Next]_vars
               PROVE  SessionInv'
    OBVIOUS
  <1>0. StoreTypeOK /\ MemoryInv /\ ThreadsInv
    BY Parts
  <1>1. CASE UNCHANGED vars
    BY <1>0, <1>1, Unmoved, Parts DEF vars
  <1>2. ASSUME NEW t \in Threads, Call(t) \/ CallStep(t)
        PROVE  SessionInv'
    BY <1>2, CallInv, DecideInv, CorrectInv, RecordInv DEF CallStep
  <1>3. ASSUME NEW r \in Records, Beside(r)
        PROVE  SessionInv'
    BY <1>0, <1>3, ConfirmTyped, MarkSyncedTyped, Unmoved, Parts DEF Beside
  <1>4. CASE Crash
    <2>1. 0 \in 0 .. MaxRev /\ 0 \in 0 .. MaxItems
      BY StoreAssumption, SessionAssumption
    <2>2. MemoryInv' /\ ThreadsInv'
      BY <1>4, <2>1 DEF Crash, Started, MemoryInv, ReviewHasPending, SessionStates, Refs,
                        ThreadsInv, ThreadsTypeOK, Targeted, Counted, Steps, AboutRecord
    <2> QED BY <1>0, <1>4, <2>2, Unmoved, Parts DEF Crash
  <1> QED BY <1>1, <1>2, <1>3, <1>4 DEF Next

LEMMA InitInv == Init => SessionInv
  <1> SUFFICES ASSUME Init
               PROVE  SessionInv
    OBVIOUS
  <1>1. 0 \in 0 .. MaxRev /\ 0 \in 0 .. MaxItems
    BY StoreAssumption, SessionAssumption
  <1>2. StoreTypeOK
    BY <1>1 DEF Init, StoreInit, StoreTypeOK, Statuses
  <1>3. MemoryInv
    BY <1>1 DEF Init, MemoryInv, ReviewHasPending, SessionStates, Refs
  <1>4. ThreadsInv
    BY <1>1 DEF Init, ThreadsInv, ThreadsTypeOK, Targeted, Counted, Steps, Refs, AboutRecord
  <1> QED BY <1>2, <1>3, <1>4, Parts

\* Every variable of the session keeps its type, however calls overlap: an
\* utterance is never counted below nothing left, no call reads a record it
\* has not got.
THEOREM TypeCorrect == Spec => []TypeOK
  <1>1. SessionInv => TypeOK
    BY DEF SessionInv
  <1> QED BY <1>1, InitInv, StepInv, PTL DEF Spec

\* With any number of threads in any calls, and a store that may fail: in
\* review there is a record under review (HandleTranscript's "yes" and
\* re-dictation find it).
THEOREM UnderReview == Spec => []ReviewHasPending
  <1>1. SessionInv => ReviewHasPending
    BY DEF SessionInv
  <1> QED BY <1>1, InitInv, StepInv, PTL DEF Spec

-----------------------------------------------------------------------------
(* Calls one at a time: a shell of one thread.                               *)

Alone == \A t, u \in Threads : t = u

\* What a call knows of the session between its steps, when no other call is
\* there to change it.
Knows(t) ==
    /\ pc[t] \in {"confirmStore", "confirmGet", "confirmed", "update", "swap"} =>
          pending # None /\ target[t] = pending
    /\ pc[t] \in {"reject", "rejectGet", "scratched"} => (hadPending[t] <=> pending # None)
    /\ pc[t] \in {"reject", "rejectGet", "scratched", "clear"} =>
          pending = None \/ target[t] = pending
    /\ pc[t] = "lastActive" => pending = None /\ ~ hadPending[t]
    /\ pc[t] \in {"insert", "review"} => state = "armed"
    /\ pc[t] \in {"itemConfirm", "itemSaved"} => left[t] = 0 \/ state = "armed"
    /\ pc[t] = "ready" => left[t] = 0

SerialInv ==
    /\ SessionInv
    /\ pending # None <=> state = "reviewing"
    /\ \A t \in Threads : Knows(t)

LEMMA KnowsUnmoved ==
    ASSUME NEW t \in Threads, Knows(t), UNCHANGED <<state, pending, threadVars>>
    PROVE  Knows(t)'
  BY DEF Knows, threadVars

\* A call that returned knows nothing.
LEMMA KnowsReady ==
    ASSUME ThreadsTypeOK, NEW t \in Threads, Return(t)
    PROVE  Knows(t)'
  BY DEF ThreadsTypeOK, Return, GoTo, Aim, Knows

LEMMA SerialStep ==
    ASSUME Alone, SerialInv, [Next]_vars
    PROVE  SerialInv' /\ (state = "idle" /\ state' # "idle" => \E t \in Threads : Arm(t))
  <1> DEFINE ArmedOnly == state = "idle" /\ state' # "idle" => \E t \in Threads : Arm(t)
             Iff == pending # None <=> state = "reviewing"
  <1>0. SessionInv /\ SessionInv' /\ Iff /\ ThreadsTypeOK /\ (\A t \in Threads : Knows(t))
    BY StepInv, Parts DEF SerialInv, ThreadsInv
  <1>1. SUFFICES Iff' /\ (\A t \in Threads : Knows(t)') /\ ArmedOnly
    BY <1>0 DEF SerialInv
  <1>2. CASE UNCHANGED vars
    BY <1>0, <1>2, KnowsUnmoved DEF vars, memVars
  <1>3. ASSUME NEW r \in Records, Beside(r)
        PROVE  Iff' /\ (\A t \in Threads : Knows(t)') /\ ArmedOnly
    BY <1>0, <1>3, KnowsUnmoved DEF Beside, memVars
  <1>4. CASE Crash
    <2>1. state' = "idle" /\ pending' = None
      BY <1>4 DEF Crash, Started
    <2>2. \A t \in Threads : pc'[t] = "ready" /\ left'[t] = 0
      BY <1>4 DEF Crash, Started
    <2> QED BY <2>1, <2>2 DEF Knows
  <1>5. ASSUME NEW t \in Threads, Call(t) \/ CallStep(t)
        PROVE  Iff' /\ (\A u \in Threads : Knows(u)') /\ ArmedOnly
    <2>0. SUFFICES Iff' /\ Knows(t)' /\ ArmedOnly
      BY DEF Alone
    <2>a. Knows(t)
      BY <1>0
    <2> USE DEF memVars, threadVars
    <2>1. CASE Arm(t)
      BY <1>0, <2>a, <2>1 DEF Arm, Knows, Calling
    <2>2. CASE Disarm(t)
      BY <1>0, <2>a, <2>2 DEF Disarm, Knows, Calling
    <2>3. CASE Hear(t)
      <3>1. Iff' /\ ArmedOnly
        BY <1>0, <2>3 DEF Hear
      <3>2. pc'[t] \in {"confirm", "scratch", "clone"} \/ (pc'[t] = "insert" /\ state' = "armed")
        BY <1>0, <2>3 DEF Hear, GoTo, ThreadsTypeOK
      <3> QED BY <3>1, <3>2 DEF Knows
    <2>4. CASE CallConfirm(t) \/ CallScratch(t) \/ CallCorrect(t) \/ CallEdit(t)
      <3>1. Iff' /\ ArmedOnly
        BY <1>0, <2>4 DEF CallConfirm, CallScratch, CallCorrect, CallEdit
      <3>2. pc'[t] \in {"confirm", "scratch", "clone", "editGet"}
        BY <1>0, <2>4 DEF CallConfirm, CallScratch, CallCorrect, CallEdit, GoTo, ThreadsTypeOK
      <3> QED BY <3>1, <3>2 DEF Knows
    <2>5. CASE InsertManual(t) \/ InsertManualDraft(t)
      <3>1. Iff' /\ ArmedOnly
        BY <1>0, <2>5 DEF InsertManual, InsertManualDraft
      <3>2. left'[t] = 0 /\ pc'[t] \in {"itemConfirm", "ready"}
        BY <1>0, <2>a, <2>5
           DEF InsertManual, InsertManualDraft, Calling, Knows, GoTo, ThreadsTypeOK
      <3> QED BY <3>1, <3>2 DEF Knows
    <2>6. CASE ConfirmBegin(t)
      BY <1>0, <2>6, KnowsReady DEF ConfirmBegin, Knows, GoTo, Aim, ThreadsTypeOK
    <2>7. CASE ConfirmStore(t)
      BY <1>0, <2>a, <2>7 DEF ConfirmStore, Knows, GoTo, ThreadsTypeOK
    <2>8. CASE ConfirmGet(t)
      BY <1>0, <2>a, <2>8, KnowsReady
         DEF ConfirmGet, AfterFailedConfirm, Continue, Knows, GoTo, ThreadsTypeOK
    <2>9. CASE Confirmed(t)
      BY <1>0, <2>a, <2>9, KnowsReady DEF Confirmed, Knows
    <2>10. CASE ScratchBegin(t)
      BY <1>0, <2>10 DEF ScratchBegin, Knows, GoTo, Aim, ThreadsTypeOK
    <2>11. CASE LastActive(t)
      BY <1>0, <2>a, <2>11, KnowsReady DEF LastActive, Knows, GoTo, Aim, ThreadsTypeOK
    <2>12. CASE RejectTarget(t)
      BY <1>0, <2>a, <2>12 DEF RejectTarget, Knows, GoTo, ThreadsTypeOK
    <2>13. CASE RejectGet(t)
      BY <1>0, <2>a, <2>13, KnowsReady
         DEF RejectGet, AfterFailedReject, Continue, Knows, GoTo, ThreadsTypeOK
    <2>14. CASE Scratched(t)
      BY <1>0, <2>a, <2>14, KnowsReady DEF Scratched, Resume, Knows
    <2>15. CASE CloneBegin(t)
      BY <1>0, <2>15, KnowsReady DEF CloneBegin, Knows, GoTo, Aim, ThreadsTypeOK
    <2>16. CASE UpdateTarget(t)
      BY <1>0, <2>a, <2>16 DEF UpdateTarget, Knows, GoTo, ThreadsTypeOK
    <2>17. CASE Swap(t)
      BY <1>0, <2>17, KnowsReady DEF Swap
    <2>18. CASE Clear(t)
      BY <1>0, <2>a, <2>18, KnowsReady DEF Clear, Drop, Resume, Knows
    <2>19. CASE EditGet(t)
      BY <1>0, <2>19 DEF EditGet, Knows, GoTo, ThreadsTypeOK
    <2>20. CASE EditUpdate(t)
      BY <1>0, <2>20, KnowsReady DEF EditUpdate
    <2>21. CASE InsertItem(t)
      BY <1>0, <2>a, <2>21 DEF InsertItem, Knows, GoTo, ThreadsTypeOK
    <2>22. CASE ItemConfirm(t)
      BY <1>0, <2>a, <2>22, KnowsReady DEF ItemConfirm, Knows, GoTo, ThreadsTypeOK
    <2>23. CASE ItemSaved(t)
      BY <1>0, <2>a, <2>23, KnowsReady, SessionAssumption
         DEF ItemSaved, MoreItems, Knows, GoTo, ThreadsTypeOK
    <2>24. CASE EnterReview(t)
      <3>1. target[t] # None
        BY <1>0, <2>24, NoneIsNoRecord DEF EnterReview, SessionInv, Targeted, AboutRecord
      <3> QED BY <1>0, <2>a, <2>24, <3>1, KnowsReady DEF EnterReview, Knows
    <2>25. CASE EnterAuto(t)
      BY <1>0, <2>a, <2>25 DEF EnterAuto, Knows, GoTo, ThreadsTypeOK
    <2>26. CASE AutoConfirmStore(t)
      BY <1>0, <2>26, KnowsReady DEF AutoConfirmStore
    <2>27. CASE StoreError(t)
      BY <1>0, <2>a, <2>27, KnowsReady DEF StoreError, Continue, Knows, GoTo, ThreadsTypeOK
    <2> QED BY <1>5, <2>1, <2>2, <2>3, <2>4, <2>5, <2>6, <2>7, <2>8, <2>9, <2>10, <2>11, <2>12,
               <2>13, <2>14, <2>15, <2>16, <2>17, <2>18, <2>19, <2>20, <2>21, <2>22, <2>23,
               <2>24, <2>25, <2>26, <2>27 DEF Call, CallStep
  <1> QED BY <1>2, <1>3, <1>4, <1>5 DEF Next

LEMMA SerialInit == Init => SerialInv
  BY InitInv DEF Init, SerialInv, Knows

\* With calls one at a time a record is pending exactly when the session is in
\* review, whatever batch review, sync, store errors and process death do
\* meanwhile: Confirm, Scratch and clearPending never leave one behind.
THEOREM NothingLeftBehind ==
    ASSUME Alone
    PROVE  Spec => []PendingIffReviewing
  <1>1. SerialInv => PendingIffReviewing
    BY DEF SerialInv, PendingIffReviewing
  <1>2. SerialInv /\ [Next]_vars => SerialInv'
    BY SerialStep
  <1> QED BY <1>1, <1>2, SerialInit, PTL DEF Spec

\* With calls one at a time only Arm starts the listening of an idle session.
THEOREM MicrophoneArmedByArm ==
    ASSUME Alone
    PROVE  Spec => ArmedByArm
  <1>1. SerialInv /\ [Next]_vars => SerialInv'
    BY SerialStep
  <1>2. SerialInv /\ [Next]_vars =>
           [state = "idle" /\ state' # "idle" => \E t \in Threads : Arm(t)]_vars
    BY SerialStep
  <1> QED BY <1>1, <1>2, SerialInit, PTL DEF Spec, ArmedByArm

-----------------------------------------------------------------------------
(* What the session remembers is what the store holds: calls one at a time,  *)
(* a store that answers, and no edits on the batch review screen (edit_pending *)
(* shows what one of those does).                                            *)

Trusted == Alone /\ "edit" \notin Calls /\ ~ StoreFails

\* Inserted and decided about; for ever, whatever happens to the row.
Settled(r) == status[r] \notin {"none", "draft"}

\* What a call knows of the row it is about.
Remembers(t) ==
    /\ pc[t] \notin {"editGet", "editUpdate"}
    /\ pc[t] = "swap" => copy[t] = rev[target[t]]
    /\ pc[t] = "review" => rev[target[t]] = 1
    /\ pc[t] \in {"review", "autoConfirm"} => status[target[t]] # "none"
    /\ pc[t] \in {"confirmed", "itemSaved"} => Settled(target[t])

\* The copy under review is behind its row only inside a correction, and the
\* last saved record unsaved only inside an automatic confirmation.
Remembered ==
    /\ pending # None =>
          /\ status[pending] # "none"
          /\ (\A t \in Threads : pc[t] # "swap") => pendingRev = rev[pending]
    /\ lastSaved # None =>
          \/ Settled(lastSaved)
          \/ \E t \in Threads : pc[t] = "autoConfirm" /\ target[t] = lastSaved
    /\ \A t \in Threads : Remembers(t)

LEMMA RowsStay ==
    ASSUME SessionInv, [Next]_vars, NEW r \in Records
    PROVE  (status[r] # "none" => status'[r] # "none") /\ (Settled(r) => Settled(r)')
  <1>0. status \in [Records -> Statuses]
    BY DEF SessionInv, TypeOK, StoreTypeOK
  <1>1. CASE UNCHANGED status
    BY <1>1 DEF Settled
  <1>2. ASSUME NEW q \in Records, Insert(q) \/ Update(q) \/ Confirm(q) \/ Reject(q)
                                  \/ MarkSynced({q})
        PROVE  (status[r] # "none" => status'[r] # "none") /\ (Settled(r) => Settled(r)')
    BY <1>0, <1>2 DEF Settled, Insert, Update, Confirm, Reject, SetStatus, CanTransition, MarkSynced
  <1>3. ASSUME NEW t \in Threads, ConfirmStore(t) \/ RejectTarget(t) \/ UpdateTarget(t)
                                 \/ EditUpdate(t) \/ ItemConfirm(t) \/ AutoConfirmStore(t)
        PROVE  (status[r] # "none" => status'[r] # "none") /\ (Settled(r) => Settled(r)')
    <2>1. target[t] \in Records
      BY <1>3 DEF SessionInv, Targeted, AboutRecord, ConfirmStore, RejectTarget, UpdateTarget,
                  EditUpdate, ItemConfirm, AutoConfirmStore
    <2>2. UNCHANGED status \/ Confirm(target[t]) \/ Reject(target[t]) \/ Update(target[t])
      BY <1>3 DEF ConfirmStore, RejectTarget, UpdateTarget, UpdateRow, EditUpdate, ItemConfirm,
                  AutoConfirmStore, AutoSave, storeVars
    <2> QED BY <1>1, <1>2, <2>1, <2>2
  <1>4. \/ UNCHANGED status
        \/ \E q \in Records : Insert(q) \/ Update(q) \/ Confirm(q) \/ Reject(q) \/ MarkSynced({q})
        \/ \E t \in Threads : ConfirmStore(t) \/ RejectTarget(t) \/ UpdateTarget(t)
                              \/ EditUpdate(t) \/ ItemConfirm(t) \/ AutoConfirmStore(t)
    BY DEF Next, vars, storeVars, Call, CallStep, Arm, Disarm, Hear, CallConfirm, CallScratch,
           CallCorrect, CallEdit, InsertManual, InsertManualDraft, ConfirmBegin, ConfirmGet,
           Confirmed, ScratchBegin, LastActive, RejectGet, Scratched, CloneBegin, Swap, Clear,
           EditGet, InsertItem, ItemSaved, EnterReview, EnterAuto, StoreError, Beside, Crash
  <1> QED BY <1>1, <1>2, <1>3, <1>4

LEMMA RememberedStep ==
    ASSUME Trusted, SerialInv, Remembered, [Next]_vars
    PROVE  Remembered'
  <1>0. SessionInv /\ ThreadsTypeOK /\ StoreTypeOK /\ MemoryInv
    BY Parts DEF SerialInv, ThreadsInv
  <1>r. \A r \in Records : /\ status[r] # "none" => status'[r] # "none"
                           /\ Settled(r) => Settled(r)'
    BY <1>0, RowsStay
  <1>m. (pending # None => pending \in Records) /\ (lastSaved # None => lastSaved \in Records)
    BY <1>0 DEF MemoryInv, Refs
  <1>1. CASE UNCHANGED vars
    BY <1>1 DEF vars, storeVars, memVars, threadVars, Remembered, Remembers, Settled
  <1>2. ASSUME NEW r \in Records, Beside(r)
        PROVE  Remembered'
    <2>1. rev' = rev /\ UNCHANGED <<memVars, threadVars>>
      BY <1>2 DEF Beside, Confirm, Reject, SetStatus, MarkSynced
    <2>2. \A t \in Threads : pc[t] \in AboutRecord => target[t] \in Records
      BY <1>0 DEF SessionInv, Targeted
    <2> QED BY <1>r, <1>m, <2>1, <2>2 DEF Remembered, Remembers, memVars, threadVars, AboutRecord
  <1>3. CASE Crash
    BY <1>3 DEF Crash, Started, Remembered, Remembers
  <1>4. ASSUME NEW t \in Threads, Call(t) \/ CallStep(t)
        PROVE  Remembered'
    <2>k. Knows(t) /\ Remembers(t) /\ (pc[t] \in AboutRecord => target[t] \in Records)
      BY <1>0 DEF SerialInv, Remembered, SessionInv, Targeted
    <2>t. Threads = {t}
      BY DEF Trusted, Alone
    <2> DEFINE Copied == pending # None => pc[t] = "swap" \/ pendingRev = rev[pending]
               Stored == pending # None => status[pending] # "none"
               Saved == lastSaved # None =>
                           Settled(lastSaved) \/ (pc[t] = "autoConfirm" /\ target[t] = lastSaved)
    <2>s. SUFFICES Copied' /\ Stored' /\ Saved' /\ Remembers(t)'
      BY <2>t DEF Remembered
    <2>o. Copied /\ Stored /\ Saved
      BY <2>t DEF Remembered
    <2>1. CASE Arm(t) \/ Disarm(t)
      BY <1>0, <1>r, <1>m, <2>k, <2>o, <2>1
         DEF Arm, Disarm, Remembers, Settled, storeVars, memVars, threadVars, AboutRecord
    <2>2. CASE Hear(t)
      <3>1. pc[t] = "ready" /\ UNCHANGED <<storeVars, memVars, target, copy>>
        BY <2>2 DEF Hear, Calling
      <3>2. pc'[t] \in {"confirm", "scratch", "clone", "insert"}
        BY <1>0, <2>2 DEF Hear, GoTo, ThreadsTypeOK
      <3> QED BY <2>o, <3>1, <3>2 DEF Remembers, Settled, storeVars, memVars
    <2>3. CASE CallConfirm(t) \/ CallScratch(t) \/ CallCorrect(t)
      BY <1>0, <1>r, <1>m, <2>k, <2>o, <2>3
         DEF CallConfirm, CallScratch, CallCorrect, Calling, GoTo, ThreadsTypeOK, Remembers, Settled, storeVars, memVars, threadVars, AboutRecord
    <2>4. CASE CallEdit(t) \/ EditGet(t) \/ EditUpdate(t) \/ StoreError(t)
      BY <1>0, <1>r, <1>m, <2>k, <2>o, <2>4
         DEF Trusted, CallEdit, EditGet, EditUpdate, StoreError, Calling, Remembers
    <2>5. CASE InsertManual(t) \/ InsertManualDraft(t)
      BY <1>0, <1>r, <1>m, <2>k, <2>o, <2>5
         DEF InsertManual, InsertManualDraft, Insert, Calling, StoreTypeOK, Remembers, Settled, storeVars, memVars, threadVars, AboutRecord, Return, GoTo, Aim, ThreadsTypeOK
    <2>6. CASE ConfirmBegin(t)
      BY <1>0, <1>r, <1>m, <2>k, <2>o, <2>6
         DEF ConfirmBegin, Remembers, Settled, storeVars, memVars, threadVars, AboutRecord, Return, GoTo, Aim, ThreadsTypeOK
    <2>7. CASE ConfirmStore(t)
      BY <1>0, <1>r, <1>m, <2>k, <2>o, <2>7
         DEF ConfirmStore, Confirm, SetStatus, StoreTypeOK, GoTo, ThreadsTypeOK, Remembers, Settled, storeVars, memVars, threadVars, AboutRecord
    <2>8. CASE ConfirmGet(t)
      BY <1>0, <1>r, <1>m, <2>k, <2>o, <2>8
         DEF ConfirmGet, AfterFailedConfirm, Continue, Remembers, Settled, storeVars, memVars, threadVars, AboutRecord, Return, GoTo, Aim, ThreadsTypeOK
    <2>9. CASE Confirmed(t)
      BY <1>0, <1>r, <1>m, <2>k, <2>o, <2>9
         DEF Confirmed, Remembers, Settled, storeVars, memVars, threadVars, AboutRecord, Return, GoTo, Aim, ThreadsTypeOK
    <2>10. CASE ScratchBegin(t) \/ LastActive(t)
      BY <1>0, <1>r, <1>m, <2>k, <2>o, <2>10
         DEF ScratchBegin, LastActive, Remembers, Settled, storeVars, memVars, threadVars, AboutRecord, Return, GoTo, Aim, ThreadsTypeOK
    <2>11. CASE RejectTarget(t)
      BY <1>0, <1>r, <1>m, <2>k, <2>o, <2>11
         DEF RejectTarget, Reject, SetStatus, StoreTypeOK, GoTo, ThreadsTypeOK, Remembers, Settled, storeVars, memVars, threadVars, AboutRecord
    <2>12. CASE RejectGet(t)
      BY <1>0, <1>r, <1>m, <2>k, <2>o, <2>12
         DEF RejectGet, AfterFailedReject, Continue, Remembers, Settled, storeVars, memVars, threadVars, AboutRecord, Return, GoTo, Aim, ThreadsTypeOK
    <2>13. CASE Scratched(t) \/ Clear(t)
      BY <1>0, <1>r, <1>m, <2>k, <2>o, <2>13
         DEF Scratched, Clear, Drop, Remembers, Settled, storeVars, memVars, threadVars, AboutRecord, Return, GoTo, Aim, ThreadsTypeOK
    <2>14. CASE CloneBegin(t)
      BY <1>0, <1>r, <1>m, <2>k, <2>o, <2>14
         DEF CloneBegin, Remembers, Settled, storeVars, memVars, threadVars, AboutRecord, Return, GoTo, Aim, ThreadsTypeOK
    <2>15. CASE UpdateTarget(t)
      BY <1>0, <1>r, <1>m, <2>k, <2>o, <2>15
         DEF UpdateTarget, UpdateRow, Update, Knows, StoreTypeOK, GoTo, ThreadsTypeOK, Remembers, Settled, storeVars, memVars, threadVars, AboutRecord
    <2>16. CASE Swap(t)
      BY <1>0, <1>r, <1>m, <2>k, <2>o, <2>16
         DEF Swap, SwapIn, Knows, Remembers, Settled, storeVars, memVars, threadVars, AboutRecord, Return, GoTo, Aim, ThreadsTypeOK
    <2>17. CASE InsertItem(t)
      BY <1>0, <1>r, <1>m, <2>k, <2>o, <2>17
         DEF InsertItem, Insert, StoreTypeOK, SerialInv, Knows, Remembers, Settled, storeVars, memVars, threadVars, AboutRecord, Return, GoTo, Aim, ThreadsTypeOK
    <2>18. CASE ItemConfirm(t)
      BY <1>0, <1>r, <1>m, <2>k, <2>o, <2>18
         DEF ItemConfirm, Confirm, SetStatus, StoreTypeOK, Remembers, Settled, storeVars, memVars, threadVars, AboutRecord, Return, GoTo, Aim, ThreadsTypeOK
    <2>19. CASE ItemSaved(t)
      BY <1>0, <1>r, <1>m, <2>k, <2>o, <2>19
         DEF ItemSaved, Remembers, Settled, storeVars, memVars, threadVars, AboutRecord, Return, GoTo, Aim, ThreadsTypeOK
    <2>20. CASE EnterReview(t)
      BY <1>0, <1>r, <1>m, <2>k, <2>o, <2>20
         DEF EnterReview, Remembers, Settled, storeVars, memVars, threadVars, AboutRecord, Return, GoTo, Aim, ThreadsTypeOK
    <2>21. CASE EnterAuto(t)
      BY <1>0, <1>r, <1>m, <2>k, <2>o, <2>21
         DEF EnterAuto, Remembers, Settled, storeVars, memVars, threadVars, AboutRecord, Return, GoTo, Aim, ThreadsTypeOK
    <2>22. CASE AutoConfirmStore(t)
      BY <1>0, <1>r, <1>m, <2>k, <2>o, <2>22
         DEF AutoConfirmStore, AutoSave, Confirm, SetStatus, CanTransition, StoreTypeOK, Statuses, Remembers, Settled, storeVars, memVars, threadVars, AboutRecord, Return, GoTo, Aim, ThreadsTypeOK
    <2> QED BY <1>4, <2>1, <2>2, <2>3, <2>4, <2>5, <2>6, <2>7, <2>8, <2>9, <2>10, <2>11, <2>12, <2>13, <2>14, <2>15, <2>16, <2>17, <2>18, <2>19, <2>20, <2>21, <2>22 DEF Call, CallStep
  <1> QED BY <1>1, <1>2, <1>3, <1>4 DEF Next

LEMMA TrustedInv ==
    ASSUME Trusted
    PROVE  Spec => [](SerialInv /\ Remembered)
  <1>1. Init => SerialInv /\ Remembered
    BY SerialInit DEF Init, Remembered, Remembers
  <1>2. SerialInv /\ Remembered /\ [Next]_vars => (SerialInv /\ Remembered)'
    BY SerialStep, RememberedStep DEF Trusted
  <1> QED BY <1>1, <1>2, PTL DEF Spec

\* What was read back to the operator is what a confirm would upload: the copy
\* under review and its row agree whenever no call is running, whatever batch
\* review decides, sync marks and death interrupts.
THEOREM ReadBackIsStored ==
    ASSUME Trusted
    PROVE  Spec => []PendingIsStored
  <1>1. SerialInv /\ Remembered => PendingIsStored
    BY DEF Remembered, PendingIsStored, AtRest
  <1> QED BY <1>1, TrustedInv, PTL

\* "Scratch that" falls back on a record that was saved: though enterReview
\* notes it before the store has confirmed it, it is no draft once the call
\* has returned.
THEOREM FallsBackOnSaved ==
    ASSUME Trusted
    PROVE  Spec => []LastSavedWasSaved
  <1>1. SerialInv /\ Remembered => LastSavedWasSaved
    BY DEF Remembered, Settled, LastSavedWasSaved, AtRest
  <1> QED BY <1>1, TrustedInv, PTL
=============================================================================
