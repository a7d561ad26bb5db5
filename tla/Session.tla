------------------------------- MODULE Session -------------------------------
(***************************************************************************)
(* The capture session (session/session.go): the state machine             *)
(* idle / armed / reviewing, the record under review, and the store it     *)
(* writes through.  The library starts no goroutine: the shell calls it    *)
(* from as many threads as it likes.  A call takes the session mutex for   *)
(* single steps only - it snapshots, works on the store without the mutex, *)
(* and takes it again to write the outcome back - so a call is a sequence  *)
(* of steps, and calls interleave between them.                            *)
(*                                                                         *)
(* Audio, parsing, read-back text, latencies, the truncation mark and the  *)
(* corrections log are left out: what an utterance means is an input here. *)
(***************************************************************************)
EXTENDS Store

CONSTANTS
    Threads,        \* threads of the shell
    Calls,          \* the calls it makes, see CallKinds
    MaxItems,       \* bound: items in one utterance (Options.MultiItem)
    AutoConfirm,    \* cfg.AutoConfirmHighConfidence
    StoreFails      \* TRUE: a store call may return an error

CallKinds == {"dictate", "confirm", "scratch", "correct", "edit", "manual", "arm", "disarm"}

ASSUME SessionAssumption ==
    /\ Calls \subseteq CallKinds
    /\ MaxItems \in Nat \ {0}
    /\ AutoConfirm \in BOOLEAN
    /\ StoreFails \in BOOLEAN

VARIABLES
    state,          \* s.state
    pending,        \* s.pending, by id; None for nil
    pendingRev,     \* the content the copy in s.pending holds
    lastSaved,      \* s.lastSavedID; None for ""
    pc,             \* where each thread is
    target,         \* the record a thread's call is about
    base,           \* the content a thread's working copy was made from
    copy,           \* the content a thread's working copy holds
    left,           \* items of the utterance still to be recorded
    hadPending      \* Scratch: the snapshot of s.pending was not nil

memVars == <<state, pending, pendingRev, lastSaved>>
threadVars == <<pc, target, base, copy, left, hadPending>>
vars == <<storeVars, memVars, threadVars>>

None == 0
Refs == Records \cup {None}

SessionStates == {"idle", "armed", "reviewing"}

Steps == {"ready",
          "confirm", "confirmStore", "confirmGet", "confirmed",
          "scratch", "lastActive", "reject", "rejectGet", "scratched",
          "clone", "update", "swap", "clear",
          "editGet", "editUpdate",
          "insert", "itemConfirm", "itemSaved", "review", "autoConfirm"}

TypeOK ==
    /\ StoreTypeOK
    /\ state \in SessionStates
    /\ pending \in Refs
    /\ pendingRev \in 0 .. MaxRev
    /\ lastSaved \in Refs
    /\ pc \in [Threads -> Steps]
    /\ target \in [Threads -> Refs]
    /\ base \in [Threads -> 0 .. MaxRev]
    /\ copy \in [Threads -> 0 .. MaxRev]
    /\ left \in [Threads -> 0 .. MaxItems]
    /\ hadPending \in [Threads -> BOOLEAN]

\* A process starts with an idle session, whatever the store holds.
Started ==
    /\ state' = "idle"
    /\ pending' = None
    /\ pendingRev' = 0
    /\ lastSaved' = None
    /\ pc' = [t \in Threads |-> "ready"]
    /\ target' = [t \in Threads |-> None]
    /\ base' = [t \in Threads |-> 0]
    /\ copy' = [t \in Threads |-> 0]
    /\ left' = [t \in Threads |-> 0]
    /\ hadPending' = [t \in Threads |-> FALSE]

Init ==
    /\ StoreInit
    /\ state = "idle"
    /\ pending = None
    /\ pendingRev = 0
    /\ lastSaved = None
    /\ pc = [t \in Threads |-> "ready"]
    /\ target = [t \in Threads |-> None]
    /\ base = [t \in Threads |-> 0]
    /\ copy = [t \in Threads |-> 0]
    /\ left = [t \in Threads |-> 0]
    /\ hadPending = [t \in Threads |-> FALSE]

GoTo(t, step) == pc' = [pc EXCEPT ![t] = step]

Aim(t, r) == target' = [target EXCEPT ![t] = r]

\* The call returns; its locals are gone.
Return(t) ==
    /\ GoTo(t, "ready")
    /\ Aim(t, None)
    /\ base' = [base EXCEPT ![t] = 0]
    /\ copy' = [copy EXCEPT ![t] = 0]
    /\ left' = [left EXCEPT ![t] = 0]
    /\ hadPending' = [hadPending EXCEPT ![t] = FALSE]

\* Faulty variant: the record gone elsewhere stays the pending one.
DropNothing(r) == pending

Drop(r) == IF pending = r THEN None ELSE pending

\* What the bounds leave room for: contents of a record, records to insert.
EditsLeft ==
    LET editing == {t \in Threads : pc[t] \in {"clone", "update", "editGet", "editUpdate"}}
    IN \A r \in Records : rev[r] + Cardinality(editing) < MaxRev

RecordsLeft ==
    Cardinality({r \in Records : status[r] = "none"}) >= MaxItems * Cardinality(Threads)

-----------------------------------------------------------------------------
(* Calls.  A thread that is ready starts one. *)

Calling(t, call) == pc[t] = "ready" /\ call \in Calls

Arm(t) ==
    /\ Calling(t, "arm")
    /\ state = "idle"
    /\ state' = "armed"
    /\ UNCHANGED <<storeVars, pending, pendingRev, lastSaved, threadVars>>

\* Under review the session stays in review.
Disarm(t) ==
    /\ Calling(t, "disarm")
    /\ state = "armed"
    /\ state' = "idle"
    /\ UNCHANGED <<storeVars, pending, pendingRev, lastSaved, threadVars>>

\* HandleTranscript: the state is read once, under the mutex, and decides what
\* the utterance is.  An utterance that does nothing is not a step: any speech
\* when idle, a "no" under review, a command but "scratch that" when armed.
Hear(t) ==
    /\ Calling(t, "dictate")
    /\ \/ /\ state = "reviewing"
          /\ \/ GoTo(t, "confirm")                      \* "yes"
             \/ GoTo(t, "scratch")                      \* "scratch that"
             \/ EditsLeft /\ GoTo(t, "clone")           \* "location is ...", or re-dictated
          /\ UNCHANGED left
       \/ /\ state = "armed"
          /\ \/ GoTo(t, "scratch") /\ UNCHANGED left
             \/ /\ RecordsLeft                          \* an observation
                /\ \E n \in 1 .. MaxItems : left' = [left EXCEPT ![t] = n]
                /\ GoTo(t, "insert")
    /\ UNCHANGED <<storeVars, memVars, target, base, copy, hadPending>>

CallConfirm(t) ==
    /\ Calling(t, "confirm")
    /\ GoTo(t, "confirm")
    /\ UNCHANGED <<storeVars, memVars, target, base, copy, left, hadPending>>

CallScratch(t) ==
    /\ Calling(t, "scratch")
    /\ GoTo(t, "scratch")
    /\ UNCHANGED <<storeVars, memVars, target, base, copy, left, hadPending>>

CallCorrect(t) ==
    /\ Calling(t, "correct")
    /\ EditsLeft
    /\ GoTo(t, "clone")
    /\ UNCHANGED <<storeVars, memVars, target, base, copy, left, hadPending>>

\* EditRecord, from the batch review screen, on any stored record.
CallEdit(t) ==
    /\ Calling(t, "edit")
    /\ EditsLeft
    /\ \E r \in Records : status[r] # "none" /\ Aim(t, r)
    /\ GoTo(t, "editGet")
    /\ UNCHANGED <<storeVars, memVars, base, copy, left, hadPending>>

-----------------------------------------------------------------------------
(* Confirm. *)

ConfirmBegin(t) ==
    /\ pc[t] = "confirm"
    /\ \/ pending = None /\ Return(t)
       \/ /\ pending # None
          /\ Aim(t, pending)
          /\ GoTo(t, "confirmStore")
          /\ UNCHANGED <<base, copy, left, hadPending>>
    /\ UNCHANGED <<storeVars, memVars>>

ConfirmStore(t) ==
    /\ pc[t] = "confirmStore"
    /\ \/ Confirm(target[t]) /\ GoTo(t, "confirmed")
       \/ /\ ~ CanTransition(status[target[t]], "confirmed")
          /\ GoTo(t, "confirmGet")
          /\ UNCHANGED storeVars
    /\ UNCHANGED <<memVars, target, base, copy, left, hadPending>>

\* Faulty variant: a record discarded elsewhere is an error like any other,
\* and stays under review.
AfterFailedConfirmKeeping(r) ==
    IF status[r] \in {"confirmed", "synced"} THEN "confirmed" ELSE "give up"

\* The record changed elsewhere: saved there, or discarded there.
AfterFailedConfirm(r) ==
    IF status[r] \in {"confirmed", "synced"} THEN "confirmed"
    ELSE IF status[r] = "rejected" THEN "clear" ELSE "give up"

\* Continue with a step, or return an error.
Continue(t, step) ==
    IF step = "give up" THEN Return(t)
    ELSE GoTo(t, step) /\ UNCHANGED <<target, base, copy, left, hadPending>>

ConfirmGet(t) ==
    /\ pc[t] = "confirmGet"
    /\ Continue(t, AfterFailedConfirm(target[t]))
    /\ UNCHANGED <<storeVars, memVars>>

\* Whatever is pending by now is dropped.
Confirmed(t) ==
    /\ pc[t] = "confirmed"
    /\ pending' = None
    /\ lastSaved' = target[t]
    /\ state' = "armed"
    /\ Return(t)
    /\ UNCHANGED <<storeVars, pendingRev>>

-----------------------------------------------------------------------------
(* Scratch. *)

ScratchBegin(t) ==
    /\ pc[t] = "scratch"
    /\ hadPending' = [hadPending EXCEPT ![t] = pending # None]
    /\ IF pending = None /\ lastSaved = None
       THEN GoTo(t, "lastActive") /\ UNCHANGED target
       ELSE GoTo(t, "reject") /\ Aim(t, IF pending # None THEN pending ELSE lastSaved)
    /\ UNCHANGED <<storeVars, memVars, base, copy, left>>

Active == {r \in Records : status[r] \in {"draft", "confirmed"}}

LastActive(t) ==
    /\ pc[t] = "lastActive"
    /\ \/ Active = {} /\ Return(t)
       \/ /\ \E r \in Active : (\A q \in Active : q <= r) /\ Aim(t, r)
          /\ GoTo(t, "reject")
          /\ UNCHANGED <<base, copy, left, hadPending>>
    /\ UNCHANGED <<storeVars, memVars>>

RejectTarget(t) ==
    /\ pc[t] = "reject"
    /\ \/ Reject(target[t]) /\ GoTo(t, "scratched")
       \/ /\ ~ CanTransition(status[target[t]], "rejected")
          /\ GoTo(t, "rejectGet")
          /\ UNCHANGED storeVars
    /\ UNCHANGED <<memVars, target, base, copy, left, hadPending>>

\* Discarded elsewhere is the outcome wanted; synced can no longer be had.
AfterFailedReject(r) ==
    IF status[r] = "rejected" THEN "scratched"
    ELSE IF status[r] = "synced" THEN "clear" ELSE "give up"

RejectGet(t) ==
    /\ pc[t] = "rejectGet"
    /\ Continue(t, AfterFailedReject(target[t]))
    /\ UNCHANGED <<storeVars, memVars>>

\* Faulty variant: scratching always resumes listening.
ResumeAlways == "armed"

\* Faulty variant: the state is left as it is.
ResumeNever == state

\* Leaving review resumes listening; nothing else does.
Resume == IF state = "reviewing" THEN "armed" ELSE state

Scratched(t) ==
    /\ pc[t] = "scratched"
    /\ pending' = IF hadPending[t] THEN None ELSE pending
    /\ lastSaved' = IF lastSaved = target[t] THEN None ELSE lastSaved
    /\ state' = Resume
    /\ Return(t)
    /\ UNCHANGED <<storeVars, pendingRev>>

-----------------------------------------------------------------------------
(* CorrectField and re-dictation: clone, edit the copy, write the whole row, *)
(* swap the copy in.                                                         *)

CloneBegin(t) ==
    /\ pc[t] = "clone"
    /\ \/ pending = None /\ Return(t)
       \/ /\ pending # None
          /\ Aim(t, pending)
          /\ base' = [base EXCEPT ![t] = pendingRev]
          /\ GoTo(t, "update")
          /\ UNCHANGED <<copy, left, hadPending>>
    /\ UNCHANGED <<storeVars, memVars>>

\* The new content is written over whatever the row holds.
UpdateRow(t) ==
    /\ Update(target[t])
    /\ copy' = [copy EXCEPT ![t] = rev[target[t]] + 1]

UpdateTarget(t) ==
    /\ pc[t] = "update"
    /\ \/ UpdateRow(t) /\ GoTo(t, "swap")
       \/ /\ status[target[t]] \notin {"draft", "confirmed"}    \* ErrImmutable
          /\ GoTo(t, "clear")
          /\ UNCHANGED <<storeVars, copy>>
    /\ UNCHANGED <<memVars, target, base, left, hadPending>>

\* Faulty variant: the copy is never swapped in.
SwapNothing(t) == UNCHANGED pendingRev

SwapIn(t) == pendingRev' = IF pending = target[t] THEN copy[t] ELSE pendingRev

Swap(t) ==
    /\ pc[t] = "swap"
    /\ SwapIn(t)
    /\ Return(t)
    /\ UNCHANGED <<storeVars, state, pending, lastSaved>>

\* clearPending
Clear(t) ==
    /\ pc[t] = "clear"
    /\ pending' = Drop(target[t])
    /\ lastSaved' = IF lastSaved = target[t] THEN None ELSE lastSaved
    /\ state' = Resume
    /\ Return(t)
    /\ UNCHANGED <<storeVars, pendingRev>>

EditGet(t) ==
    /\ pc[t] = "editGet"
    /\ base' = [base EXCEPT ![t] = rev[target[t]]]
    /\ GoTo(t, "editUpdate")
    /\ UNCHANGED <<storeVars, memVars, target, copy, left, hadPending>>

\* The pending record is not told, even when it is the one edited.
EditUpdate(t) ==
    /\ pc[t] = "editUpdate"
    /\ \/ Update(target[t])
       \/ status[target[t]] \notin {"draft", "confirmed"} /\ UNCHANGED storeVars
    /\ Return(t)
    /\ UNCHANGED memVars

-----------------------------------------------------------------------------
(* newObservation and AddManual.                                             *)

\* Ids are UUIDv7: a new one is above every id the store holds.
NextId(r) == \A q \in Records : q < r <=> status[q] # "none"

\* Each item is a draft in the store before anything else happens to it; all
\* but the last confirm themselves.
InsertItem(t) ==
    /\ pc[t] = "insert"
    /\ \E r \in Records : NextId(r) /\ Insert(r) /\ Aim(t, r)
    /\ left' = [left EXCEPT ![t] = @ - 1]
    /\ GoTo(t, IF left[t] > 1 THEN "itemConfirm" ELSE "review")
    /\ UNCHANGED <<memVars, base, copy, hadPending>>

\* AddManual with confirm: the typed record confirms itself.
InsertManual(t) ==
    /\ Calling(t, "manual")
    /\ RecordsLeft
    /\ \E r \in Records : NextId(r) /\ Insert(r) /\ Aim(t, r)
    /\ GoTo(t, "itemConfirm")
    /\ UNCHANGED <<memVars, base, copy, left, hadPending>>

\* AddManual without.
InsertManualDraft(t) ==
    /\ Calling(t, "manual")
    /\ RecordsLeft
    /\ \E r \in Records : NextId(r) /\ Insert(r)
    /\ UNCHANGED <<memVars, threadVars>>

\* The draft may have been decided about in batch review already; then the
\* rest of the utterance is dropped.
ItemConfirm(t) ==
    /\ pc[t] = "itemConfirm"
    /\ \/ /\ Confirm(target[t])
          /\ GoTo(t, "itemSaved")
          /\ UNCHANGED <<target, base, copy, left, hadPending>>
       \/ /\ ~ CanTransition(status[target[t]], "confirmed")
          /\ Return(t)
          /\ UNCHANGED storeVars
    /\ UNCHANGED memVars

\* Faulty variant: one item beyond the last.
MoreItemsThanHeard(t) == left[t] >= 0

MoreItems(t) == left[t] > 0

ItemSaved(t) ==
    /\ pc[t] = "itemSaved"
    /\ lastSaved' = target[t]
    /\ \/ /\ MoreItems(t)
          /\ GoTo(t, "insert")
          /\ Aim(t, None)
          /\ UNCHANGED <<base, copy, left, hadPending>>
       \/ ~ MoreItems(t) /\ Return(t)
    /\ UNCHANGED <<storeVars, state, pending, pendingRev>>

\* enterReview without auto-confirm.
EnterReview(t) ==
    /\ pc[t] = "review"
    /\ pending' = target[t]
    /\ pendingRev' = 1
    /\ state' = "reviewing"
    /\ Return(t)
    /\ UNCHANGED <<storeVars, lastSaved>>

\* enterReview with auto-confirm: called saved before the store confirms it.
EnterAuto(t) ==
    /\ AutoConfirm
    /\ pc[t] = "review"
    /\ pending' = None
    /\ lastSaved' = target[t]
    /\ state' = "armed"
    /\ GoTo(t, "autoConfirm")
    /\ UNCHANGED <<storeVars, pendingRev, target, base, copy, left, hadPending>>

\* Faulty variant: the mark in memory is taken for the store's.
AutoSaveNothing(r) == UNCHANGED storeVars

AutoSave(r) == Confirm(r)

AutoConfirmStore(t) ==
    /\ pc[t] = "autoConfirm"
    /\ \/ AutoSave(target[t])
       \/ ~ CanTransition(status[target[t]], "confirmed") /\ UNCHANGED storeVars
    /\ Return(t)
    /\ UNCHANGED memVars

-----------------------------------------------------------------------------
(* What happens beside the calls. *)

\* A store call returns an error: reported, and the call returns - but Confirm
\* and Scratch look the record up first.  At "swap" it is AddCorrection's: the
\* row is written, and CorrectField keeps the copy from before.
StoreError(t) ==
    /\ StoreFails
    /\ \/ pc[t] = "confirmStore" /\ Continue(t, "confirmGet")
       \/ pc[t] = "reject" /\ Continue(t, "rejectGet")
       \/ /\ pc[t] \in {"confirmGet", "rejectGet", "lastActive", "update", "swap", "editGet",
                       "editUpdate", "insert", "itemConfirm", "autoConfirm"}
          /\ Return(t)
    /\ UNCHANGED <<storeVars, memVars>>

\* The batch review screen decides about a stored record (ConfirmRecord,
\* RejectRecord), or a push marks it synced.
Beside(r) ==
    /\ \/ Confirm(r)
       \/ Reject(r)
       \/ status[r] = "confirmed" /\ MarkSynced({r})
    /\ UNCHANGED <<memVars, threadVars>>

\* The process dies and starts again; drafts stay in the store.
Crash ==
    /\ state # "idle" \/ lastSaved # None \/ \E t \in Threads : pc[t] # "ready"
    /\ Started
    /\ UNCHANGED storeVars

Call(t) ==
    \/ Arm(t) \/ Disarm(t) \/ Hear(t)
    \/ CallConfirm(t) \/ CallScratch(t) \/ CallCorrect(t) \/ CallEdit(t)
    \/ InsertManual(t) \/ InsertManualDraft(t)

CallStep(t) ==
    \/ ConfirmBegin(t) \/ ConfirmStore(t) \/ ConfirmGet(t) \/ Confirmed(t)
    \/ ScratchBegin(t) \/ LastActive(t) \/ RejectTarget(t) \/ RejectGet(t) \/ Scratched(t)
    \/ CloneBegin(t) \/ UpdateTarget(t) \/ Swap(t) \/ Clear(t)
    \/ EditGet(t) \/ EditUpdate(t)
    \/ InsertItem(t) \/ ItemConfirm(t) \/ ItemSaved(t)
    \/ EnterReview(t) \/ EnterAuto(t) \/ AutoConfirmStore(t)
    \/ StoreError(t)

Next ==
    \/ \E t \in Threads : Call(t) \/ CallStep(t)
    \/ \E r \in Records : Beside(r)
    \/ Crash

Spec == Init /\ [][Next]_vars

-----------------------------------------------------------------------------
(* Safety. *)

AtRest == \A t \in Threads : pc[t] = "ready"

\* Under review there is a record to decide about, whatever calls overlap:
\* "yes" and "scratch that" never meet a nil (session/fuzz_test.go).
ReviewHasPending == state = "reviewing" => pending # None

\* With calls one at a time, a record waits for review exactly when the session
\* says so: it is never left behind, armed or idle, with no way to reach it by
\* voice - not even when batch review changed it meanwhile.
PendingIffReviewing == AtRest => (pending # None <=> state = "reviewing")

\* What was read back to the operator is what the store holds and a confirm
\* would upload.
PendingIsStored ==
    AtRest /\ pending # None /\ status[pending] \in {"draft", "confirmed"} =>
        pendingRev = rev[pending]

\* The record "scratch that" falls back on was really saved: at rest it is no
\* draft, though enterReview notes it before the store has confirmed it.
LastSavedWasSaved == AtRest /\ lastSaved # None => status[lastSaved] # "draft"

\* An idle session is armed by Arm alone, never behind the operator's back
\* (the comment in Scratch).
ArmedByArm == [][state = "idle" /\ state' # "idle" => \E t \in Threads : Arm(t)]_vars

\* A correction replaces one field: the row it rewrites is the one it was
\* made from, so no other edit is undone.
NoEditUndone ==
    [][\A t \in Threads : pc[t] \in {"update", "editUpdate"} /\ pc'[t] # pc[t] /\ rev' # rev
            => base[t] = rev[target[t]]]_vars

-----------------------------------------------------------------------------
(* Liveness. *)

\* A call that has begun goes on; an operator who has a record before him
\* confirms it in the end.
Fairness ==
    \A t \in Threads : WF_vars(CallStep(t)) /\ SF_vars(CallConfirm(t) /\ state = "reviewing")

LiveSpec == Spec /\ Fairness

\* The session never wedges in review: confirming leaves it, even when the
\* record was confirmed, discarded or synced elsewhere.
NeverWedged == state = "reviewing" ~> state # "reviewing"
=============================================================================
