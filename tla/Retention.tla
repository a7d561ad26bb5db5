------------------------------- MODULE Retention -------------------------------
(***************************************************************************)
(* Retained audio (session.go: saveClip, newObservation, PurgeAudio;       *)
(* store.go: audio_ref, AudioToPurge, ClearAudioRef, Update).  A clip is a *)
(* file beside the database, named after its record.  Dictation writes the *)
(* clip, then the row that refers to it; the purge removes the file, then  *)
(* the reference; an edit writes back the reference it read.  The process  *)
(* may die, the disk and the store may refuse, between any two of these.   *)
(***************************************************************************)
EXTENDS Store

CONSTANTS
    Keepers,        \* threads that dictate, edit and purge
    MaxFaults       \* bound: refusals and deaths

ASSUME RetentionAssumption == MaxFaults \in Nat

VARIABLES
    clips,          \* records whose clip is in the audio directory
    audioRef,       \* rows whose audio_ref is not NULL
    aged,           \* rows whose synced_at is older than the retention window
    keepPc,         \* where each thread is
    subject,        \* the record a thread's call is about
    withRef,        \* whether its copy of the record has a reference
    purging,        \* the candidates PurgeAudio has still to do
    faults          \* history: refusals and deaths so far

keepThreadVars == <<keepPc, subject, withRef, purging>>
keepVars == <<storeVars, clips, audioRef, aged, keepThreadVars, faults>>

KeepSteps == {"ready", "insert", "update", "purge", "clear"}

NoRecord == 0

KeepTypeOK ==
    /\ StoreTypeOK
    /\ clips \subseteq Records
    /\ audioRef \subseteq Records
    /\ aged \subseteq Records
    /\ keepPc \in [Keepers -> KeepSteps]
    /\ subject \in [Keepers -> Records \cup {NoRecord}]
    /\ withRef \in [Keepers -> BOOLEAN]
    /\ purging \in [Keepers -> SUBSET Records]
    /\ faults \in 0 .. MaxFaults

KeepInit ==
    /\ StoreInit
    /\ clips = {}
    /\ audioRef = {}
    /\ aged = {}
    /\ keepPc = [t \in Keepers |-> "ready"]
    /\ subject = [t \in Keepers |-> NoRecord]
    /\ withRef = [t \in Keepers |-> FALSE]
    /\ purging = [t \in Keepers |-> {}]
    /\ faults = 0

KeepGo(t, step) == keepPc' = [keepPc EXCEPT ![t] = step]

About(t, r) == subject' = [subject EXCEPT ![t] = r]

Refused == faults < MaxFaults /\ faults' = faults + 1

Granted == UNCHANGED faults

-----------------------------------------------------------------------------
(* Dictation. *)

\* Records inserted or about to be.
Taken == {subject[t] : t \in {u \in Keepers : keepPc[u] = "insert"}}
         \cup {r \in Records : status[r] # "none"}

\* saveClip: the file may be left behind even when writing it fails.  A clip
\* that an earlier death left without its row is never named again.
SaveClip(t) ==
    /\ keepPc[t] = "ready"
    /\ \E r \in Records \ (Taken \cup clips) :
          /\ About(t, r)
          /\ \/ /\ clips' = clips \cup {r}
                /\ withRef' = [withRef EXCEPT ![t] = TRUE]
                /\ Granted
             \/ /\ clips' \in {clips, clips \cup {r}}
                /\ withRef' = [withRef EXCEPT ![t] = FALSE]
                /\ Refused
    /\ KeepGo(t, "insert")
    /\ UNCHANGED <<storeVars, audioRef, aged, purging>>

\* Faulty variant: the reference is not part of the row that is inserted.
InsertedWithoutRef(t) == audioRef

InsertedRef(t) == IF withRef[t] THEN audioRef \cup {subject[t]} ELSE audioRef

\* The row goes in with the reference, or not at all.
InsertRow(t) ==
    /\ keepPc[t] = "insert"
    /\ \/ /\ Insert(subject[t])
          /\ audioRef' = InsertedRef(t)
          /\ Granted
       \/ Refused /\ UNCHANGED <<storeVars, audioRef>>
    /\ KeepGo(t, "ready")
    /\ UNCHANGED <<clips, aged, subject, withRef, purging>>

-----------------------------------------------------------------------------
(* EditRecord: the row is read, and written back whole. *)

ReadRow(t) ==
    /\ keepPc[t] = "ready"
    /\ \E r \in Records :
          /\ status[r] # "none"
          /\ About(t, r)
          /\ withRef' = [withRef EXCEPT ![t] = r \in audioRef]
    /\ KeepGo(t, "update")
    /\ UNCHANGED <<storeVars, clips, audioRef, aged, purging, faults>>

\* Faulty variant: the store updates the row whatever its status.
EditableAny(r) == status[r] # "none" /\ rev[r] < MaxRev

Editable(r) == status[r] \in {"draft", "confirmed"} /\ rev[r] < MaxRev

WriteRow(t) ==
    LET r == subject[t]
    IN /\ keepPc[t] = "update"
       /\ \/ /\ Editable(r)
             /\ rev' = [rev EXCEPT ![r] = @ + 1]
             /\ audioRef' = IF withRef[t] THEN audioRef \cup {r} ELSE audioRef \ {r}
             /\ UNCHANGED <<status, badge, pendingVoids>>
          \/ ~ Editable(r) /\ UNCHANGED <<storeVars, audioRef>>
       /\ KeepGo(t, "ready")
       /\ UNCHANGED <<clips, aged, subject, withRef, purging, faults>>

-----------------------------------------------------------------------------
(* PurgeAudio. *)

\* Faulty variant: any record that left the review counts.
AudioToPurgeUnsynced == {r \in audioRef : status[r] \in {"confirmed", "synced"}}

AudioToPurge == {r \in audioRef : status[r] = "synced" /\ r \in aged}

PurgeBegin(t) ==
    /\ keepPc[t] = "ready"
    /\ AudioToPurge # {}
    /\ purging' = [purging EXCEPT ![t] = AudioToPurge]
    /\ KeepGo(t, "purge")
    /\ UNCHANGED <<storeVars, clips, audioRef, aged, subject, withRef, faults>>

\* A file that is already gone is as good as removed; any other error ends the
\* purge.
RemoveClip(t) ==
    /\ keepPc[t] = "purge"
    /\ purging[t] # {}
    /\ \E r \in purging[t] :
          /\ About(t, r)
          /\ \/ clips' = clips \ {r} /\ KeepGo(t, "clear") /\ Granted
             \/ UNCHANGED clips /\ KeepGo(t, "ready") /\ Refused
    /\ UNCHANGED <<storeVars, audioRef, aged, withRef, purging>>

\* Faulty variant: the reference stays.
ClearNothing(r) == audioRef

ClearAudioRef(r) == audioRef \ {r}

ClearRef(t) ==
    /\ keepPc[t] = "clear"
    /\ \/ /\ audioRef' = ClearAudioRef(subject[t])
          /\ purging' = [purging EXCEPT ![t] = @ \ {subject[t]}]
          /\ KeepGo(t, "purge")
          /\ Granted
       \/ UNCHANGED <<audioRef, purging>> /\ KeepGo(t, "ready") /\ Refused
    /\ UNCHANGED <<storeVars, clips, aged, subject, withRef>>

PurgeEnd(t) ==
    /\ keepPc[t] = "purge"
    /\ purging[t] = {}
    /\ KeepGo(t, "ready")
    /\ UNCHANGED <<storeVars, clips, audioRef, aged, subject, withRef, purging, faults>>

-----------------------------------------------------------------------------
(* Around it. *)

\* Review and sync move records on; time passes for a synced one.
Lifecycle ==
    /\ \E r \in Records :
          \/ Confirm(r) /\ UNCHANGED aged
          \/ Reject(r) /\ UNCHANGED aged
          \/ status[r] = "confirmed" /\ MarkSynced({r}) /\ UNCHANGED aged
          \/ status[r] = "synced" /\ r \notin aged /\ aged' = aged \cup {r} /\ UNCHANGED storeVars
    /\ UNCHANGED <<clips, audioRef, keepThreadVars, faults>>

KeepDies ==
    /\ Refused
    /\ keepPc' = [t \in Keepers |-> "ready"]
    /\ UNCHANGED <<storeVars, clips, audioRef, aged, subject, withRef, purging>>

PurgeStep(t) == PurgeBegin(t) \/ RemoveClip(t) \/ ClearRef(t) \/ PurgeEnd(t)

KeepStep(t) == SaveClip(t) \/ InsertRow(t) \/ ReadRow(t) \/ WriteRow(t) \/ PurgeStep(t)

KeepNext == (\E t \in Keepers : KeepStep(t)) \/ Lifecycle \/ KeepDies

\* Calls run to their end; the shell purges again and again ("e.g. daily",
\* docs/mobile-integration.md), whatever else it does in between.
KeepFairness ==
    \A t \in Keepers : /\ WF_keepVars(InsertRow(t) \/ WriteRow(t))
                       /\ WF_keepVars(RemoveClip(t) \/ ClearRef(t) \/ PurgeEnd(t))
                       /\ SF_keepVars(PurgeBegin(t))

KeepSpec == KeepInit /\ [][KeepNext]_keepVars /\ KeepFairness

-----------------------------------------------------------------------------
(* Correctness. *)

\* A reference leads to a clip, but for a synced record whose purge was cut
\* short between the file and the row, which the next purge finishes.
RefHasClip == audioRef \subseteq clips \cup (aged \cap {r \in Records : status[r] = "synced"})

\* Audio goes with the purge alone, clip and reference: that of a record which
\* is not on the backend is never removed.  And what is gone stays gone: an edit
\* that read the row before the purge does not bring its reference back (Update
\* of a stale copy).
PurgedForGood ==
    [][/\ \A r \in (clips \ clips') \cup (audioRef \ audioRef') : status[r] = "synced" /\ r \in aged
       /\ \A r \in audioRef' \ audioRef : status[r] = "none"]_keepVars

\* A clip without a reference is the trace of a fault: a refused insert, a
\* failed write or a death between clip and row.  Nothing ever purges it.
OrphanOnlyByFault ==
    (\A t \in Keepers : keepPc[t] = "ready") /\ faults = 0 => clips \subseteq audioRef

\* "Then purged on a policy" (specification 6.3): once its window has passed, a
\* synced record loses its clip and its reference, whatever fails meanwhile.
PurgedInTheEnd ==
    \A r \in Records : r \in aged /\ r \in audioRef ~> r \notin audioRef /\ r \notin clips
=============================================================================
