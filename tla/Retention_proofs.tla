--------------------------- MODULE Retention_proofs ---------------------------
(***************************************************************************)
(* Proofs about Retention, for every set of records and of threads and any *)
(* number of faults.                                                       *)
(***************************************************************************)
EXTENDS Retention, TLAPS

\* What the purge goes by holds for good: a synced record stays synced.
AgedAreSynced == \A r \in aged : status[r] = "synced"

RefsHaveRows == \A r \in audioRef : status[r] # "none"

\* A thread that inserts has its record for itself, and has its clip if the row
\* is to refer to one.
InsertFits ==
    \A t \in Keepers :
        keepPc[t] = "insert" =>
            /\ subject[t] \in Records
            /\ status[subject[t]] = "none"
            /\ withRef[t] => subject[t] \in clips
            /\ \A u \in Keepers \ {t} : keepPc[u] = "insert" => subject[u] # subject[t]

\* A copy of a row differs from it in the reference only once the row is synced,
\* and then the store refuses the copy.
UpdateFits ==
    \A t \in Keepers :
        keepPc[t] = "update" =>
            /\ subject[t] \in Records
            /\ status[subject[t]] # "none"
            /\ status[subject[t]] # "synced" => (withRef[t] <=> subject[t] \in audioRef)

PurgeFits ==
    \A t \in Keepers :
        /\ keepPc[t] \in {"purge", "clear"} => purging[t] \subseteq aged
        /\ keepPc[t] = "clear" => subject[t] \in aged

KeepInv ==
    /\ KeepTypeOK
    /\ AgedAreSynced
    /\ RefsHaveRows
    /\ RefHasClip
    /\ InsertFits
    /\ UpdateFits
    /\ PurgeFits

Purged(r) == status[r] = "synced" /\ r \in aged

\* What a step does to clips and references.
KeepChange ==
    /\ \A r \in clips \ clips' : Purged(r)
    /\ \A r \in audioRef' \ audioRef : status[r] = "none"
    /\ \A r \in audioRef \ audioRef' : Purged(r)

-----------------------------------------------------------------------------

LEMMA KeepConstants == NoRecord \notin Records /\ MaxRev \in Nat \ {0} /\ MaxFaults \in Nat
  BY StoreAssumption, RetentionAssumption DEF NoRecord

LEMMA KeepInitInv == KeepInit => KeepInv
  BY KeepConstants
     DEF KeepInit, StoreInit, KeepInv, KeepTypeOK, StoreTypeOK, Statuses, KeepSteps, AgedAreSynced,
         RefsHaveRows, RefHasClip, InsertFits, UpdateFits, PurgeFits

LEMMA FaultsTyped ==
    ASSUME faults \in 0 .. MaxFaults, Refused \/ Granted
    PROVE  faults' \in 0 .. MaxFaults
  BY KeepConstants DEF Refused, Granted

LEMMA SaveClipKeeps ==
    ASSUME KeepInv, NEW t \in Keepers, SaveClip(t)
    PROVE  KeepInv' /\ KeepChange
  <1> USE DEF KeepInv
  <1>1. PICK r \in Records \ (Taken \cup clips) :
           /\ About(t, r)
           /\ clips' \in {clips, clips \cup {r}}
           /\ \E b \in BOOLEAN : /\ withRef' = [withRef EXCEPT ![t] = b]
                                 /\ b => r \in clips'
           /\ Refused \/ Granted
    BY DEF SaveClip
  <1>2. status[r] = "none" /\ \A u \in Keepers : keepPc[u] = "insert" => subject[u] # r
    BY <1>1 DEF Taken
  <1>3. KeepTypeOK'
    BY <1>1, FaultsTyped
       DEF SaveClip, KeepTypeOK, StoreTypeOK, storeVars, About, KeepGo, KeepSteps
  <1>4. (AgedAreSynced /\ RefsHaveRows /\ RefHasClip)' /\ KeepChange
    BY <1>1 DEF SaveClip, AgedAreSynced, RefsHaveRows, RefHasClip, KeepChange, storeVars
  <1>5. InsertFits'
    BY <1>1, <1>2 DEF SaveClip, InsertFits, About, KeepGo, KeepTypeOK, storeVars
  <1>6. (UpdateFits /\ PurgeFits)'
    BY <1>1 DEF SaveClip, UpdateFits, PurgeFits, About, KeepGo, KeepTypeOK, storeVars
  <1> QED BY <1>3, <1>4, <1>5, <1>6

LEMMA InsertRowKeeps ==
    ASSUME KeepInv, NEW t \in Keepers, InsertRow(t)
    PROVE  KeepInv' /\ KeepChange
  <1> USE DEF KeepInv
  <1>1. subject[t] \in Records /\ status[subject[t]] = "none"
    BY DEF InsertFits, InsertRow
  <1>2. KeepTypeOK'
    BY <1>1, FaultsTyped, KeepConstants
       DEF InsertRow, Insert, InsertedRef, KeepTypeOK, StoreTypeOK, Statuses, storeVars, KeepGo,
           KeepSteps
  <1>3. (AgedAreSynced /\ RefsHaveRows /\ RefHasClip)' /\ KeepChange
    BY <1>1 DEF InsertRow, Insert, InsertedRef, InsertFits, AgedAreSynced, RefsHaveRows, RefHasClip,
                KeepChange, storeVars, KeepTypeOK, StoreTypeOK
  <1>4. InsertFits'
    BY <1>1 DEF InsertRow, Insert, InsertFits, KeepGo, KeepTypeOK, StoreTypeOK, storeVars
  <1>5. UpdateFits'
    BY <1>1 DEF InsertRow, Insert, InsertedRef, UpdateFits, KeepGo, KeepTypeOK, StoreTypeOK,
                storeVars
  <1>6. PurgeFits'
    BY <1>1 DEF InsertRow, PurgeFits, KeepGo, KeepTypeOK
  <1> QED BY <1>2, <1>3, <1>4, <1>5, <1>6

LEMMA EditKeeps ==
    ASSUME KeepInv, NEW t \in Keepers, ReadRow(t) \/ WriteRow(t)
    PROVE  KeepInv' /\ KeepChange
  <1> USE DEF KeepInv
  <1>1. CASE ReadRow(t)
    <2>1. KeepTypeOK'
      BY <1>1 DEF ReadRow, KeepTypeOK, StoreTypeOK, storeVars, About, KeepGo, KeepSteps
    <2>2. (AgedAreSynced /\ RefsHaveRows /\ RefHasClip)' /\ KeepChange
      BY <1>1 DEF ReadRow, AgedAreSynced, RefsHaveRows, RefHasClip, KeepChange, storeVars
    <2>3. (InsertFits /\ PurgeFits)'
      BY <1>1 DEF ReadRow, InsertFits, PurgeFits, About, KeepGo, KeepTypeOK, storeVars
    <2>4. UpdateFits'
      <3>1. PICK r \in Records :
               /\ status[r] # "none"
               /\ About(t, r)
               /\ withRef' = [withRef EXCEPT ![t] = r \in audioRef]
        BY <1>1 DEF ReadRow
      <3>2. withRef'[t] <=> r \in audioRef
        BY <3>1, Zenon DEF KeepTypeOK
      <3>3. subject'[t] = r /\ status' = status /\ audioRef' = audioRef
        BY <1>1, <3>1 DEF ReadRow, About, KeepTypeOK, storeVars
      <3>4. \A u \in Keepers \ {t} : /\ keepPc'[u] = keepPc[u]
                                     /\ subject'[u] = subject[u]
                                     /\ withRef'[u] = withRef[u]
        BY <1>1, <3>1 DEF ReadRow, About, KeepGo, KeepTypeOK
      <3> QED BY <3>1, <3>2, <3>3, <3>4 DEF UpdateFits
    <2> QED BY <2>1, <2>2, <2>3, <2>4
  <1>2. CASE WriteRow(t)
    <2>1. audioRef' = audioRef /\ status' = status
      BY <1>2 DEF WriteRow, UpdateFits, Editable, storeVars
    <2>2. rev' \in [Records -> 0 .. MaxRev]
      BY <1>2, KeepConstants DEF WriteRow, Editable, storeVars, KeepTypeOK, StoreTypeOK
    <2>3. KeepTypeOK'
      BY <1>2, <2>1, <2>2 DEF WriteRow, KeepTypeOK, StoreTypeOK, storeVars, KeepGo, KeepSteps
    <2>4. (AgedAreSynced /\ RefsHaveRows /\ RefHasClip)' /\ KeepChange
      BY <1>2, <2>1 DEF WriteRow, AgedAreSynced, RefsHaveRows, RefHasClip, KeepChange
    <2>5. (InsertFits /\ UpdateFits /\ PurgeFits)'
      BY <1>2, <2>1 DEF WriteRow, InsertFits, UpdateFits, PurgeFits, KeepGo, KeepTypeOK
    <2> QED BY <2>3, <2>4, <2>5
  <1> QED BY <1>1, <1>2

LEMMA PurgeKeeps ==
    ASSUME KeepInv, NEW t \in Keepers, PurgeStep(t)
    PROVE  KeepInv' /\ KeepChange
  <1> USE DEF KeepInv
  <1>0. UNCHANGED <<storeVars, aged, withRef>>
    BY DEF PurgeStep, PurgeBegin, RemoveClip, ClearRef, PurgeEnd
  <1>1. CASE PurgeBegin(t)
    <2>1. AudioToPurge \subseteq aged
      BY DEF AudioToPurge
    <2>2. KeepTypeOK'
      BY <1>1, <2>1 DEF PurgeBegin, KeepTypeOK, StoreTypeOK, storeVars, KeepGo, KeepSteps
    <2>3. (AgedAreSynced /\ RefsHaveRows /\ RefHasClip)' /\ KeepChange
      BY <1>1 DEF PurgeBegin, AgedAreSynced, RefsHaveRows, RefHasClip, KeepChange, storeVars
    <2>4. (InsertFits /\ UpdateFits /\ PurgeFits)'
      BY <1>1, <2>1 DEF PurgeBegin, InsertFits, UpdateFits, PurgeFits, KeepGo, KeepTypeOK,
                        storeVars
    <2> QED BY <2>2, <2>3, <2>4
  <1>2. CASE RemoveClip(t)
    <2>1. PICK r \in purging[t] :
             /\ About(t, r)
             /\ \/ clips' = clips \ {r} /\ KeepGo(t, "clear") /\ Granted
                \/ UNCHANGED clips /\ KeepGo(t, "ready") /\ Refused
      BY <1>2 DEF RemoveClip
    <2>2. r \in aged /\ r \in Records /\ status[r] = "synced"
      BY <1>2, <2>1 DEF RemoveClip, PurgeFits, KeepTypeOK, AgedAreSynced
    <2>3. KeepTypeOK'
      BY <1>0, <1>2, <2>1, <2>2, FaultsTyped
         DEF RemoveClip, KeepTypeOK, StoreTypeOK, storeVars, About, KeepGo, KeepSteps
    <2>4. (AgedAreSynced /\ RefsHaveRows /\ RefHasClip)' /\ KeepChange
      BY <1>2, <2>1, <2>2
         DEF RemoveClip, AgedAreSynced, RefsHaveRows, RefHasClip, KeepChange, Purged, storeVars
    <2>5. InsertFits'
      BY <1>2, <2>1, <2>2 DEF RemoveClip, InsertFits, About, KeepGo, KeepTypeOK, storeVars
    <2>6. (UpdateFits /\ PurgeFits)'
      BY <1>2, <2>1, <2>2
         DEF RemoveClip, UpdateFits, PurgeFits, About, KeepGo, KeepTypeOK, storeVars
    <2> QED BY <2>3, <2>4, <2>5, <2>6
  <1>3. CASE ClearRef(t)
    <2>1. subject[t] \in aged /\ status[subject[t]] = "synced"
      BY <1>3 DEF ClearRef, PurgeFits, AgedAreSynced
    <2>2. KeepTypeOK'
      BY <1>3, FaultsTyped
         DEF ClearRef, ClearAudioRef, KeepTypeOK, StoreTypeOK, storeVars, KeepGo, KeepSteps
    <2>3. (AgedAreSynced /\ RefsHaveRows /\ RefHasClip)' /\ KeepChange
      BY <1>3, <2>1 DEF ClearRef, ClearAudioRef, AgedAreSynced, RefsHaveRows, RefHasClip,
                        KeepChange, Purged, storeVars
    <2>4. (InsertFits /\ UpdateFits /\ PurgeFits)'
      BY <1>3, <2>1 DEF ClearRef, ClearAudioRef, InsertFits, UpdateFits, PurgeFits, KeepGo,
                        KeepTypeOK, storeVars
    <2> QED BY <2>2, <2>3, <2>4
  <1>4. CASE PurgeEnd(t)
    <2>1. KeepTypeOK'
      BY <1>4 DEF PurgeEnd, KeepTypeOK, StoreTypeOK, storeVars, KeepGo, KeepSteps
    <2>2. (AgedAreSynced /\ RefsHaveRows /\ RefHasClip)' /\ KeepChange
      BY <1>4 DEF PurgeEnd, AgedAreSynced, RefsHaveRows, RefHasClip, KeepChange, storeVars
    <2>3. (InsertFits /\ UpdateFits /\ PurgeFits)'
      BY <1>4 DEF PurgeEnd, InsertFits, UpdateFits, PurgeFits, KeepGo, KeepTypeOK, storeVars
    <2> QED BY <2>1, <2>2, <2>3
  <1> QED BY <1>1, <1>2, <1>3, <1>4 DEF PurgeStep

LEMMA LifecycleKeeps ==
    ASSUME KeepInv, Lifecycle
    PROVE  KeepInv' /\ KeepChange
  <1> USE DEF KeepInv
  <1>1. UNCHANGED <<clips, audioRef, keepThreadVars, faults, rev, pendingVoids>>
    BY DEF Lifecycle, Confirm, Reject, SetStatus, MarkSynced, storeVars
  <1>2. /\ status' \in [Records -> Statuses]
        /\ badge' \subseteq badge
        /\ \A r \in Records : /\ status[r] = "none" <=> status'[r] = "none"
                              /\ status[r] = "synced" => status'[r] = "synced"
    BY DEF Lifecycle, Confirm, Reject, SetStatus, CanTransition, MarkSynced, storeVars, KeepTypeOK,
           StoreTypeOK, Statuses
  <1>3. /\ aged \subseteq aged' /\ aged' \subseteq Records
        /\ \A r \in aged' \ aged : status'[r] = "synced"
    BY DEF Lifecycle, KeepTypeOK, storeVars
  <1>4. KeepTypeOK'
    BY <1>1, <1>2, <1>3 DEF KeepTypeOK, StoreTypeOK, keepThreadVars
  <1>5. (AgedAreSynced /\ RefsHaveRows /\ RefHasClip)' /\ KeepChange
    BY <1>1, <1>2, <1>3 DEF AgedAreSynced, RefsHaveRows, RefHasClip, KeepChange, KeepTypeOK
  <1>6. (InsertFits /\ UpdateFits /\ PurgeFits)'
    BY <1>1, <1>2, <1>3 DEF InsertFits, UpdateFits, PurgeFits, keepThreadVars
  <1> QED BY <1>4, <1>5, <1>6

LEMMA DeathKeeps ==
    ASSUME KeepInv, KeepDies
    PROVE  KeepInv' /\ KeepChange
  <1>1. KeepTypeOK'
    BY FaultsTyped DEF KeepInv, KeepDies, KeepTypeOK, StoreTypeOK, storeVars, KeepSteps
  <1> QED BY <1>1 DEF KeepInv, KeepDies, AgedAreSynced, RefsHaveRows, RefHasClip, InsertFits,
                      UpdateFits, PurgeFits, KeepChange, KeepTypeOK, storeVars

LEMMA KeepStepInv == KeepInv /\ [KeepNext]_keepVars => KeepInv' /\ [KeepChange]_keepVars
  <1> SUFFICES ASSUME KeepInv, [KeepNext]_keepVars
               PROVE  KeepInv' /\ [KeepChange]_keepVars
    OBVIOUS
  <1>1. CASE UNCHANGED keepVars
    BY <1>1 DEF KeepInv, KeepTypeOK, StoreTypeOK, AgedAreSynced, RefsHaveRows, RefHasClip,
                InsertFits, UpdateFits, PurgeFits, keepVars, storeVars, keepThreadVars
  <1>2. CASE KeepNext
    <2>1. KeepInv' /\ KeepChange
      BY <1>2, SaveClipKeeps, InsertRowKeeps, EditKeeps, PurgeKeeps, LifecycleKeeps, DeathKeeps
         DEF KeepNext, KeepStep
    <2> QED BY <2>1
  <1> QED BY <1>1, <1>2

LEMMA KeepInvariant == KeepSpec => []KeepInv /\ [][KeepChange]_keepVars
  BY KeepInitInv, KeepStepInv, PTL DEF KeepSpec

-----------------------------------------------------------------------------

\* Every variable of the audio store keeps its type.
THEOREM KeepTypes == KeepSpec => []KeepTypeOK
  <1>1. KeepInv => KeepTypeOK
    BY DEF KeepInv
  <1> QED BY <1>1, KeepInvariant, PTL

\* Whatever fails and wherever the process dies, a reference leads to a clip or
\* belongs to a record whose purge is still to be finished (PurgeAudio).
THEOREM ReferenceLeadsToClip == KeepSpec => []RefHasClip
  <1>1. KeepInv => RefHasClip
    BY DEF KeepInv
  <1> QED BY <1>1, KeepInvariant, PTL

\* However dictation, edits and purges interleave, no audio is removed before the
\* backend has its record and the retention window has passed, and no edit,
\* however old the row it read, brings back a reference the purge has cleared
\* (PurgeAudio, Update).
THEOREM AudioGoesOnce == KeepSpec => PurgedForGood
  <1>1. [KeepChange]_keepVars =>
           [/\ \A r \in (clips \ clips') \cup (audioRef \ audioRef') : status[r] = "synced" /\ r \in aged
            /\ \A r \in audioRef' \ audioRef : status[r] = "none"]_keepVars
    BY DEF KeepChange, Purged
  <1> QED BY <1>1, KeepInvariant, PTL DEF PurgedForGood

-----------------------------------------------------------------------------
(* Orphans. *)

\* While nothing has failed every clip has its reference, or a thread about to
\* insert it.
ClipsAreKnown ==
    faults = 0 =>
        \A r \in clips :
            \/ r \in audioRef
            \/ \E t \in Keepers : keepPc[t] = "insert" /\ withRef[t] /\ subject[t] = r

\* The reference is cleared after the file is gone.
FileGoesFirst == \A t \in Keepers : keepPc[t] = "clear" => subject[t] \notin clips

OrphanInv == KeepInv /\ ClipsAreKnown /\ FileGoesFirst

LEMMA OrphanStep ==
    ASSUME OrphanInv, KeepNext
    PROVE  (ClipsAreKnown /\ FileGoesFirst)'
  <1>0. KeepInv /\ KeepTypeOK
    BY DEF OrphanInv, KeepInv
  <1>f. faults \in Nat /\ (faults' = faults \/ faults' = faults + 1)
    BY <1>0, KeepConstants
       DEF KeepTypeOK, KeepNext, KeepStep, PurgeStep, SaveClip, InsertRow, ReadRow, WriteRow,
           PurgeBegin, RemoveClip, ClearRef, PurgeEnd, Lifecycle, KeepDies, Refused, Granted
  <1> USE <1>0, <1>f DEF OrphanInv, KeepTypeOK, KeepGo, About, storeVars, keepThreadVars
  <1>1. ASSUME NEW t \in Keepers, SaveClip(t)
        PROVE  (ClipsAreKnown /\ FileGoesFirst)'
    <2>1. PICK r \in Records \ (Taken \cup clips) :
             /\ subject' = [subject EXCEPT ![t] = r]
             /\ clips' \in {clips, clips \cup {r}}
             /\ \/ Refused
                \/ Granted /\ withRef' = [withRef EXCEPT ![t] = TRUE]
      BY <1>1 DEF SaveClip
    <2>2. keepPc[t] = "ready" /\ keepPc' = [keepPc EXCEPT ![t] = "insert"] /\ audioRef' = audioRef
          /\ \A u \in Keepers : u # t => withRef'[u] = withRef[u]
      BY <1>1 DEF SaveClip
    <2>3. status[r] = "none"
      BY <2>1 DEF Taken
    <2>4. FileGoesFirst'
      <3>1. \A u \in Keepers : keepPc[u] = "clear" => subject[u] # r
        BY <2>3 DEF KeepInv, PurgeFits, AgedAreSynced
      <3> QED BY <2>1, <2>2, <3>1 DEF FileGoesFirst
    <2>5. ClipsAreKnown'
      <3>1. CASE Refused
        BY <3>1 DEF ClipsAreKnown, Refused
      <3>2. CASE Granted /\ withRef' = [withRef EXCEPT ![t] = TRUE]
        <4>1. keepPc'[t] = "insert" /\ subject'[t] = r /\ withRef'[t]
          BY <2>1, <2>2, <3>2
        <4>2. \A u \in Keepers : u # t => /\ keepPc'[u] = keepPc[u] /\ subject'[u] = subject[u]
                                         /\ withRef'[u] = withRef[u]
          BY <2>1, <2>2
        <4> QED BY <2>1, <2>2, <3>2, <4>1, <4>2 DEF ClipsAreKnown, Granted
      <3> QED BY <2>1, <3>1, <3>2
    <2> QED BY <2>4, <2>5
  <1>2. ASSUME NEW t \in Keepers, InsertRow(t)
        PROVE  (ClipsAreKnown /\ FileGoesFirst)'
    BY <1>2 DEF InsertRow, InsertedRef, ClipsAreKnown, FileGoesFirst, Refused, Granted
  <1>3. ASSUME NEW t \in Keepers, ReadRow(t)
        PROVE  (ClipsAreKnown /\ FileGoesFirst)'
    <2>1. \A u \in Keepers : u # t => /\ keepPc'[u] = keepPc[u] /\ subject'[u] = subject[u]
                                     /\ withRef'[u] = withRef[u]
      BY <1>3 DEF ReadRow
    <2>2. keepPc[t] = "ready" /\ keepPc'[t] = "update" /\ clips' = clips /\ audioRef' = audioRef
      BY <1>3 DEF ReadRow
    <2> QED BY <2>1, <2>2 DEF ClipsAreKnown, FileGoesFirst
  <1>4. ASSUME NEW t \in Keepers, WriteRow(t)
        PROVE  (ClipsAreKnown /\ FileGoesFirst)'
    <2>1. audioRef' = audioRef
      BY <1>4 DEF WriteRow, KeepInv, UpdateFits, Editable
    <2> QED BY <1>4, <2>1 DEF WriteRow, ClipsAreKnown, FileGoesFirst
  <1>5. ASSUME NEW t \in Keepers, PurgeBegin(t) \/ PurgeEnd(t)
        PROVE  (ClipsAreKnown /\ FileGoesFirst)'
    BY <1>5 DEF PurgeBegin, PurgeEnd, ClipsAreKnown, FileGoesFirst
  <1>6. ASSUME NEW t \in Keepers, RemoveClip(t)
        PROVE  (ClipsAreKnown /\ FileGoesFirst)'
    <2>1. PICK r \in purging[t] :
             /\ subject' = [subject EXCEPT ![t] = r]
             /\ \/ clips' = clips \ {r} /\ KeepGo(t, "clear")
                \/ clips' = clips /\ KeepGo(t, "ready")
      BY <1>6 DEF RemoveClip
    <2>2. keepPc[t] = "purge" /\ audioRef' = audioRef /\ withRef' = withRef
      BY <1>6 DEF RemoveClip
    <2>3. FileGoesFirst'
      BY <2>1, <2>2 DEF FileGoesFirst
    <2>4. ClipsAreKnown'
      BY <2>1, <2>2 DEF ClipsAreKnown
    <2> QED BY <2>3, <2>4
  <1>7. ASSUME NEW t \in Keepers, ClearRef(t)
        PROVE  (ClipsAreKnown /\ FileGoesFirst)'
    BY <1>7 DEF ClearRef, ClearAudioRef, ClipsAreKnown, FileGoesFirst
  <1>8. CASE Lifecycle
    BY <1>8 DEF Lifecycle, ClipsAreKnown, FileGoesFirst
  <1>9. CASE KeepDies
    BY <1>9 DEF KeepDies, Refused, ClipsAreKnown, FileGoesFirst
  <1> QED BY <1>1, <1>2, <1>3, <1>4, <1>5, <1>6, <1>7, <1>8, <1>9 DEF KeepNext, KeepStep, PurgeStep

\* A clip no row refers to is the trace of a fault: where no call has failed and
\* no process died, newObservation and PurgeAudio leave none behind, however
\* they interleave.
THEOREM NoOrphanWithoutFault == KeepSpec => []OrphanOnlyByFault
  <1>1. KeepInit => OrphanInv
    BY KeepInitInv DEF OrphanInv, ClipsAreKnown, FileGoesFirst, KeepInit
  <1>2. OrphanInv /\ [KeepNext]_keepVars => OrphanInv'
    <2>1. CASE UNCHANGED keepVars
      BY <2>1, KeepStepInv
         DEF OrphanInv, ClipsAreKnown, FileGoesFirst, keepVars, keepThreadVars
    <2> QED BY <2>1, KeepStepInv, OrphanStep DEF OrphanInv
  <1>3. OrphanInv => OrphanOnlyByFault
    BY DEF OrphanInv, ClipsAreKnown, OrphanOnlyByFault
  <1> QED BY <1>1, <1>2, <1>3, PTL DEF KeepSpec
=============================================================================
