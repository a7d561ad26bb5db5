# Voice inventory in TLA+

A field device records inventory observations by voice. Audio becomes
utterances, an utterance becomes a draft in a SQLite file, the operator
confirms or scratches it, and confirmed records are uploaded to a backend that
owns them from then on. This directory models that path from the samples of the
microphone to the records of the backend, with the reference data, settings and
audio files kept beside it: where order, failure and concurrency decide what is
lost, duplicated, resurrected or silently different, as state machines with
every interleaving; where arithmetic and precedence decide it, as functions
over bounded inputs. TLC checks the models and TLAPS proves the main results.

## Inventory of the system

| Component | State | Operations | Talks to |
|---|---|---|---|
| `store` | rows of `observations` (status, content, badge, audio reference), corrections, reference tables, `sync_state` | Insert, Update, Confirm, Reject, UnsyncedConfirmed, MarkSynced, SetSyncRejected, LastActive, Replace*, AudioToPurge | one SQLite file, possibly opened by several processes; each call is one statement or transaction |
| `syncer` | a mutex per `*HTTP` value; locals of a pass | Push, PullRefData | store; backend over HTTP with bounded retries |
| backend (`cmd/vinv/mockserver.go`, `docs/backend-protocol.md`) | records by id, reference data and its ETag | batch, void, refdata | any number of devices |
| `session` | state idle/armed/reviewing, pending record, last saved id, capture buffers, resolver | Arm, Disarm, Begin/Feed/EndUtterance, HandleTranscript, Confirm, Scratch, CorrectField, EditRecord, AddManual, PurgeAudio, RefreshRefData | store, transcriber, listener callbacks (always without the mutex) |
| `mobile.App` | configuration, current syncer | the binding the shells call, from any thread | session, store, syncer |
| `vad`, `audio` | detector and filter state | frames in, utterances out | session |
| `parser`, `lang`, `fuzzy`, `refdata` | none | text to fields, names to entries | session |
| `grid` | none | message encoding and signatures | nothing yet |
| `asr` | model files on disk | Transcribe, EnsureModel | an external recognizer |
| `config`, `export`, `cmd/vinv`, shells | configuration file | I/O and user interface | everything above |

**How they interact.** The Go core starts no goroutine of its own. The shells
call it from thread pools (`AppViewModel.kt` uses `Dispatchers.IO`,
`AppModel.swift` detached tasks), so capture, review, batch review and
sync calls overlap. Session methods hold the session mutex only to snapshot
and to write back; their store calls run without it. Batch review
(`ConfirmRecord`, `RejectRecord`) goes straight to the store, past the session.
A push holds its own syncer's mutex for the whole pass, over many store calls
and HTTP requests, and nothing keeps the operator from changing records
meanwhile. `vinv` processes may use the same file.

**What is hard.** A lost answer, a late or repeated request, a rejected or
edited record whose upload is in flight, process death with ids to void only
in memory, a second syncer, a queue whose head the backend refuses; calls that
interleave on the session, and records decided elsewhere while under review;
whole-row updates from old copies; one flag that carries a truncation mark from
one call to the next; three tables, an etag and an index replaced one by one; a
profile merged without its lock; a file and the row that names it; frames
counted against chunks that do not fit them; words that several rules of the
parser would take. `PROJECT.json` lists each at its line
("hazards").

**What makes each part correct.**

- *Upload*: synced implies held by the backend; drafts never leave; only
  rejected records are withdrawn, and every rejected record is; refused records
  block nobody; passes end.
- *Session*: in review there is a record; a record is pending only in review;
  what was read back is what is stored; nobody but the operator arms the
  microphone; no edit is undone; review is never wedged.
- *Capture*: every stretch of speech is in one utterance, soft onset included,
  none overlaps another or joins what a Disarm parts; what the cap cuts is
  marked, on its own record.
- *Reference data*: a 304 never hides tables that are not the backend's set; a
  pull leaves the session with the set it was answered.
- *Settings*: `config.json` is whole at every instant and is the profile in use
  at rest; a login survives a settings document that names no operator.
- *Audio*: a reference leads to a clip; no clip goes before its record is
  synced and aged, and then it does go.
- *Utterances*: numbers are found whole and exact; every word has one slot; the
  last correction wins; nothing doubtful passes unflagged; a known name finds
  its entry.

## Modules

```
Store --------------+---------------+---------------+
  |  (EXTENDS)      |               |               |
Sync -> Backend   Session       Retention    RefData   Settings
  | refines Outbox  |               |           |         |
MCSync            MCSession         +--- MCDevice --------+
Sync_proofs       Session_proofs    Retention_proofs, RefData_proofs,
                                    Settings_proofs

Detector <- Capture (MCCapture, Capture_proofs)

RulePacks <- Language <- NumWords <- Parser <- Review --+
                                              Matcher --+-- Utterances (MCUtterances,
                                                            Utterances_proofs,
                                                            Numbers_proofs)
```

**Store** is the part of `store/store.go` the others share: the lifecycle
(`observation.CanTransition`), one operator per store call, enabled only when
the call would succeed. Record ids are numbers because UUIDv7 ids are compared.
A record's content is a revision number: `Update` gives the row the next one.
Only what the columns mean to the properties is kept: `badge` is the set of
rows with a `sync_rejected_reason`, `pendingVoids` the row of `sync_state`.

**Backend** is the mock server's two record handlers. A refusal is an argument:
the mock refuses what fails `Validate`, the protocol lets a backend refuse for
reasons of its own.

**Sync** is `HTTP.Push`. A syncer's program counter stands at the points where
another process can act:

| `pc` | code (`syncer/syncer.go`) | steps from there |
|---|---|---|
| `idle` | between passes | PushBegin |
| `fetch` | the loop's head, line 174 | Fetch, FetchFails |
| `post` | in `do` for the batch, 190 | PostAnswered, DoFails, DoAborts, DoUnanswered, DoDelayed |
| `mark` | 195 | Mark, MarkFails |
| `diverge` | one `Get` per id, 240-248 | Diverge, DivergeFails, DivergeDone |
| `refuse` | one `SetSyncRejected` per id, 209 | Refuse, RefuseFails, RefuseDone |
| `void` | `sendVoids`, 221 | VoidNothing, VoidAnswered, the Do steps |
| `save` | every `savePendingVoids` before a return | Save, SaveFails |

`Crash` may happen at every point and keeps only the store. `DoUnanswered` is a
request the backend handled and whose answer was lost, `DoDelayed` puts a
request on the wire for `LateBatch` / `LateVoid` to deliver at any later time,
also after the sender's next passes. Four names in `Faults` switch these off,
so that a run can say under which faults its property holds. `queued` is a
history variable: what was confirmed when the pass began.

**Outbox** says what the path promises without pages, retries or passes; the
refinement maps its `uploaded` to the records live on the backend.

**Session** is `session/session.go`. A call is a sequence of steps, one per
critical section or store call, by a thread with its own locals. `rev`,
`pendingRev`, `base` and `copy` follow the content of a record from the row to
the copy in `s.pending` and into the working copy of a correction. `Hear` is
`HandleTranscript`: what the parser makes of the utterance is a choice.
`Beside` is batch review's decision or a push marking a record synced.
`StoreError` is any store call's error, the corrections log's included: then the
row is written and `CorrectField` keeps the copy from before.

**Detector** is `vad/vad.go` as functions on a record: `ProcessFrame`, `Flush`,
`Trim`, with audio counted in samples. Whether a frame is speech is an input.
**Capture** is what the session does with it: `FeedPCM` cuts a chunk into frames
under the mutex (`FeedWake`, `FeedTurn`, `FeedEnd`; `Locked` keeps other calls
out), then handles the utterances it got without the mutex (`Transcribe`,
`Mark`, `Take`, `Record`), and a held button fills its own buffer (`FillPTT`).
`heard`, `pttFed` and `disarmedAt` are histories to compare with; `crossed` are
the threads between leaving and taking a mark while another one is.

**RefData** is `PullRefData` and `RefreshRefData`: a set is the number of the
version the backend published, each of three tables, the etag and the three
parts of the index hold one. Steps stand between any two transactions; `using`
says whose mutex a thread holds, and `ReplaceSyncer` is `SetConfigJSON`. `alone`
and `tainted` are histories of pulls that overlapped.

**Settings** is `SetConfigJSON`, `SetOperator`, `Save` and `Load`. A profile is
the operator and one value for the rest. A save is three steps (temporary file,
its content, rename), each of which process death may follow; `overlap` is the
history of calls that overlapped since a login.

**Retention** is a clip beside the row that names it: `SaveClip` and `InsertRow`
(newObservation), `ReadRow` and `WriteRow` (an edit), `PurgeBegin`, `RemoveClip`,
`ClearRef` (PurgeAudio), each of which may be refused or followed by death.

**MCDevice** runs these three together. They share no variable, so interleaving
them would multiply states and add no behaviour: one moves while the others are
as they began.

**RulePacks**, **Language**, **NumWords**, **Parser**, **Review**, **Matcher** are the pure
functions of `lang/`, `parser/`, `fuzzy/`, `refdata/` and the judgement in
`session.go`, over tokens: a token is a folded word and whether a clause ends
after it. The rule tables are a constant of `Language` that `MCUtterances` gives
the tables of `RulePacks`. These are cut: every number up to the thousands has
its words in both languages, of inflected forms ("veintiuna", "dozens") one or
two; of each other role some words stand for all. Several of them have a second
role, as in the source ("a", "and", "no", "some", "un", "unos", "y"); other words
with two roles are left out or kept with one ("unit" is a unit and the name of a
field). An item that takes over the location of the one before it is a tenth less
sure of it (`carried`), and DoubtIsFlagged judges every item of an utterance by
it. Texts of the result are kept as the positions they are made of, scores as
exact fractions. **Utterances** lets TLC enumerate their inputs: its states are a
number to spell, an utterance grown phrase by phrase, or a pair of names.

`MCSync`, `MCSession` and `MCCapture` only add TLC's symmetry sets. Operators commented
"Faulty variant" are not part of the models: each is a mistake put in the place of the
definition that follows it, to see that the property named for it in
`PROJECT.json` ("mutants") notices.

## Runs

| Run | Bounds | Shows |
|---|---|---|
| `sync_two` | 2 syncers, 2 records, pages of 1, 1 attempt, all faults, 1 late request | SyncedWasAccepted, OnlyConfirmedUploaded, SyncedHasNoBadge, VoidsAreRejected, Refines |
| `sync_one` | 1 syncer, 3 records with 2 contents, pages of 2, 2 attempts, lost answers, death, store errors | TypeOK, PassCoversQueue, PendingVoidsNotLost |
| `sync_live` | 1 syncer, 3 records, two of them refusable, pages of 2, no faults but failing requests | NoSilentDivergence, PassTerminates, EventuallySettled, VoidsDrain |
| `session_serial` | 1 thread, 3 records, 3 contents, utterances of up to 2 items, auto-confirm | TypeOK, PendingIffReviewing, PendingIsStored, LastSavedWasSaved, ArmedByArm, NeverWedged |
| `session_threads` | 2 threads, 2 records, every call, store errors | ReviewHasPending |
| `capture` | 2 threads, frames of 2 samples, 2 frames to start and to end, chunks of 1 or 2, 13 samples, a cap of 7 for the detector and of 5 for the button, 1 record | UtterancesInOrder, SpeechIsKept, SilenceTrimmed, DisarmDropsPartial, PTTKeepsHead, MarkIsRight |
| `device` | 2 threads in each part; 2 versions and 2 syncers; 2 operators; 2 records, 2 contents, 1 fault | NotModifiedIsTrue, PullDelivers; FileIsWhole, SavedAtRest, OperatorIsLastLogin; RefHasClip, OrphanOnlyByFault, PurgedForGood, PurgedInTheEnd |
| `utterances` | some 700 numbers up to 141 thousand; up to 4 of 13 phrases; pairs of names of up to 3 letters and a few longer | NumbersHeard, ItemsAreCounted, OneSlotPerWord, CorrectionWins, DoubtIsFlagged, NameFindsItsOwner |
| `void_lost_response` | 1 record, lost answers | NoSilentDivergence **fails** |
| `two_syncers` | 2 syncers, no fault | PendingVoidsNotLost **fails** |
| `edit_in_flight` | 1 record with 2 contents, no fault | SyncedMatchesBackend **fails** |
| `edit_pending` | 1 thread, 1 record | NoEditUndone **fails** |

*Why the bounds are enough.* Two syncers and two records reach every pair of
steps on the same and on different records; one record per page makes two-page
passes. Three records in pages of two reach a full page, a short last page and,
with refusals, a refused head of the queue. Two attempts distinguish a retry
from giving up. Two contents distinguish an edit from none; the session needs
three for an edit before and after another. Two threads reach every pair of
interleaved calls, two items every case of an utterance (a last item and one
that is not). `MaxRev` and `MaxLate` bound what grows without end in the
program: edits of one record, requests in the network.
In `capture` chunks of one sample split frames and chunks of two do not; 13
samples are six frames and a half, enough for an utterance to open, close or
reach its cap of 7 samples, and for a second one to begin or a Disarm to part
them. The button's buffer holds the four samples that make an utterance and one
of half a frame, and overflows, so that button and detector both deliver
utterances whole and cut. Two threads reach two handlings that cross; an
utterance taken as a command, or whose record the store refuses, leaves one
record to show a mark that outlived its own utterance. In `device` two versions
are one stale and one current, two syncers one dropped and one new. Two profiles
that differ in the operator are what the merge and the login can disagree about;
that the rest is carried along is not claimed. Two records and one fault reach a
purge cut at each step. In `utterances` some words with two roles ("a", "and",
"no") occur, not all of the source's; four phrases make every order of location,
quantity, item, conjunction and correction; of the numbers all to 250 and
samples beyond reach every combination of the rules.
`EditsLeft` and `RecordsLeft` keep a call from starting that the bounds could
not finish. Deadlock is not checked: when every record is settled and the
bounds are used up, a session or a device may really do nothing more.

*Fairness.* `Sync`: the shells offer sync and it is used again and again (weak
fairness of PushBegin), a running pass goes on (weak fairness of its steps; it
has a timeout on every request), and a request sent for ever is answered some
time (strong fairness of an answer carrying a given record). Nothing is assumed
of the operator. `Session`: a call that began goes on, and an operator in review
confirms some time (strong fairness of CallConfirm in review). `Retention`: a
call that began goes on, and a thread that is ready again and again purges some
time (strong fairness of PurgeBegin): `docs/mobile-integration.md:100` has the
shell call purgeAudio "e.g. daily". `Capture`, `RefData`, `Settings` and
`Utterances` claim no liveness.

## The disagreements

1. **A lost answer hides a rejection** (`void_lost_response`). The void protocol
   compares what the backend *said* it accepted with what became synced. When
   the answer is lost there is nothing to compare; a record rejected before the
   next pass stays live on the backend, against
   `docs/backend-protocol.md:94-95`.
2. **A replaced syncer loses voids** (`two_syncers`). `SetConfigJSON` drops the
   syncer under its pass; the comment at `syncer.go:118-121` promises that
   passes are serialized, which holds of one `HTTP` value only.
3. **An edit in flight** (`edit_in_flight`). A confirmed record may be edited
   until it is synced, so "device records are immutable after sync"
   (`docs/backend-protocol.md:62-64`) does not make an overwrite and a no-op
   equivalent.
4. **An edit undone** (`edit_pending`). `EditRecord` on the record under review
   is undone by the next voice correction, which rewrites the row from memory,
   against `mobile.go:290` and `session.go:732`.

Crashes, store errors and late requests break NoSilentDivergence too; they are
listed as hazards, not as disagreements: no document speaks of them.

**Limits of the program the properties state as conditions.** They follow from
the code, and a reader should know them:

- Two handlings that overlap may exchange a truncation mark; MarkIsRight is of
  records whose handling no other crossed.
- Pulls that overlap on two syncers may leave mixed tables under an etag the
  backend then answers with 304, until a pull that is sent a whole set has run
  alone (NotModifiedIsTrue, PullDelivers).
- A login during a SetConfigJSON is undone (OperatorIsLastLogin).
- A failed insert or a death after the clip is written leaves a clip that
  nothing purges (OrphanOnlyByFault).
- The silence that ends a complete buffer (`Trim`) may take up to
  StartFrames - 1 spoken frames with it, as the comment there says.
- A held button does not close the detector's open utterance: the audio before
  and after it is one utterance.
- A correction recomputes the review reasons from the stored record, which no
  longer knows that the quantity was vague, the location unknown or the
  utterance cut (DoubtIsFlagged claims the confidences).
- A spoken code that is in no entry may resolve to its neighbour (a-15 to
  a-14), unflagged; NameFindsItsOwner is of known names.
- "twenty, five boxes" is 25: ScanNumbers does not see the ends of clauses.

## Proofs

The proofs hold for every value of the constants under the named assumptions of
the modules (ids are positive numbers, bounds are positive, `MayRefuse` is a set
of records, the faults are the known ones; the detector's onset fits in its
pre-roll and that in its cap; no name is empty, which `foldKeys` sees to, and a
threshold is in [0, 1], which `Validate` does; of the rule tables
`PacksAssumption` says what both languages' tables have: numbers are whole and
phrases not empty; a number word has one role, an article that is a one besides;
"of" begins no location and no correction, and no location begins inside the
words that announce a correction. `EnglishAssumption` says of the English
tables, for the corrections the property speaks, that no location begins with a
code or a number word, that "no" announces a correction by itself and does
nothing else, and that the words of "b-2" and "about thirty reels" have the
roles they have. `SpellingAssumption` says of the words a number is spelled in
that each value up to nineteen, each ten and, in Spanish, each value to
twenty-nine and each hundred has one; that a phrase like "a couple" is not of
numerals alone and one like "more or less" has at most three words, as far as
the scan looks back; and that the words put around a number begin none. TLC
evaluates all three with the tables of `RulePacks`).

- **Types.** In each module the type invariant is part of the inductive
  invariant below. In the session it is not inductive alone: a copy is made of
  the row of a *target*, and the count of items goes down, so it takes
  `Targeted` (a step about a record has one) and `Counted`.
- **Upload safety** (`Sync_proofs`). `SyncedWasAccepted` is not inductive.
  `SafetyInv` adds what is on its way (`TravellingWasConfirmed`) and what a pass
  remembers (`AcceptedIsHeld`: an accepted record is live unless it was rejected
  since). `StepForward`, `StepBackend` and `StepVoids` say how statuses, the
  backend and voids may move in one step; the invariant follows from them.
- **Refinement.** Under the same invariant every step of `Sync` is a step of
  `Outbox` or changes neither status nor the live set.
- **Divergence.** `RejectedIsWithdrawn` proves NoSilentDivergence for one
  syncer and no faults (`Calm`). `CalmInv` accounts for every live record
  (`LiveAccounted`): confirmed or synced, or being carried to its void by the
  batch, the accepted ids, the ids to look up, the voids in memory or those
  saved. Neither half of `Calm` can be dropped: TLC finds the property violated
  with a second syncer, and with each single fault.
- **The queue** (`Sync_proofs`). `PassLeavesNobodyOut` proves PassCoversQueue
  for any number of syncers and all faults, of finitely many records. `Covered`
  says at each step of a pass where a record it still owes can be: above the
  cursor, on the page, among the accepted and refused ids, or behind a page
  that was full. The page itself takes `PageIsAHead`: what a page of `limit`
  leaves waiting is above its last id, and it leaves something only when it is
  full; that rests on the least element of a set of numbers (`Least`) and on
  cardinalities. `BadgeComesOff` needs only how badges move. `NoVoidIsLost`
  (one syncer, no late request) adds that a pass has every saved id in hand
  until the backend withdrew it.
- **Session** (`Session_proofs`). `UnderReview` needs only `SessionInv`, for any
  overlap of calls. `NothingLeftBehind` and `MicrophoneArmedByArm` assume one
  call at a time (`Alone`) and add what a call knows between its steps
  (`Knows`). `ReadBackIsStored` and `FallsBackOnSaved` assume besides that the
  store answers and nothing is edited in batch review (`Trusted`), as the run
  does; `Remembered` says that the copy is behind its row only inside a
  correction, and the last saved record unsaved only inside an automatic
  confirmation.
- **Capture** (`Capture_proofs`). `ProcessGood` says of a detector, for every
  length of frame, pre-roll, hang-over and cap, that a chunk keeps it `Good`
  (what it holds ends where its frames do, and is within the pre-roll or the
  cap) and that utterances are delivered in order; `QueueFits` and `MarkFits`
  follow the truncation mark from the detector to the record. SpeechIsKept and
  SilenceTrimmed speak of every frame of a history and are not inductive.
  `SpeechInv` ties the history to the detector's counters: the frames heard
  follow one another from the last Disarm to where the detector has got to
  (`HeardFits`); outside an utterance, what comes before the run of speech in
  progress is nothing, silence, or the cut the cap made (`RunFits`); an open
  utterance holds the frames that opened it, and its last spoken frame is
  followed by just the silence the detector has counted (`OpenFits`).
- **Reference data** (`RefData_proofs`). `Brought` says how far a pull that is
  alone has brought the tables from the set the etag names to the one it got,
  `Seen` that what it read is what they hold; `Solitude` that overlap is noted.
- **Settings** (`Settings_proofs`). What is renamed is the profile in use
  (`RenamesCfg`, because saves exclude each other); a change not in the file is
  owed by a running call (`SaveOwed`); a lone call's copy goes from the profile
  to the profile (`LoneFits`).
- **Audio** (`Retention_proofs`). `UpdateFits` is the point: a copy of a row
  differs from it in the reference only once the row is synced, and then the
  store refuses the copy, so what is purged stays purged (`AudioGoesOnce`).
  `OrphanInv` accounts for every clip while nothing has failed.
- **Names** (`Utterances_proofs`). NamesFindTheirOwners is about two texts of
  any length. `PairsUpTo` is recursive, and the library states induction and
  recursion for operators, which the provers cannot instantiate: `Inductive`
  and `Recursion` state them for a set and for a function, from the least
  element of a set of numbers. `WellPaired` is what the recursion keeps (no
  character in two pairs; as many pairs as characters are in order). A Jaro
  score is at most one, and one only when every character is paired in its
  place (`JaroScore`, `KthIsK`), so only of equal texts; the prefix bonus, the
  plural and the code score add none (`JaroWinklerScore`, `KeyScoreIsFull`), and
  the first best entry is one of a full score (`FirstBestIsFull`).
- **Doubts** (`Utterances_proofs`). DoubtsAreFlagged follows from what every
  parse says of its quantity (`ParseJudgeable`), whatever words it was made of, and
  from that an item of several keeps it when it takes over a location
  (`ItemsJudgeable`).
  It assumes `Thresholds.quantity > 50`, as the default of 70 is: an
  approximate quantity is 50 sure, and with a threshold up to that a record of
  "about thirty" is saved unasked.
- **Slots** (`Utterances_proofs`). WordsHaveOneSlot holds for any tables with
  `PacksAssumption`, for texts of any length. The slots are disjoint for three
  reasons. The words a location took begin with a preposition or an anchor noun
  (`LocationTakes`: each other word of it has the one before it), so none of
  them is in the rest of a marker whose first word is free (`MarkerTakes`); no
  location or correction begins with "of", so the words "of" after a free number
  are free (`OfsAreFree`); and what is left is cut off by construction
  (`SevenParts`). Below that, a run takes at least one word and ends in the
  utterance (`RunTakesWords`), and so do numbers and segments (`NumbersFit`,
  `SegmentsFit`). `ScanNumbers`, `Segments` and `PartsCut` recur towards the end
  of the text: `RecursionDown` gives such a function for values that depend on
  later ones only, `Downward` is the induction that goes with it.
- **Numbers** (`Numbers_proofs`). NumbersAreHeard is about every number below a
  million and every table with `SpellingAssumption`, where the run takes some
  700 numbers and two tables. A run is followed word by word: `Leads` says that
  from one state it comes to another whatever it does after, so the words of a
  number can be taken one at a time. `Adds` says what words below a hundred add
  to a run, `Groups` what words below a thousand make of one that has no group
  yet, `Makes` that all the words lead a run from its start to the number;
  behind them, at a word that belongs to no number or at the end of the text, it
  stops (`MadeHeard`). `EnglishMakes` and `SpanishMakes` go through the cases of the two spellings ("un" and "one" may
  be articles too; "ciento" and "cien"; "mil" with nothing before it). Nothing
  vague begins inside a numeral, nothing is heard before it or after it
  (`HeardNothing`), so the scan finds exactly one number (`ScanOne`), with the
  marker before it or without (`NumberAmong`, `NumberMoreOrLess`). For "several
  hundred" it takes that the scan never comes to a word inside a number it has
  heard (`SeveralCovered`).
- **Corrections** (`Utterances_proofs`). CorrectionsWin proves CorrectionWins for
  texts of any length, an English text being said before the correction. Its
  first half, that the value after "no" is the one used, follows the parse to
  the end of the text: "no" there is the last marker (`LastCorrection`) and the
  words of its correction are free of locations and of other markers
  (`LocationBefore`, `MarkerBefore`), so they are what fills the slot
  (`CodeWins`, `ThirtyWins`). The second half, that "no, ..." in review
  (`ParseCommand`) sets what it sets at the end of an utterance, compares the
  parse of some words with that of the same words behind "nails." and "no":
  `Repeats` says that the second is the first one two positions on. Numbers are
  heard two positions on (`HeardBehind`, `ScanBehind`), and so are the parts of
  a location (`SegsAtFollow`, `CoversFollow`, `RenderFollows`); a location
  either is the whole group or there is none (`CoveredGroup`, `NoGroup`); so
  location and quantity repeat (`LocationFollows`, `QuantityFollows`).

*Model-checked only.* All liveness (PassTerminates, EventuallySettled,
VoidsDrain, NeverWedged, PurgedInTheEnd): the prover has no support for
fairness (ENABLED). And ItemsAreCounted, which is not true of every phrase
outside the run: an item is cut off at "and" before an article or a number with
its unit, when the location and the correction of that part are not known yet,
and these may take the number or the unit: the article of "and a, box" ends a
clause and counts nothing, and some units of the reference data begin a
location as well ("pallet", `tables_en.go:8-11`). Every other invariant and
action property of the passing runs is proved. Of the session, PendingIsStored
and LastSavedWasSaved with overlapping calls are not claimed.

## Not modelled

- *Audio conditioning* (`audio/`): filters, gain and resampling in floating
  point; the detector takes speech or silence as an input.
- *Message format* (`grid/`): CBOR and COSE library calls, called by nothing
  yet, whose correctness is cryptographic.
- *Recognition* (`asr/`): an external program and one download that is renamed
  into place; a transcript is an input.
- *Export*, *command line*, *shells*: formatting, flags and user interface over
  the same calls. Several processes on one store are the syncers of `Sync`.
- In parts that are modelled: tokenising and spelling, decimal digits, names of
  several words, Levenshtein distance (which nothing calls), the corrections
  log, listing and search, the ranges `Validate` checks, HTTP headers and
  authentication, SQL and migrations, wording and layout.

*What could be added.* A composition of Session and Sync over one Store, whose
statuses both already move in every way the other allows (`OperatorStep`,
`Beside`); names of several words in Matcher; numbers spelled from a million
on, which the code's scales reach as well.
