-------------------------------- MODULE Capture --------------------------------
(***************************************************************************)
(* From the microphone to a record (session/session.go: Arm, Disarm,       *)
(* BeginUtterance, FeedPCM, EndUtterance, handleUtterance and the head of  *)
(* HandleTranscript).  Any thread of the shell makes these calls.  FeedPCM *)
(* holds the mutex while the detector takes the chunk frame by frame, then *)
(* handles the utterances it delivered without it: transcribe, leave the   *)
(* truncation mark in s.truncPending, pick it up again in                  *)
(* HandleTranscript, insert the record.                                    *)
(*                                                                         *)
(* Level, latency and error events are left out.  What becomes of a record *)
(* under review is module Session; here a review ends or corrects in one   *)
(* step.                                                                   *)
(***************************************************************************)
EXTENDS Detector, FiniteSets

CONSTANTS
    Threads,        \* threads of the shell
    WakeMode,       \* cfg.CaptureMode = "wake"
    MaxPTT,         \* maxPTTSamples
    MaxChunk,       \* bound: samples in one call of FeedPCM
    MaxAudio,       \* bound: samples given to the session in all
    MaxRecords      \* bound: records made

ASSUME CaptureAssumption ==
    /\ WakeMode \in BOOLEAN
    /\ MaxPTT \in Nat \ {0}
    /\ MaxChunk \in Nat \ {0}
    /\ MaxAudio \in Nat
    /\ MaxRecords \in Nat

VARIABLES
    state,          \* s.state
    inPTT,          \* s.inPTT
    pttLen,         \* len(s.pttBuf)
    pttTruncated,   \* s.pttTruncated
    det,            \* s.detector
    truncPending,   \* s.truncPending
    pc,             \* where each thread is
    chunk,          \* samples of the chunk the detector has not taken yet
    queue,          \* utterances a thread has to handle: their truncation marks
    taken,          \* the local `truncated` of HandleTranscript
    pttFed,         \* history: samples given while the button was held
    heard,          \* history: the frames analysed, [at, speech]
    disarmedAt,     \* history: where the detector was last replaced
    crossed,        \* history: threads whose mark another handling met
    records         \* history: records made of utterances, oldest first

pttVars == <<inPTT, pttLen, pttTruncated, pttFed>>
detVars == <<det, heard, disarmedAt>>
handleVars == <<truncPending, taken, crossed, records>>
vars == <<state, pttVars, detVars, handleVars, pc, chunk, queue>>

Steps == {"ready", "feed", "transcribe", "mark", "take", "record"}

TypeOK ==
    /\ state \in {"idle", "armed", "reviewing"}
    /\ inPTT \in BOOLEAN
    /\ pttLen \in 0 .. MaxPTT
    /\ pttTruncated \in BOOLEAN
    /\ pttFed \in Nat
    /\ det \in Detectors
    /\ heard \in Seq([at : Nat, speech : BOOLEAN])
    /\ disarmedAt \in Nat
    /\ truncPending \in BOOLEAN
    /\ pc \in [Threads -> Steps]
    /\ chunk \in [Threads -> 0 .. MaxChunk]
    /\ queue \in [Threads -> Seq(BOOLEAN)]
    /\ taken \in [Threads -> BOOLEAN]
    /\ crossed \subseteq Threads
    /\ records \in Seq([truncated : BOOLEAN, flagged : BOOLEAN, sure : BOOLEAN])

Init ==
    /\ state = "idle"
    /\ inPTT = FALSE
    /\ pttLen = 0
    /\ pttTruncated = FALSE
    /\ pttFed = 0
    /\ det = NewDetector(0)
    /\ heard = <<>>
    /\ disarmedAt = 0
    /\ truncPending = FALSE
    /\ pc = [t \in Threads |-> "ready"]
    /\ chunk = [t \in Threads |-> 0]
    /\ queue = [t \in Threads |-> <<>>]
    /\ taken = [t \in Threads |-> FALSE]
    /\ crossed = {}
    /\ records = <<>>

GoTo(t, step) == pc' = [pc EXCEPT ![t] = step]

\* A call inside FeedPCM's critical section keeps every other one out.
Locked == \E t \in Threads : pc[t] = "feed"

Calling(t) == pc[t] = "ready" /\ ~ Locked

-----------------------------------------------------------------------------
(* Capture. *)

Arm(t) ==
    /\ Calling(t)
    /\ state = "idle"
    /\ state' = "armed"
    /\ UNCHANGED <<pttVars, detVars, handleVars, pc, chunk, queue>>

\* Faulty variant: the detector is kept, with the utterance it holds.
FreshDetectorKept == det

\* Disarm replaces the detector; `out` is history.
FreshDetector == [NewDetector(det.fed) EXCEPT !.out = det.out]

\* Whatever the state; a record under review stays under review.
Disarm(t) ==
    /\ Calling(t)
    /\ state' = IF state = "armed" THEN "idle" ELSE state
    /\ inPTT' = FALSE
    /\ pttLen' = 0
    /\ pttFed' = 0
    /\ det' = FreshDetector
    /\ disarmedAt' = det.fed
    /\ heard' = <<>>
    /\ UNCHANGED <<pttTruncated, handleVars, pc, chunk, queue>>

BeginUtterance(t) ==
    /\ Calling(t)
    /\ state # "idle"
    /\ inPTT' = TRUE
    /\ pttLen' = 0
    /\ pttTruncated' = FALSE
    /\ pttFed' = 0
    /\ UNCHANGED <<state, detVars, handleVars, pc, chunk, queue>>

AudioLeft == pttFed + det.fed < MaxAudio /\ Len(records) < MaxRecords

\* Faulty variant: reaching the cap exactly counts as going over it.
FillPTTAtCap(n) ==
    LET space == MaxPTT - pttLen
    IN /\ pttLen' = IF space < n THEN MaxPTT ELSE pttLen + n
       /\ pttTruncated' = (pttTruncated \/ space <= n)

\* A held button: what no longer fits is dropped, and remembered.
FillPTT(n) ==
    LET space == MaxPTT - pttLen
    IN IF space < n
       THEN pttLen' = MaxPTT /\ pttTruncated' = TRUE
       ELSE pttLen' = pttLen + n /\ UNCHANGED pttTruncated

FeedPTT(t) ==
    /\ Calling(t)
    /\ state # "idle" /\ inPTT /\ AudioLeft
    /\ \E n \in 1 .. MaxChunk : FillPTT(n) /\ pttFed' = pttFed + n
    /\ UNCHANGED <<state, inPTT, detVars, handleVars, pc, chunk, queue>>

FeedWake(t) ==
    /\ Calling(t)
    /\ state # "idle" /\ ~ inPTT /\ WakeMode /\ AudioLeft
    /\ \E n \in 1 .. MaxChunk : chunk' = [chunk EXCEPT ![t] = n]
    /\ GoTo(t, "feed")
    /\ UNCHANGED <<state, pttVars, detVars, handleVars, queue>>

\* The detector takes what completes a frame, or what is left of the chunk.
Turn(t) ==
    LET room == FrameLen - (det.fed - det.done)
    IN IF chunk[t] < room THEN chunk[t] ELSE room

FeedTurn(t) ==
    /\ pc[t] = "feed"
    /\ chunk[t] > 0
    /\ \E speech \in BOOLEAN :
          /\ det' = Process(det, Turn(t), speech)
          /\ heard' = IF det'.done = det.done THEN heard
                      ELSE Append(heard, [at |-> det.done, speech |-> speech])
    /\ chunk' = [chunk EXCEPT ![t] = @ - Turn(t)]
    /\ queue' = [queue EXCEPT ![t] =
                   IF Len(det'.out) = Len(det.out) THEN @
                   ELSE Append(@, det'.out[Len(det'.out)].truncated)]
    /\ UNCHANGED <<state, pttVars, disarmedAt, handleVars, pc>>

\* The mutex is released; the utterances are handled one after another.
Handle(t, utterances) ==
    GoTo(t, IF utterances = <<>> THEN "ready" ELSE "transcribe")

FeedEnd(t) ==
    /\ pc[t] = "feed"
    /\ chunk[t] = 0
    /\ Handle(t, queue[t])
    /\ UNCHANGED <<state, pttVars, detVars, handleVars, chunk, queue>>

\* A buffer with no speech in it is not handled.
EndUtterance(t) ==
    /\ Calling(t)
    /\ inPTT
    /\ inPTT' = FALSE
    /\ pttLen' = 0
    /\ pttTruncated' = FALSE
    /\ pttFed' = 0
    /\ \E speech \in [1 .. pttLen \div FrameLen -> BOOLEAN] :
          /\ queue' = [queue EXCEPT ![t] =
                         IF Trim(pttLen, speech) = <<>> THEN <<>> ELSE <<pttTruncated>>]
          /\ Handle(t, queue'[t])
    /\ UNCHANGED <<state, detVars, handleVars, chunk>>

-----------------------------------------------------------------------------
(* Handling an utterance. *)

\* On to the next utterance of the call.
NextUtterance(t) ==
    /\ queue' = [queue EXCEPT ![t] = Tail(@)]
    /\ Handle(t, Tail(queue[t]))

\* An error or an empty text leaves no mark behind.
Transcribe(t) ==
    /\ pc[t] = "transcribe"
    /\ \/ GoTo(t, "mark") /\ UNCHANGED queue
       \/ NextUtterance(t)
    /\ UNCHANGED <<state, pttVars, detVars, handleVars, chunk>>

Marked == {u \in Threads : pc[u] = "take"}

Mark(t) ==
    /\ pc[t] = "mark" /\ ~ Locked
    /\ truncPending' = Head(queue[t])
    /\ crossed' = IF Marked = {} THEN crossed \ {t} ELSE crossed \cup Marked \cup {t}
    /\ GoTo(t, "take")
    /\ UNCHANGED <<state, pttVars, detVars, taken, records, chunk, queue>>

\* HandleTranscript called with a text comes without a mark of its own.
Text(t) ==
    /\ Calling(t)
    /\ Len(records) < MaxRecords
    /\ queue' = [queue EXCEPT ![t] = <<FALSE>>]
    /\ crossed' = IF Marked = {} THEN crossed \ {t} ELSE crossed \cup Marked \cup {t}
    /\ GoTo(t, "take")
    /\ UNCHANGED <<state, pttVars, detVars, truncPending, taken, records, chunk>>

\* Faulty variant: the mark is read and left.
TakeMarkKeeping(t) == taken' = [taken EXCEPT ![t] = truncPending] /\ UNCHANGED truncPending

TakeMark(t) == taken' = [taken EXCEPT ![t] = truncPending] /\ truncPending' = FALSE

\* The state decides what the utterance is: an observation when armed, unless
\* it is a command; under review a command or a re-dictation, whose mark goes
\* nowhere; nothing when idle.
Take(t) ==
    /\ pc[t] = "take" /\ ~ Locked
    /\ TakeMark(t)
    /\ \/ state = "armed" /\ GoTo(t, "record") /\ UNCHANGED queue
       \/ NextUtterance(t)
    /\ UNCHANGED <<state, pttVars, detVars, crossed, records, chunk>>

\* newObservation: inserted, then put under review whatever the state is now;
\* or the store refuses it.
Record(t) ==
    /\ pc[t] = "record" /\ ~ Locked
    /\ \/ /\ records' = Append(records, [truncated |-> Head(queue[t]), flagged |-> taken[t],
                                         sure |-> t \notin crossed])
          /\ state' = "reviewing"
       \/ UNCHANGED <<records, state>>
    /\ NextUtterance(t)
    /\ UNCHANGED <<pttVars, detVars, truncPending, taken, crossed, chunk>>

\* The review ends.
Settle(t) ==
    /\ Calling(t)
    /\ state = "reviewing"
    /\ state' = "armed"
    /\ UNCHANGED <<pttVars, detVars, handleVars, pc, chunk, queue>>

Next ==
    \E t \in Threads :
        \/ Arm(t) \/ Disarm(t) \/ BeginUtterance(t) \/ FeedPTT(t)
        \/ FeedWake(t) \/ FeedTurn(t) \/ FeedEnd(t) \/ EndUtterance(t)
        \/ Transcribe(t) \/ Mark(t) \/ Text(t) \/ Take(t) \/ Record(t) \/ Settle(t)

Spec == Init /\ [][Next]_vars

-----------------------------------------------------------------------------
(* Correctness. *)

\* A held button keeps the head of what was said, up to the cap, and is marked
\* as truncated exactly when something was dropped (FeedPCM).
PTTKeepsHead ==
    inPTT => /\ pttLen = IF pttFed > MaxPTT THEN MaxPTT ELSE pttFed
             /\ pttTruncated = (pttFed > MaxPTT)

\* Utterances are never empty, follow one another without overlap, and what the
\* detector still holds comes after them: no audio is transcribed twice.  None
\* is a frame longer than the cap (processFrame, reset).
UtterancesInOrder ==
    LET out == det.out
    IN /\ \A i \in DOMAIN out : /\ out[i].from < out[i].to
                                /\ out[i].to - out[i].from < MaxLen + FrameLen
                                /\ out[i].to <= det.from
       /\ \A i, j \in DOMAIN out : i < j => out[i].to <= out[j].from

InUtterance(at) ==
    \/ det.inSpeech /\ det.from <= at
    \/ \E i \in DOMAIN det.out : det.out[i].from <= at /\ at + FrameLen <= det.out[i].to

\* The frames i .. i + StartFrames - 1 are speech, and the cap cut nothing inside.
SpeechRun(i) ==
    /\ i + StartFrames - 1 \in DOMAIN heard
    /\ \A j \in i .. i + StartFrames - 1 : heard[j].speech
    /\ \A k \in DOMAIN det.out :
          det.out[k].truncated => det.out[k].to \notin heard[i].at + 1 .. heard[i + StartFrames - 1].at

\* Every frame of a run of speech long enough to count is in an utterance, its
\* soft onset included: neither the pre-roll, nor the reset after an utterance,
\* nor the trimming of its tail loses a spoken frame (processFrame, trimTail).
SpeechIsKept ==
    \A i \in DOMAIN heard :
        SpeechRun(i) => \A j \in i .. i + StartFrames - 1 : InUtterance(heard[j].at)

\* An utterance ends with speech and at most the hang-over of silence (trimTail).
SilenceTrimmed ==
    \A k \in DOMAIN det.out :
        det.out[k].from >= disarmedAt =>
            \E i \in DOMAIN heard : /\ heard[i].speech
                                    /\ heard[i].at < det.out[k].to
                                    /\ det.out[k].to <= heard[i].at + FrameLen + SilKeep

\* Disarm "drops any partial buffer": no utterance joins audio from before it
\* with audio from after it.
DisarmDropsPartial ==
    /\ det.from >= disarmedAt
    /\ \A k \in DOMAIN det.out :
          det.out[k].to <= disarmedAt \/ det.out[k].from >= disarmedAt

\* A record is marked as truncated exactly when its utterance was, unless two
\* threads were between leaving and taking the mark at the same time
\* (handleUtterance, HandleTranscript).
MarkIsRight ==
    \A i \in DOMAIN records : records[i].sure => records[i].flagged = records[i].truncated
=============================================================================
