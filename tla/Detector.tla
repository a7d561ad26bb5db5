-------------------------------- MODULE Detector --------------------------------
(***************************************************************************)
(* The voice-activity detector (vad/vad.go).  Audio is counted in samples: *)
(* a detector is a record of how many samples it has been given (`fed`),   *)
(* how many of them it has analysed in whole frames (`done`; the rest is   *)
(* d.buf), and where the audio it holds on to begins (`from`: d.preRoll    *)
(* while idle, d.utter in an utterance; both always end at `done`).  `out` *)
(* is the utterances it has delivered, as ranges of samples.               *)
(*                                                                         *)
(* Whether a frame is speech (level against the adaptive floor, rate of    *)
(* zero crossings) is an input.                                            *)
(***************************************************************************)
EXTENDS Integers, Sequences, SequencesExt

CONSTANTS
    FrameLen,       \* samples in an analysis frame
    StartFrames,    \* consecutive speech frames that open an utterance
    EndFrames,      \* consecutive silent frames that close one (EndSilenceMS)
    PreMax,         \* samples kept before the onset (PreRollMS)
    SilKeep,        \* samples of silence kept at the end (HangoverMS)
    MaxLen          \* samples an utterance may reach (MaxUtteranceMS)

\* withDefaults, with the values every caller uses: 30 ms frames, 3 to start,
\* 24 to end, a pre-roll of 10 frames, a hang-over of 4, a cap of 1000.
ASSUME DetectorAssumption ==
    /\ FrameLen \in Nat \ {0}
    /\ StartFrames \in Nat \ {0}
    /\ EndFrames \in Nat \ {0}
    /\ PreMax \in Nat
    /\ SilKeep \in Nat
    /\ MaxLen \in Nat
    /\ StartFrames * FrameLen <= PreMax
    /\ PreMax < MaxLen

Utterances == [from : Nat, to : Nat, truncated : BOOLEAN]

Detectors == [fed : Nat, done : Nat, from : Nat, inSpeech : BOOLEAN,
              speechRun : Nat, silRun : Nat, out : Seq(Utterances)]

\* NewDetector, beginning at sample `at` of what the session is given.
NewDetector(at) ==
    [fed |-> at, done |-> at, from |-> at, inSpeech |-> FALSE,
     speechRun |-> 0, silRun |-> 0, out |-> <<>>]

\* Faulty variant: the pre-roll and the runs survive the utterance.
ResetKeepingAudio(d) == [d EXCEPT !.inSpeech = FALSE, !.silRun = 0]

\* reset: nothing analysed so far is held on to.
Reset(d) ==
    [d EXCEPT !.inSpeech = FALSE, !.from = d.done, !.speechRun = 0, !.silRun = 0]

\* Faulty variant: the silence that closed the utterance stays in it.
TrimTailNever(d, to) == to

\* trimTail: silence beyond the hang-over is cut from the end; if that were
\* everything, nothing is.
TrimTail(d, to) ==
    LET cut == d.silRun * FrameLen - SilKeep
    IN IF cut <= 0 \/ cut >= to - d.from THEN to ELSE to - cut

Deliver(d, to, truncated) ==
    [d EXCEPT !.out = Append(@, [from |-> d.from, to |-> TrimTail(d, to), truncated |-> truncated])]

\* Faulty variant: the utterance begins with the frame that opens it.
IdleFrameNoPreRoll(d, speech) ==
    LET run == IF speech THEN d.speechRun + 1 ELSE 0
    IN [d EXCEPT !.from = d.done - FrameLen, !.speechRun = run, !.inSpeech = run >= StartFrames]

\* A frame while no utterance is open: the pre-roll slides, a run of speech
\* opens an utterance that begins with it.
IdleFrame(d, speech) ==
    LET run == IF speech THEN d.speechRun + 1 ELSE 0
        kept == d.done - PreMax
    IN [d EXCEPT !.from = IF kept > @ THEN kept ELSE @,
                 !.speechRun = run,
                 !.inSpeech = run >= StartFrames,
                 !.silRun = 0]

\* A frame of an open utterance: a long silence closes it, the cap cuts it.
SpeechFrame(d, speech) ==
    LET e == [d EXCEPT !.silRun = IF speech THEN 0 ELSE @ + 1]
    IN IF e.silRun >= EndFrames THEN Reset(Deliver(e, e.done, FALSE))
       ELSE IF e.done - e.from >= MaxLen THEN Reset(Deliver(e, e.done, TRUE))
       ELSE e

\* processFrame
ProcessFrame(d, speech) ==
    LET e == [d EXCEPT !.done = @ + FrameLen]
    IN IF d.inSpeech THEN SpeechFrame(e, speech) ELSE IdleFrame(e, speech)

\* One turn of Process: n more samples, at most to the end of the frame.
Process(d, n, speech) ==
    LET e == [d EXCEPT !.fed = @ + n]
    IN IF e.fed - e.done = FrameLen THEN ProcessFrame(e, speech) ELSE e

\* Flush: what is left of the last frame belongs to an open utterance.
Flush(d) ==
    LET e == IF d.inSpeech THEN Deliver(d, d.fed, FALSE) ELSE d
    IN Reset([e EXCEPT !.done = e.fed])

\* Trim of a buffer of len samples whose frames are speech as `heard` says.
Trim(len, heard) ==
    LET frame(d, speech) == Process(d, FrameLen, speech)
        d == FoldLeft(frame, NewDetector(0), heard)
    IN Flush([d EXCEPT !.fed = len]).out
=============================================================================
