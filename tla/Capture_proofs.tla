----------------------------- MODULE Capture_proofs -----------------------------
(***************************************************************************)
(* Proofs about Capture, for every number of threads, every length of the  *)
(* detector's settings and of the cap on a held button, and any audio.     *)
(***************************************************************************)
EXTENDS Capture, TLAPS

LEMMA CaptureConstants ==
    /\ FrameLen \in Nat \ {0} /\ StartFrames \in Nat \ {0} /\ EndFrames \in Nat \ {0}
    /\ PreMax \in Nat \ {0} /\ SilKeep \in Nat /\ MaxLen \in Nat /\ PreMax < MaxLen
    /\ MaxPTT \in Nat \ {0} /\ MaxChunk \in Nat \ {0}
  <1>1. StartFrames * FrameLen >= 1
    BY DetectorAssumption
  <1>2. PreMax # 0
    BY <1>1, DetectorAssumption
  <1> QED BY <1>2, DetectorAssumption, CaptureAssumption

-----------------------------------------------------------------------------
(* The detector. *)

\* The audio a detector holds on to ends where its frames do, is never empty in
\* an utterance, and is within the pre-roll or the cap.
Good(d) ==
    /\ d \in Detectors
    /\ d.done <= d.fed /\ d.fed < d.done + FrameLen
    /\ d.from <= d.done
    /\ ~ d.inSpeech => d.done - d.from <= PreMax
    /\ d.inSpeech => d.from < d.done /\ d.done - d.from < MaxLen

\* A detector given whole frames that has not looked at the last one yet.
Framed(d) ==
    /\ d \in Detectors
    /\ d.fed = d.done + FrameLen
    /\ d.from <= d.done
    /\ ~ d.inSpeech => d.done - d.from <= PreMax
    /\ d.inSpeech => d.from < d.done /\ d.done - d.from < MaxLen

\* What may be delivered when the audio held begins at `from`.
Fits(u, from, next) ==
    /\ u.from = from
    /\ u.from < u.to
    /\ u.to - u.from < MaxLen + FrameLen
    /\ u.to <= next

\* From d to q nothing is given back and at most one utterance delivered.
Grows(d, q) ==
    /\ d.from <= q.from
    /\ \/ q.out = d.out
       \/ \E u \in Utterances : q.out = Append(d.out, u) /\ Fits(u, d.from, q.from)

LEMMA TrimTailWithin ==
    ASSUME NEW d \in Detectors, NEW to \in Nat, d.from < to
    PROVE  /\ TrimTail(d, to) \in Nat
           /\ d.from < TrimTail(d, to)
           /\ TrimTail(d, to) <= to
  <1> DEFINE cut == d.silRun * FrameLen - SilKeep
  <1>1. d.silRun \in Nat /\ d.from \in Nat
    BY DEF Detectors
  <1>2. cut \in Int
    BY <1>1, CaptureConstants
  <1>3. TrimTail(d, to) = IF cut <= 0 \/ cut >= to - d.from THEN to ELSE to - cut
    BY DEF TrimTail
  <1> HIDE DEF cut
  <1> QED BY <1>1, <1>2, <1>3

\* A closed or cut utterance: delivered, and the detector starts over after it.
LEMMA DeliverGood ==
    ASSUME NEW e \in Detectors, e.fed = e.done, e.from < e.done,
           e.done - e.from < MaxLen + FrameLen,
           NEW truncated \in BOOLEAN
    PROVE  LET q == Reset(Deliver(e, e.done, truncated))
           IN /\ Good(q)
              /\ e.from <= q.from
              /\ \E u \in Utterances : q.out = Append(e.out, u) /\ Fits(u, e.from, q.from)
  <1> DEFINE q == Reset(Deliver(e, e.done, truncated))
             u == [from |-> e.from, to |-> TrimTail(e, e.done), truncated |-> truncated]
  <1>1. /\ e.done \in Nat /\ e.fed \in Nat /\ e.from \in Nat
        /\ e.out \in Seq(Utterances)
    BY DEF Detectors
  <1>2. TrimTail(e, e.done) \in Nat /\ e.from < TrimTail(e, e.done) /\ TrimTail(e, e.done) <= e.done
    BY <1>1, TrimTailWithin
  <1>3. u \in Utterances
    BY <1>1, <1>2 DEF Utterances
  <1>4. Append(e.out, u) \in Seq(Utterances)
    BY <1>1, <1>3
  <1>5. /\ q \in Detectors
        /\ q.fed = e.fed /\ q.done = e.done /\ q.from = e.done /\ q.inSpeech = FALSE
        /\ q.out = Append(e.out, u)
    BY <1>1, <1>4 DEF Reset, Deliver, Detectors
  <1>6. Good(q)
    BY <1>1, <1>5, CaptureConstants DEF Good
  <1>7. Fits(u, e.from, q.from)
    BY <1>1, <1>2, <1>5, CaptureConstants DEF Fits
  <1> QED BY <1>1, <1>3, <1>5, <1>6, <1>7

LEMMA IdleTyped ==
    ASSUME NEW e \in Detectors, NEW from \in Nat, NEW run \in Nat, NEW open \in BOOLEAN
    PROVE  [e EXCEPT !.from = from, !.speechRun = run, !.inSpeech = open, !.silRun = 0] \in Detectors
  BY DEF Detectors

LEMMA ProcessFrameGood ==
    ASSUME NEW d, Framed(d), NEW speech \in BOOLEAN
    PROVE  Good(ProcessFrame(d, speech)) /\ Grows(d, ProcessFrame(d, speech))
  <1> DEFINE e == [d EXCEPT !.done = @ + FrameLen]
             q == ProcessFrame(d, speech)
  <1> SUFFICES Good(q) /\ Grows(d, q)
    OBVIOUS
  <1>1. /\ d.done \in Nat /\ d.fed \in Nat /\ d.from \in Nat /\ d.speechRun \in Nat
        /\ d.silRun \in Nat /\ d.inSpeech \in BOOLEAN
    BY DEF Framed, Detectors
  <1>2. /\ e \in Detectors
        /\ e.done = d.done + FrameLen /\ e.fed = e.done /\ e.from = d.from /\ e.out = d.out
        /\ e.speechRun = d.speechRun /\ e.silRun = d.silRun /\ e.inSpeech = d.inSpeech
    BY <1>1, CaptureConstants DEF Framed, Detectors
  <1>3. CASE ~ d.inSpeech
    <2> DEFINE run == IF speech THEN e.speechRun + 1 ELSE 0
               kept == e.done - PreMax
               from == IF kept > e.from THEN kept ELSE e.from
               open == run >= StartFrames
    <2>1. q = [e EXCEPT !.from = from, !.speechRun = run, !.inSpeech = open, !.silRun = 0]
      BY <1>3 DEF ProcessFrame, IdleFrame
    <2>2. run \in Nat /\ from \in Nat /\ d.from <= from /\ from < e.done /\ e.done - from <= PreMax
      BY <1>1, <1>2, <1>3, CaptureConstants DEF Framed
    <2>o. open \in BOOLEAN
      OBVIOUS
    <2> HIDE DEF run, from, open, e
    <2>3. q.fed = e.fed /\ q.done = e.done /\ q.from = from /\ q.out = e.out
      BY <1>2, <2>1 DEF Detectors
    <2>c. q \in Detectors
      <3>1. [e EXCEPT !.from = from, !.speechRun = run, !.inSpeech = open, !.silRun = 0]
            \in Detectors
        BY <1>2, <2>2, <2>o, IdleTyped
      <3> QED BY <2>1, <3>1, Zenon
    <2>4. Good(q)
      BY <1>1, <1>2, <2>2, <2>3, <2>c, CaptureConstants DEF Good
    <2> QED BY <1>2, <2>2, <2>3, <2>4 DEF Grows
  <1>4. CASE d.inSpeech
    <2> DEFINE run == IF speech THEN 0 ELSE e.silRun + 1
               f == [e EXCEPT !.silRun = run]
    <2>r. run \in Nat
      BY <1>1, <1>2
    <2>2. q = IF f.silRun >= EndFrames THEN Reset(Deliver(f, f.done, FALSE))
              ELSE IF f.done - f.from >= MaxLen THEN Reset(Deliver(f, f.done, TRUE))
              ELSE f
      BY <1>4 DEF ProcessFrame, SpeechFrame
    <2> HIDE DEF run, e
    <2>1. /\ f \in Detectors
          /\ f.done = e.done /\ f.fed = f.done /\ f.from = d.from /\ f.out = d.out
          /\ f.inSpeech = d.inSpeech /\ f.silRun \in Nat
      BY <1>1, <1>2, <2>r DEF Detectors
    <2>3. f.from < f.done /\ f.done - f.from < MaxLen + FrameLen
      BY <1>1, <1>2, <1>4, <2>1, CaptureConstants DEF Framed
    <2> HIDE DEF f
    <2>4. ASSUME NEW truncated \in BOOLEAN, q = Reset(Deliver(f, f.done, truncated))
          PROVE  Good(q) /\ Grows(d, q)
      BY <2>1, <2>3, <2>4, DeliverGood DEF Grows
    <2>5. ASSUME q = f, ~ (f.done - f.from >= MaxLen)
          PROVE  Good(q) /\ Grows(d, q)
      <3>1. Good(f)
        BY <1>1, <1>4, <2>1, <2>3, <2>5, <1>2, CaptureConstants DEF Good
      <3> QED BY <1>1, <2>1, <2>5, <3>1 DEF Grows
    <2> HIDE DEF q
    <2> QED BY <2>2, <2>4, <2>5, Zenon
  <1> HIDE DEF e, q
  <1> QED BY <1>3, <1>4, Zenon

LEMMA ProcessGood ==
    ASSUME NEW d, Good(d), NEW n \in 1 .. FrameLen - (d.fed - d.done), NEW speech \in BOOLEAN
    PROVE  Good(Process(d, n, speech)) /\ Grows(d, Process(d, n, speech))
  <1> DEFINE e == [d EXCEPT !.fed = @ + n]
             q == Process(d, n, speech)
  <1>1. d.done \in Nat /\ d.fed \in Nat /\ d.from \in Nat /\ n \in Nat
    BY DEF Good, Detectors
  <1>2. /\ e \in Detectors
        /\ e.fed = d.fed + n /\ e.done = d.done /\ e.from = d.from /\ e.inSpeech = d.inSpeech
        /\ e.out = d.out
    BY <1>1 DEF Good, Detectors
  <1>3. q = IF e.fed - e.done = FrameLen THEN ProcessFrame(e, speech) ELSE e
    BY DEF Process
  <1>4. e.fed - e.done <= FrameLen /\ e.done <= e.fed
    BY <1>1, <1>2, CaptureConstants DEF Good
  <1> HIDE DEF e
  <1>5. CASE e.fed - e.done = FrameLen
    <2>1. Framed(e)
      BY <1>1, <1>2, <1>5, CaptureConstants DEF Good, Framed
    <2> QED BY <1>2, <1>3, <1>5, <2>1, ProcessFrameGood DEF Grows
  <1>6. CASE e.fed - e.done # FrameLen
    <2>1. Good(e)
      BY <1>1, <1>2, <1>4, <1>6, CaptureConstants DEF Good
    <2> QED BY <1>1, <1>2, <1>3, <1>6, <2>1 DEF Grows
  <1> QED BY <1>5, <1>6

-----------------------------------------------------------------------------
(* The held button. *)

PTTTypeOK ==
    /\ inPTT \in BOOLEAN
    /\ pttLen \in 0 .. MaxPTT
    /\ pttTruncated \in BOOLEAN
    /\ pttFed \in Nat

\* The cap as arithmetic: exceeded by what was fed exactly when marked.
Capped ==
    inPTT => /\ pttFed > MaxPTT => pttLen = MaxPTT /\ pttTruncated = TRUE
             /\ pttFed <= MaxPTT => pttLen = pttFed /\ pttTruncated = FALSE

LEMMA CappedIsHead ==
    ASSUME PTTTypeOK
    PROVE  Capped <=> PTTKeepsHead
  <1>1. pttFed <= MaxPTT <=> ~ (pttFed > MaxPTT)
    BY CaptureConstants DEF PTTTypeOK
  <1>2. CASE pttFed > MaxPTT
    BY <1>1, <1>2, Zenon DEF PTTTypeOK, Capped, PTTKeepsHead
  <1>3. CASE ~ (pttFed > MaxPTT)
    <2>1. (pttFed > MaxPTT) = FALSE
      BY <1>3
    <2> QED BY <1>1, <1>3, <2>1, Zenon DEF PTTTypeOK, Capped, PTTKeepsHead
  <1> QED BY <1>2, <1>3

PTTInv == PTTTypeOK /\ Capped

LEMMA PTTStep == PTTInv /\ [Next]_vars => PTTInv'
  <1> SUFFICES ASSUME PTTInv, [Next]_vars
               PROVE  PTTInv'
    OBVIOUS
  <1> USE CaptureConstants DEF PTTInv, PTTTypeOK, Capped
  <1>0. 0 \in Nat /\ 0 \in 0 .. MaxPTT /\ ~ (0 > MaxPTT)
    OBVIOUS
  <1>1. CASE UNCHANGED pttVars
    BY <1>1 DEF pttVars
  <1>2. ASSUME NEW t \in Threads, Disarm(t)
        PROVE  PTTInv'
    <2>1. inPTT' = FALSE /\ pttLen' = 0 /\ pttFed' = 0 /\ pttTruncated' = pttTruncated
      BY <1>2 DEF Disarm
    <2> QED BY <2>1, <1>0, Zenon
  <1>3. ASSUME NEW t \in Threads, BeginUtterance(t)
        PROVE  PTTInv'
    <2>1. inPTT' = TRUE /\ pttLen' = 0 /\ pttFed' = 0 /\ pttTruncated' = FALSE
      BY <1>3 DEF BeginUtterance
    <2> QED BY <2>1, <1>0, Zenon
  <1>4. ASSUME NEW t \in Threads, FeedPTT(t)
        PROVE  PTTInv'
    <2>1. PICK n \in 1 .. MaxChunk : FillPTT(n) /\ pttFed' = pttFed + n
      BY <1>4 DEF FeedPTT
    <2>2. inPTT /\ inPTT' = inPTT
      BY <1>4 DEF FeedPTT
    <2>3. CASE MaxPTT - pttLen < n
      BY <2>1, <2>2, <2>3 DEF FillPTT
    <2>4. CASE ~ (MaxPTT - pttLen < n)
      BY <2>1, <2>2, <2>4 DEF FillPTT
    <2> QED BY <2>3, <2>4
  <1>5. ASSUME NEW t \in Threads, EndUtterance(t)
        PROVE  PTTInv'
    <2>1. inPTT' = FALSE /\ pttLen' = 0 /\ pttFed' = 0 /\ pttTruncated' = FALSE
      BY <1>5 DEF EndUtterance
    <2> QED BY <2>1, <1>0, Zenon
  <1>6. UNCHANGED vars => UNCHANGED pttVars
    BY DEF vars
  <1>7. ASSUME NEW t \in Threads,
               \/ Arm(t) \/ FeedWake(t) \/ FeedTurn(t) \/ FeedEnd(t)
               \/ Transcribe(t) \/ Mark(t) \/ Text(t) \/ Take(t) \/ Record(t) \/ Settle(t)
        PROVE  UNCHANGED pttVars
    BY <1>7 DEF Arm, FeedWake, FeedTurn, FeedEnd, Transcribe, Mark, Text, Take, Record, Settle
  <1> QED BY <1>1, <1>2, <1>3, <1>4, <1>5, <1>6, <1>7 DEF Next

-----------------------------------------------------------------------------
(* The microphone: the detector and its threads' chunks. *)

DetTypeOK ==
    /\ heard \in Seq([at : Nat, speech : BOOLEAN])
    /\ disarmedAt \in Nat

FeedTypeOK ==
    /\ pc \in [Threads -> Steps]
    /\ chunk \in [Threads -> 0 .. MaxChunk]

DetInv ==
    /\ DetTypeOK
    /\ FeedTypeOK
    /\ Good(det)
    /\ UtterancesInOrder
    /\ DisarmDropsPartial

LEMMA UtteranceTyped ==
    ASSUME NEW s \in Seq(Utterances), NEW i \in DOMAIN s
    PROVE  s[i].from \in Nat /\ s[i].to \in Nat
  <1>1. s[i] \in Utterances
    OBVIOUS
  <1> QED BY <1>1 DEF Utterances

LEMMA TurnWithin ==
    ASSUME Good(det), NEW t \in Threads, chunk[t] \in 0 .. MaxChunk, chunk[t] > 0
    PROVE  /\ Turn(t) \in 1 .. FrameLen - (det.fed - det.done)
           /\ chunk[t] - Turn(t) \in 0 .. MaxChunk
  <1>1. det.fed \in Nat /\ det.done \in Nat /\ det.done <= det.fed /\ det.fed < det.done + FrameLen
    BY DEF Good, Detectors
  <1> QED BY <1>1, CaptureConstants DEF Turn

LEMMA FreshGood ==
    ASSUME Good(det)
    PROVE  /\ Good(FreshDetector)
           /\ FreshDetector.out = det.out
           /\ FreshDetector.from = det.fed
           /\ det.fed \in Nat /\ det.from <= det.fed
  <1>1. /\ det.fed \in Nat /\ det.done \in Nat /\ det.from \in Nat /\ det.out \in Seq(Utterances)
        /\ det.from <= det.done /\ det.done <= det.fed
    BY DEF Good, Detectors
  <1> DEFINE n == NewDetector(det.fed)
             q == [n EXCEPT !.out = det.out]
  <1>2. /\ n \in Detectors
        /\ n.fed = det.fed /\ n.done = det.fed /\ n.from = det.fed /\ n.inSpeech = FALSE
    BY <1>1 DEF NewDetector, Detectors
  <1> HIDE DEF n
  <1>3. /\ q \in Detectors
        /\ q.fed = n.fed /\ q.done = n.done /\ q.from = n.from /\ q.inSpeech = n.inSpeech
        /\ q.out = det.out
    BY <1>1, <1>2 DEF Detectors
  <1>4. FreshDetector = q
    BY DEF FreshDetector, n
  <1>5. Good(q)
    BY <1>1, <1>2, <1>3, CaptureConstants DEF Good
  <1> QED BY <1>1, <1>2, <1>3, <1>4, <1>5

\* Delivering at most one utterance, of the audio held.
LEMMA GrowsKeepsOrder ==
    ASSUME Good(det), UtterancesInOrder, DisarmDropsPartial, disarmedAt \in Nat,
           Good(det'), Grows(det, det'), disarmedAt' = disarmedAt
    PROVE  UtterancesInOrder' /\ DisarmDropsPartial'
  <1>1. /\ det.out \in Seq(Utterances) /\ det'.out \in Seq(Utterances)
        /\ det.from \in Nat /\ det'.from \in Nat /\ det.from <= det'.from
    BY DEF Good, Detectors, Grows
  <1>2. \A i \in DOMAIN det.out : det.out[i].from \in Nat /\ det.out[i].to \in Nat
    BY <1>1, UtteranceTyped
  <1>3. CASE det'.out = det.out
    BY <1>1, <1>2, <1>3, CaptureConstants DEF UtterancesInOrder, DisarmDropsPartial
  <1>4. CASE \E u \in Utterances : det'.out = Append(det.out, u) /\ Fits(u, det.from, det'.from)
    <2>1. PICK u \in Utterances : det'.out = Append(det.out, u) /\ Fits(u, det.from, det'.from)
      BY <1>4
    <2>2. u.from \in Nat /\ u.to \in Nat
      BY DEF Utterances
    <2>3. \A i \in DOMAIN det'.out : \/ i \in DOMAIN det.out /\ det'.out[i] = det.out[i]
                                     \/ i = Len(det.out) + 1 /\ det'.out[i] = u
      BY <1>1, <2>1
    <2>4. \A i \in DOMAIN det.out : i \in Nat /\ i <= Len(det.out)
      BY <1>1
    <2>5. Len(det.out) \in Nat
      BY <1>1
    <2>6. \A i \in DOMAIN det'.out :
             /\ det'.out[i].from < det'.out[i].to
             /\ det'.out[i].to - det'.out[i].from < MaxLen + FrameLen
             /\ det'.out[i].to <= det'.from
      BY <1>1, <1>2, <2>1, <2>2, <2>3 DEF UtterancesInOrder, Fits
    <2>7. \A i, j \in DOMAIN det'.out : i < j => det'.out[i].to <= det'.out[j].from
      BY <1>1, <1>2, <2>1, <2>2, <2>3, <2>4, <2>5 DEF UtterancesInOrder, Fits
    <2>8. DisarmDropsPartial'
      BY <1>1, <1>2, <2>1, <2>2, <2>3 DEF DisarmDropsPartial, Fits
    <2> QED BY <2>6, <2>7, <2>8 DEF UtterancesInOrder
  <1> QED BY <1>3, <1>4 DEF Grows

LEMMA FeedTurnKeeps ==
    ASSUME DetInv, NEW t \in Threads, FeedTurn(t)
    PROVE  DetInv' /\ Grows(det, det')
  <1>1. chunk[t] \in 0 .. MaxChunk /\ chunk[t] > 0 /\ Good(det)
    BY DEF DetInv, FeedTypeOK, FeedTurn
  <1>2. PICK speech \in BOOLEAN :
           /\ det' = Process(det, Turn(t), speech)
           /\ heard' = IF det'.done = det.done THEN heard
                       ELSE Append(heard, [at |-> det.done, speech |-> speech])
    BY DEF FeedTurn
  <1>3. Good(det') /\ Grows(det, det')
    BY <1>1, <1>2, TurnWithin, ProcessGood
  <1>4. UtterancesInOrder' /\ DisarmDropsPartial'
    BY <1>3, GrowsKeepsOrder DEF DetInv, DetTypeOK, FeedTurn
  <1>5. det.done \in Nat
    BY <1>1 DEF Good, Detectors
  <1>6. [at |-> det.done, speech |-> speech] \in [at : Nat, speech : BOOLEAN]
    BY <1>5
  <1>7. DetTypeOK'
    <2>1. Append(heard, [at |-> det.done, speech |-> speech]) \in Seq([at : Nat, speech : BOOLEAN])
      BY <1>6 DEF DetInv, DetTypeOK
    <2>2. disarmedAt' = disarmedAt
      BY DEF FeedTurn
    <2> QED BY <1>2, <2>1, <2>2 DEF DetInv, DetTypeOK
  <1>8. FeedTypeOK'
    BY <1>1, TurnWithin DEF DetInv, FeedTypeOK, FeedTurn
  <1> QED BY <1>3, <1>4, <1>7, <1>8 DEF DetInv

LEMMA DetStep == DetInv /\ [Next]_vars => DetInv'
  <1> SUFFICES ASSUME DetInv, [Next]_vars
               PROVE  DetInv'
    OBVIOUS
  <1>1. ASSUME UNCHANGED detVars, FeedTypeOK'
        PROVE  DetInv'
    BY <1>1 DEF DetInv, DetTypeOK, UtterancesInOrder, DisarmDropsPartial, detVars
  <1>2. ASSUME UNCHANGED vars
        PROVE  UNCHANGED detVars /\ FeedTypeOK'
    BY <1>2 DEF vars, DetInv, FeedTypeOK
  <1>3. ASSUME NEW t \in Threads, Disarm(t)
        PROVE  DetInv'
    <2>1. det' = FreshDetector /\ disarmedAt' = det.fed /\ heard' = <<>> /\ FeedTypeOK'
      BY <1>3 DEF Disarm, DetInv, FeedTypeOK
    <2>2. Good(det) /\ UtterancesInOrder
      BY DEF DetInv
    <2>3. /\ Good(det') /\ det'.out = det.out /\ det'.from = det.fed
          /\ det.fed \in Nat /\ det.from <= det.fed
      BY <2>1, <2>2, FreshGood
    <2>4. det.out \in Seq(Utterances) /\ det.from \in Nat
      BY <2>2 DEF Good, Detectors
    <2>5. \A i \in DOMAIN det.out : det.out[i].to \in Nat
      BY <2>4, UtteranceTyped
    <2>6. UtterancesInOrder' /\ DisarmDropsPartial'
      BY <2>1, <2>2, <2>3, <2>4, <2>5 DEF UtterancesInOrder, DisarmDropsPartial
    <2> QED BY <2>1, <2>3, <2>6 DEF DetInv, DetTypeOK
  <1>4. ASSUME NEW t \in Threads, FeedWake(t)
        PROVE  UNCHANGED detVars /\ FeedTypeOK'
    BY <1>4, CaptureConstants DEF FeedWake, DetInv, FeedTypeOK, GoTo, Steps
  <1>5. ASSUME NEW t \in Threads,
               \/ Arm(t) \/ BeginUtterance(t) \/ FeedPTT(t) \/ FeedEnd(t) \/ EndUtterance(t)
               \/ Transcribe(t) \/ Mark(t) \/ Text(t) \/ Take(t) \/ Record(t) \/ Settle(t)
        PROVE  UNCHANGED detVars /\ FeedTypeOK'
    BY <1>5 DEF Arm, BeginUtterance, FeedPTT, FeedEnd, EndUtterance, Transcribe, Mark, Text, Take,
                Record, Settle, Handle, NextUtterance, GoTo, Steps, DetInv, FeedTypeOK
  <1> QED BY <1>1, <1>2, <1>3, <1>4, <1>5, FeedTurnKeeps DEF Next

-----------------------------------------------------------------------------
(* The marks. *)

RecordType == [truncated : BOOLEAN, flagged : BOOLEAN, sure : BOOLEAN]

HandleTypeOK ==
    /\ truncPending \in BOOLEAN
    /\ queue \in [Threads -> Seq(BOOLEAN)]
    /\ taken \in [Threads -> BOOLEAN]
    /\ crossed \subseteq Threads
    /\ records \in Seq(RecordType)

\* A thread that handles an utterance has one.
QueueFits ==
    \A t \in Threads : pc[t] \in {"transcribe", "mark", "take", "record"} => queue[t] # <<>>

\* A mark left is for a thread about to take one; one that no other thread met
\* finds its own.
MarkFits ==
    /\ truncPending = TRUE => \E t \in Threads : pc[t] = "take"
    /\ \A t \in Threads \ crossed :
          /\ pc[t] = "take" =>
                /\ truncPending = Head(queue[t])
                /\ \A u \in Threads \ {t} : pc[u] # "take"
          /\ pc[t] = "record" => taken[t] = Head(queue[t])

HandleInv ==
    /\ HandleTypeOK
    /\ QueueFits
    /\ MarkFits
    /\ MarkIsRight

\* Steps that touch neither marks nor what a busy thread has to handle.
LEMMA ElsewhereKeeps ==
    ASSUME HandleInv, FeedTypeOK, NEW t \in Threads,
           UNCHANGED handleVars,
           queue' \in [Threads -> Seq(BOOLEAN)],
           \A u \in Threads \ {t} : queue'[u] = queue[u],
           NEW step \in Steps \ {"take", "record"}, GoTo(t, step),
           step \in {"transcribe", "mark"} => queue'[t] # <<>>,
           pc[t] # "take"
    PROVE  HandleInv'
  <1> USE DEF HandleInv
  <1>1. HandleTypeOK'
    BY DEF HandleTypeOK, handleVars
  <1>2. \A u \in Threads \ {t} : pc'[u] = pc[u] /\ queue'[u] = queue[u]
    BY DEF GoTo, FeedTypeOK
  <1>3. pc'[t] = step
    BY DEF GoTo, FeedTypeOK
  <1>4. QueueFits'
    BY <1>2, <1>3 DEF QueueFits
  <1>5. MarkFits'
    BY <1>2, <1>3 DEF MarkFits, handleVars
  <1>6. MarkIsRight'
    BY DEF MarkIsRight, handleVars
  <1> QED BY <1>1, <1>4, <1>5, <1>6

\* Going on to the next utterance of a call.
LEMMA NextTyped ==
    ASSUME HandleInv, FeedTypeOK, NEW t \in Threads, NextUtterance(t), queue[t] # <<>>
    PROVE  \E step \in {"ready", "transcribe"} :
              /\ queue' \in [Threads -> Seq(BOOLEAN)]
              /\ \A u \in Threads \ {t} : queue'[u] = queue[u]
              /\ GoTo(t, step)
              /\ step = "transcribe" => queue'[t] # <<>>
  <1>1. queue[t] \in Seq(BOOLEAN) /\ queue \in [Threads -> Seq(BOOLEAN)]
    BY DEF HandleInv, HandleTypeOK
  <1>2. Tail(queue[t]) \in Seq(BOOLEAN)
    BY <1>1
  <1>3. queue' = [queue EXCEPT ![t] = Tail(queue[t])]
    BY DEF NextUtterance
  <1>4. queue'[t] = Tail(queue[t])
    BY <1>1, <1>3
  <1>5. \A u \in Threads \ {t} : queue'[u] = queue[u]
    BY <1>1, <1>3
  <1>6. queue' \in [Threads -> Seq(BOOLEAN)]
    BY <1>1, <1>2, <1>3
  <1>7. CASE Tail(queue[t]) = <<>>
    BY <1>5, <1>6, <1>7 DEF NextUtterance, Handle
  <1>8. CASE Tail(queue[t]) # <<>>
    BY <1>4, <1>5, <1>6, <1>8 DEF NextUtterance, Handle
  <1> QED BY <1>7, <1>8

LEMMA HeadOfOne == \A b \in BOOLEAN : Head(<<b>>) = b
  OBVIOUS

LEMMA MarkKeeps ==
    ASSUME HandleInv, FeedTypeOK, NEW t \in Threads, Mark(t) \/ Text(t)
    PROVE  HandleInv'
  <1> USE DEF HandleInv
  <1>1. /\ pc' = [pc EXCEPT ![t] = "take"]
        /\ crossed' = IF Marked = {} THEN crossed \ {t} ELSE crossed \cup Marked \cup {t}
        /\ UNCHANGED <<taken, records>>
    BY DEF Mark, Text, GoTo
  <1>2. (queue' \in [Threads -> Seq(BOOLEAN)]) /\ queue'[t] # <<>>
        /\ \A u \in Threads \ {t} : queue'[u] = queue[u]
    <2>1. CASE Mark(t)
      BY <2>1 DEF Mark, HandleTypeOK, QueueFits
    <2>2. CASE Text(t)
      <3>1. queue' = [queue EXCEPT ![t] = <<FALSE>>] /\ <<FALSE>> \in Seq(BOOLEAN)
            /\ <<FALSE>> # <<>>
        BY <2>2 DEF Text
      <3> QED BY <3>1 DEF HandleTypeOK
    <2> QED BY <2>1, <2>2
  <1>3. /\ truncPending' \in BOOLEAN
        /\ Marked = {} => truncPending' = Head(queue'[t])
    <2>1. CASE Mark(t)
      <3>1. queue[t] \in Seq(BOOLEAN) /\ queue[t] # <<>>
        BY <2>1 DEF Mark, HandleTypeOK, QueueFits
      <3>2. Head(queue[t]) \in BOOLEAN
        BY <3>1
      <3> QED BY <2>1, <3>2 DEF Mark
    <2>2. CASE Text(t)
      <3>1. queue'[t] = <<FALSE>> /\ truncPending' = truncPending /\ Head(<<FALSE>>) = FALSE
        <4>1. queue' = [queue EXCEPT ![t] = <<FALSE>>] /\ truncPending' = truncPending
          BY <2>2 DEF Text
        <4>2. queue \in [Threads -> Seq(BOOLEAN)]
          BY DEF HandleTypeOK
        <4>3. queue'[t] = <<FALSE>>
          BY <4>1, <4>2
        <4>4. Head(<<FALSE>>) = FALSE
          BY HeadOfOne
        <4> QED BY <4>1, <4>3, <4>4
      <3>2. truncPending \in BOOLEAN /\ (truncPending = TRUE => Marked # {})
        BY DEF HandleTypeOK, MarkFits, Marked
      <3>3. Marked = {} => truncPending = FALSE
        BY <3>2, Zenon
      <3>4. Head(queue'[t]) = FALSE
        BY <3>1
      <3> QED BY <3>1, <3>2, <3>3, <3>4, Zenon
    <2> QED BY <2>1, <2>2
  <1>4. HandleTypeOK'
    BY <1>1, <1>2, <1>3 DEF HandleTypeOK, Marked
  <1>5. pc'[t] = "take" /\ \A u \in Threads \ {t} : pc'[u] = pc[u]
    BY <1>1 DEF FeedTypeOK
  <1>6. QueueFits'
    BY <1>2, <1>5 DEF QueueFits
  <1>7. MarkFits'
    <2>1. \E u \in Threads : pc'[u] = "take"
      BY <1>5
    <2>2. ASSUME NEW u \in Threads \ crossed', pc'[u] = "take"
          PROVE  truncPending' = Head(queue'[u]) /\ \A v \in Threads \ {u} : pc'[v] # "take"
      <3>1. Marked = {} /\ u = t
        BY <1>1, <1>5, <2>2 DEF Marked
      <3> QED BY <1>3, <1>5, <3>1 DEF Marked
    <2>3. ASSUME NEW u \in Threads \ crossed', pc'[u] = "record"
          PROVE  taken'[u] = Head(queue'[u])
      <3>1. u # t /\ u \notin crossed
        BY <1>1, <1>5, <2>3
      <3> QED BY <1>1, <1>2, <1>5, <2>3, <3>1 DEF MarkFits
    <2> QED BY <2>1, <2>2, <2>3 DEF MarkFits
  <1>8. MarkIsRight'
    BY <1>1 DEF MarkIsRight
  <1> QED BY <1>4, <1>6, <1>7, <1>8

LEMMA TakeKeeps ==
    ASSUME HandleInv, FeedTypeOK, NEW t \in Threads, Take(t)
    PROVE  HandleInv'
  <1> USE DEF HandleInv
  <1>1. /\ pc[t] = "take" /\ queue[t] # <<>>
        /\ taken' = [taken EXCEPT ![t] = truncPending]
        /\ truncPending' = FALSE
        /\ UNCHANGED <<crossed, records>>
    BY DEF Take, TakeMark, QueueFits
  <1>2. PICK step \in {"ready", "transcribe", "record"} :
           /\ queue' \in [Threads -> Seq(BOOLEAN)]
           /\ \A u \in Threads \ {t} : queue'[u] = queue[u]
           /\ GoTo(t, step)
           /\ step = "transcribe" => queue'[t] # <<>>
           /\ step = "record" => queue' = queue
    <2>1. CASE GoTo(t, "record") /\ UNCHANGED queue
      BY <2>1 DEF HandleTypeOK
    <2>2. CASE NextUtterance(t)
      BY <1>1, <2>2, NextTyped
    <2> QED BY <2>1, <2>2 DEF Take
  <1>3. pc'[t] = step /\ \A u \in Threads \ {t} : pc'[u] = pc[u]
    BY <1>2 DEF GoTo, FeedTypeOK
  <1>4. taken'[t] = truncPending /\ \A u \in Threads \ {t} : taken'[u] = taken[u]
    BY <1>1 DEF HandleTypeOK
  <1>5. HandleTypeOK'
    BY <1>1, <1>2 DEF HandleTypeOK
  <1>6. QueueFits'
    BY <1>1, <1>2, <1>3 DEF QueueFits
  <1>7. MarkFits'
    <2>1. ~ (truncPending' = TRUE)
      BY <1>1
    <2>2. ASSUME NEW u \in Threads \ crossed'
          PROVE  pc'[u] # "take"
      BY <1>1, <1>2, <1>3 DEF MarkFits
    <2>3. ASSUME NEW u \in Threads \ crossed', pc'[u] = "record"
          PROVE  taken'[u] = Head(queue'[u])
      <3>1. CASE u = t
        BY <1>1, <1>2, <1>3, <1>4, <2>3, <3>1 DEF MarkFits
      <3>2. CASE u # t
        BY <1>1, <1>2, <1>3, <1>4, <2>3, <3>2 DEF MarkFits
      <3> QED BY <3>1, <3>2
    <2> QED BY <2>1, <2>2, <2>3 DEF MarkFits
  <1>8. MarkIsRight'
    BY <1>1 DEF MarkIsRight
  <1> QED BY <1>5, <1>6, <1>7, <1>8

LEMMA RecordKeeps ==
    ASSUME HandleInv, FeedTypeOK, NEW t \in Threads, Record(t)
    PROVE  HandleInv'
  <1> USE DEF HandleInv
  <1> DEFINE new == [truncated |-> Head(queue[t]), flagged |-> taken[t], sure |-> t \notin crossed]
  <1>1. pc[t] = "record" /\ queue[t] # <<>> /\ queue[t] \in Seq(BOOLEAN)
    BY DEF Record, QueueFits, HandleTypeOK
  <1>2. records' = records \/ records' = Append(records, new)
    BY DEF Record
  <1>3. UNCHANGED <<truncPending, taken, crossed>>
    BY DEF Record
  <1>4. Head(queue[t]) \in BOOLEAN /\ taken[t] \in BOOLEAN /\ (t \notin crossed) \in BOOLEAN
    BY <1>1 DEF HandleTypeOK
  <1>5. new \in RecordType
    BY <1>4, Zenon DEF RecordType
  <1>6. new.sure => new.flagged = new.truncated
    <2>1. t \notin crossed => taken[t] = Head(queue[t])
      BY <1>1 DEF MarkFits
    <2>2. new.sure = (t \notin crossed) /\ new.flagged = taken[t] /\ new.truncated = Head(queue[t])
      OBVIOUS
    <2> HIDE DEF new
    <2> QED BY <2>1, <2>2, Zenon
  <1> HIDE DEF new
  <1>7. records' \in Seq(RecordType)
    <2>1. records \in Seq(RecordType)
      BY DEF HandleTypeOK
    <2>2. Append(records, new) \in Seq(RecordType)
      BY <1>5, <2>1
    <2> QED BY <1>2, <2>1, <2>2
  <1>8. MarkIsRight'
    <2>1. CASE records' = records
      BY <2>1 DEF MarkIsRight
    <2>2. CASE records' = Append(records, new)
      <3>1. \A i \in DOMAIN records' : \/ i \in DOMAIN records /\ records'[i] = records[i]
                                       \/ records'[i] = new
        BY <2>2, <1>5 DEF HandleTypeOK
      <3> QED BY <1>6, <3>1, Zenon DEF MarkIsRight
    <2> QED BY <1>2, <2>1, <2>2
  <1>9. PICK step \in {"ready", "transcribe"} :
           /\ queue' \in [Threads -> Seq(BOOLEAN)]
           /\ \A u \in Threads \ {t} : queue'[u] = queue[u]
           /\ GoTo(t, step)
           /\ step = "transcribe" => queue'[t] # <<>>
    BY <1>1, NextTyped DEF Record
  <1>10. pc'[t] = step /\ \A u \in Threads \ {t} : pc'[u] = pc[u]
    BY <1>9 DEF GoTo, FeedTypeOK
  <1>11. HandleTypeOK'
    BY <1>3, <1>7, <1>9 DEF HandleTypeOK
  <1>12. QueueFits'
    BY <1>9, <1>10 DEF QueueFits
  <1>13. MarkFits'
    BY <1>1, <1>3, <1>9, <1>10 DEF MarkFits
  <1> QED BY <1>8, <1>11, <1>12, <1>13

LEMMA HandleStep == PTTTypeOK /\ DetInv /\ HandleInv /\ [Next]_vars => HandleInv'
  <1> SUFFICES ASSUME PTTTypeOK, DetInv, HandleInv, [Next]_vars
               PROVE  HandleInv'
    OBVIOUS
  <1>0. FeedTypeOK /\ queue \in [Threads -> Seq(BOOLEAN)]
    BY DEF DetInv, HandleInv, HandleTypeOK
  <1>1. CASE UNCHANGED <<pc, queue, truncPending, taken, crossed, records>>
    BY <1>1 DEF HandleInv, HandleTypeOK, QueueFits, MarkFits, MarkIsRight
  <1>2. ASSUME NEW t \in Threads,
               \/ Arm(t) \/ Disarm(t) \/ BeginUtterance(t) \/ FeedPTT(t) \/ Settle(t)
        PROVE  UNCHANGED <<pc, queue, truncPending, taken, crossed, records>>
    BY <1>2 DEF Arm, Disarm, BeginUtterance, FeedPTT, Settle, handleVars
  <1>3. ASSUME NEW t \in Threads, FeedWake(t)
        PROVE  HandleInv'
    BY <1>0, <1>3, ElsewhereKeeps DEF FeedWake, Calling, Steps
  <1>4. ASSUME NEW t \in Threads, FeedTurn(t)
        PROVE  HandleInv'
    <2>1. Good(det') /\ Grows(det, det') /\ Good(det)
      BY <1>4, FeedTurnKeeps DEF DetInv
    <2>2. det.out \in Seq(Utterances) /\ det'.out \in Seq(Utterances)
      BY <2>1 DEF Good, Detectors
    <2>3. /\ UNCHANGED handleVars /\ pc' = pc /\ pc[t] = "feed"
          /\ queue' = [queue EXCEPT ![t] =
                         IF Len(det'.out) = Len(det.out) THEN queue[t]
                         ELSE Append(queue[t], det'.out[Len(det'.out)].truncated)]
      BY <1>4 DEF FeedTurn
    <2>4. CASE Len(det'.out) = Len(det.out)
      BY <1>0, <1>1, <2>3, <2>4 DEF handleVars
    <2>5. CASE Len(det'.out) # Len(det.out)
      <3>1. PICK u \in Utterances : det'.out = Append(det.out, u)
        BY <2>1, <2>5 DEF Grows
      <3>2. det'.out[Len(det'.out)] = u /\ u.truncated \in BOOLEAN
        BY <2>2, <3>1 DEF Utterances
      <3>3. queue' = [queue EXCEPT ![t] = Append(queue[t], u.truncated)]
        BY <2>3, <2>5, <3>2
      <3>4. Append(queue[t], u.truncated) \in Seq(BOOLEAN)
        BY <1>0, <3>2
      <3>5. queue' \in [Threads -> Seq(BOOLEAN)] /\ \A v \in Threads \ {t} : queue'[v] = queue[v]
        BY <1>0, <3>3, <3>4
      <3>6. GoTo(t, "feed") /\ "feed" \in Steps \ {"take", "record"}
        BY <1>0, <2>3 DEF GoTo, FeedTypeOK, Steps
      <3> QED BY <1>0, <2>3, <3>5, <3>6, ElsewhereKeeps
    <2> QED BY <2>4, <2>5
  <1>5. ASSUME NEW t \in Threads, FeedEnd(t)
        PROVE  HandleInv'
    <2>1. CASE queue[t] = <<>>
      BY <1>0, <1>5, <2>1, ElsewhereKeeps DEF FeedEnd, Handle, Steps
    <2>2. CASE queue[t] # <<>>
      BY <1>0, <1>5, <2>2, ElsewhereKeeps DEF FeedEnd, Handle, Steps
    <2> QED BY <2>1, <2>2
  <1>6. ASSUME NEW t \in Threads, EndUtterance(t)
        PROVE  HandleInv'
    <2>1. PICK q \in {<<>>, <<pttTruncated>>} :
             /\ queue' = [queue EXCEPT ![t] = q]
             /\ Handle(t, queue'[t])
      BY <1>6 DEF EndUtterance
    <2>2. q \in Seq(BOOLEAN) /\ queue'[t] = q
      <3>1. <<>> \in Seq(BOOLEAN)
        OBVIOUS
      <3>2. <<pttTruncated>> \in Seq(BOOLEAN)
        BY DEF PTTTypeOK
      <3>3. q \in Seq(BOOLEAN)
        BY <2>1, <3>1, <3>2
      <3> QED BY <1>0, <2>1, <3>3
    <2>3. queue' \in [Threads -> Seq(BOOLEAN)] /\ \A u \in Threads \ {t} : queue'[u] = queue[u]
      BY <1>0, <2>1, <2>2
    <2>4. pc[t] = "ready" /\ UNCHANGED handleVars
      BY <1>6 DEF EndUtterance, Calling
    <2>5. CASE queue'[t] = <<>>
      BY <1>0, <2>1, <2>3, <2>4, <2>5, ElsewhereKeeps DEF Handle, Steps
    <2>6. CASE queue'[t] # <<>>
      BY <1>0, <2>1, <2>3, <2>4, <2>6, ElsewhereKeeps DEF Handle, Steps
    <2> QED BY <2>5, <2>6
  <1>7. ASSUME NEW t \in Threads, Transcribe(t)
        PROVE  HandleInv'
    <2>1. queue[t] # <<>> /\ pc[t] = "transcribe" /\ UNCHANGED handleVars
      BY <1>7 DEF Transcribe, HandleInv, QueueFits
    <2>2. CASE GoTo(t, "mark") /\ UNCHANGED queue
      BY <1>0, <2>1, <2>2, ElsewhereKeeps DEF Steps
    <2>3. CASE NextUtterance(t)
      BY <1>0, <2>1, <2>3, NextTyped, ElsewhereKeeps DEF Steps
    <2> QED BY <1>7, <2>2, <2>3 DEF Transcribe
  <1> QED BY <1>0, <1>1, <1>2, <1>3, <1>4, <1>5, <1>6, <1>7, MarkKeeps, TakeKeeps, RecordKeeps
      DEF Next, vars, handleVars

-----------------------------------------------------------------------------

CaptureInv ==
    /\ state \in {"idle", "armed", "reviewing"}
    /\ PTTInv
    /\ DetInv
    /\ HandleInv

LEMMA CaptureInitInv == Init => CaptureInv
  <1> SUFFICES ASSUME Init PROVE CaptureInv
    OBVIOUS
  <1>1. PTTInv
    <2>1. 0 \in Nat /\ 0 \in 0 .. MaxPTT
      BY CaptureConstants
    <2> QED BY <2>1, Zenon DEF Init, PTTInv, PTTTypeOK, Capped
  <1>2. Good(det) /\ det.out = <<>> /\ det.from = 0
    BY CaptureConstants DEF Init, NewDetector, Good, Detectors
  <1>3. DetInv
    <2>1. DetTypeOK /\ FeedTypeOK
      BY CaptureConstants DEF Init, DetTypeOK, FeedTypeOK, Steps
    <2>2. UtterancesInOrder /\ DisarmDropsPartial
      BY <1>2 DEF Init, UtterancesInOrder, DisarmDropsPartial
    <2> QED BY <1>2, <2>1, <2>2 DEF DetInv
  <1>4. HandleInv
    <2>1. HandleTypeOK
      <3>1. <<>> \in Seq(BOOLEAN) /\ <<>> \in Seq(RecordType)
        OBVIOUS
      <3>2. queue \in [Threads -> Seq(BOOLEAN)] /\ taken \in [Threads -> BOOLEAN]
        BY <3>1 DEF Init
      <3>3. truncPending \in BOOLEAN /\ crossed \subseteq Threads
        BY DEF Init
      <3>4. records \in Seq(RecordType)
        BY <3>1 DEF Init
      <3> QED BY <3>2, <3>3, <3>4 DEF HandleTypeOK
    <2>2. QueueFits /\ MarkFits
      BY DEF Init, QueueFits, MarkFits
    <2>3. MarkIsRight
      BY DEF Init, MarkIsRight
    <2> QED BY <2>1, <2>2, <2>3 DEF HandleInv
  <1>5. state = "idle"
    BY DEF Init
  <1> QED BY <1>1, <1>3, <1>4, <1>5 DEF CaptureInv

LEMMA CaptureStepInv == CaptureInv /\ [Next]_vars => CaptureInv'
  <1> SUFFICES ASSUME CaptureInv, [Next]_vars
               PROVE  CaptureInv'
    OBVIOUS
  <1>1. state' \in {"idle", "armed", "reviewing"}
    <2>1. CASE UNCHANGED vars
      BY <2>1 DEF CaptureInv, vars
    <2>2. CASE Next
      BY <2>2 DEF CaptureInv, Next, Arm, Disarm, BeginUtterance, FeedPTT, FeedWake, FeedTurn,
                  FeedEnd, EndUtterance, Transcribe, Mark, Text, Take, Record, Settle
    <2> QED BY <2>1, <2>2
  <1>2. PTTTypeOK
    BY DEF CaptureInv, PTTInv
  <1> QED BY <1>1, <1>2, PTTStep, DetStep, HandleStep DEF CaptureInv

LEMMA CaptureInvariant == Spec => []CaptureInv
  BY CaptureInitInv, CaptureStepInv, PTL DEF Spec

-----------------------------------------------------------------------------

\* Every variable of the capture keeps its type.
THEOREM CaptureTypes == Spec => []TypeOK
  <1>1. CaptureInv => TypeOK
    BY DEF CaptureInv, PTTInv, PTTTypeOK, DetInv, DetTypeOK, FeedTypeOK, Good, HandleInv,
           HandleTypeOK, RecordType, TypeOK
  <1> QED BY <1>1, CaptureInvariant, PTL

\* Whatever the sizes of the chunks, a held button keeps exactly the head of
\* what was said and is marked when something was dropped (FeedPCM).
THEOREM HeadIsKept == Spec => []PTTKeepsHead
  <1>1. CaptureInv => PTTKeepsHead
    BY CappedIsHead DEF CaptureInv, PTTInv
  <1> QED BY <1>1, CaptureInvariant, PTL

\* No audio is delivered twice, for any frame length, pre-roll, hang-over and
\* cap a detector may be given (processFrame, trimTail, reset).
THEOREM UtterancesFollow == Spec => []UtterancesInOrder
  <1>1. CaptureInv => UtterancesInOrder
    BY DEF CaptureInv, DetInv
  <1> QED BY <1>1, CaptureInvariant, PTL

\* No utterance spans a Disarm (Disarm, FeedPCM).
THEOREM DisarmCuts == Spec => []DisarmDropsPartial
  <1>1. CaptureInv => DisarmDropsPartial
    BY DEF CaptureInv, DetInv
  <1> QED BY <1>1, CaptureInvariant, PTL

\* With any number of threads, a record whose mark no other handling met carries
\* its own (handleUtterance, HandleTranscript).
THEOREM MarksAreRight == Spec => []MarkIsRight
  <1>1. CaptureInv => MarkIsRight
    BY DEF CaptureInv, HandleInv
  <1> QED BY <1>1, CaptureInvariant, PTL

-----------------------------------------------------------------------------
(* Speech kept, silence trimmed. *)

Frames(n) == n * FrameLen

\* The frames heard follow one another from where the detector began.
HeardFits ==
    /\ \A i \in DOMAIN heard : heard[i].at = disarmedAt + Frames(i - 1)
    /\ det.done = disarmedAt + Frames(Len(heard))

\* Before the frames of the run in progress there is nothing, silence, or the
\* cut the cap made.
RunFits ==
    LET k == Len(heard) - det.speechRun IN
    ~ det.inSpeech =>
        /\ det.speechRun < StartFrames
        /\ det.from + Frames(det.speechRun) <= det.done
        /\ k >= 0
        /\ k > 0 /\ heard[k].speech =>
              \E u \in DOMAIN det.out :
                  det.out[u].truncated /\ det.out[u].to = heard[k].at + FrameLen

\* An open utterance holds the frames that opened it, and the last spoken one
\* with the silence after it.
OpenFits ==
    LET k == Len(heard) - det.silRun IN
    det.inSpeech =>
        /\ det.from + Frames(StartFrames) <= det.done
        /\ det.from + Frames(det.silRun + 1) <= det.done
        /\ k > 0 /\ heard[k].speech
        /\ \A j \in DOMAIN heard : j > k => ~ heard[j].speech

SpeechInv == HeardFits /\ RunFits /\ OpenFits /\ SpeechIsKept /\ SilenceTrimmed

LEMMA FramesLaws ==
    /\ \A n \in Int : Frames(n) \in Int
    /\ \A n \in Nat : Frames(n) \in Nat
    /\ Frames(0) = 0
    /\ \A n \in Int : Frames(n + 1) = Frames(n) + FrameLen
    /\ \A m, n \in Int : m <= n => Frames(m) <= Frames(n)
    /\ \A m, n \in Int : m < n => Frames(m) < Frames(n)
    /\ \A m, n \in Int : Frames(m - n) = Frames(m) - Frames(n)
    /\ Frames(StartFrames) <= PreMax
  <1> USE CaptureConstants DEF Frames
  <1>1. /\ \A n \in Int : Frames(n) \in Int
        /\ \A n \in Nat : Frames(n) \in Nat
        /\ Frames(0) = 0
    OBVIOUS
  <1>2. \A n \in Int : Frames(n + 1) = Frames(n) + FrameLen
    OBVIOUS
  <1>3. \A m, n \in Int : m <= n => Frames(m) <= Frames(n)
    OBVIOUS
  <1>4. \A m, n \in Int : m < n => Frames(m) < Frames(n)
    OBVIOUS
  <1>5. Frames(StartFrames) <= PreMax
    BY DetectorAssumption
  <1>6. \A m, n \in Int : Frames(m - n) = Frames(m) - Frames(n)
    OBVIOUS
  <1> QED BY <1>1, <1>2, <1>3, <1>4, <1>5, <1>6

\* What a frame does to the detector, in full.
Waits(d, q, run) ==
    /\ q.out = d.out
    /\ q.from = d.from \/ q.from = q.done - PreMax
    /\ q.speechRun = run /\ q.silRun = 0
    /\ q.inSpeech = (run >= StartFrames)

LEMMA IdleOutcome ==
    ASSUME NEW d, Framed(d), ~ d.inSpeech, NEW speech \in BOOLEAN,
           NEW run, run = IF speech THEN d.speechRun + 1 ELSE 0,
           NEW q, q = ProcessFrame(d, speech)
    PROVE  q.fed = d.fed /\ q.done = d.done + FrameLen /\ Waits(d, q, run)
  <1> DEFINE e == [d EXCEPT !.done = @ + FrameLen]
             from == IF e.done - PreMax > e.from THEN e.done - PreMax ELSE e.from
  <1>1. /\ d.done \in Nat /\ d.fed \in Nat /\ d.from \in Nat /\ d.speechRun \in Nat
        /\ d.silRun \in Nat /\ d.inSpeech \in BOOLEAN
    BY DEF Framed, Detectors
  <1>2. /\ e \in Detectors
        /\ e.done = d.done + FrameLen /\ e.fed = d.fed /\ e.from = d.from /\ e.out = d.out
        /\ e.speechRun = d.speechRun
    BY <1>1, CaptureConstants DEF Framed, Detectors
  <1>3. q = [e EXCEPT !.from = from, !.speechRun = run, !.inSpeech = (run >= StartFrames),
                      !.silRun = 0]
    BY <1>2 DEF ProcessFrame, IdleFrame
  <1> HIDE DEF e
  <1> QED BY <1>2, <1>3 DEF Detectors, Waits

\* The end of an utterance after `run` silent frames (trimTail).
Trimmed(from, to, run) ==
    LET cut == Frames(run) - SilKeep
    IN IF cut <= 0 \/ cut >= to - from THEN to ELSE to - cut

Holds(d, q, run) ==
    q.inSpeech /\ q.from = d.from /\ q.silRun = run /\ q.out = d.out

Closes(d, q, run, truncated) ==
    /\ ~ q.inSpeech /\ q.from = q.done /\ q.speechRun = 0 /\ q.silRun = 0
    /\ q.out = Append(d.out, [from |-> d.from, to |-> Trimmed(d.from, q.done, run),
                              truncated |-> truncated])

LEMMA OpenOutcome ==
    ASSUME NEW d, Framed(d), d.inSpeech, NEW speech \in BOOLEAN,
           NEW run, run = IF speech THEN 0 ELSE d.silRun + 1,
           NEW q, q = ProcessFrame(d, speech)
    PROVE  /\ q.fed = d.fed /\ q.done = d.done + FrameLen
           /\ \/ Holds(d, q, run)
              \/ Closes(d, q, run, FALSE) /\ ~ speech
              \/ Closes(d, q, run, TRUE)
  <1> DEFINE c == [d EXCEPT !.done = @ + FrameLen]
             e == [c EXCEPT !.silRun = run]
             u(truncated) == [from |-> e.from, to |-> TrimTail(e, e.done), truncated |-> truncated]
  <1>1. /\ d.done \in Nat /\ d.fed \in Nat /\ d.from \in Nat /\ d.speechRun \in Nat
        /\ d.silRun \in Nat /\ d.inSpeech \in BOOLEAN /\ run \in Nat
    BY DEF Framed, Detectors
  <1>2. /\ c \in Detectors
        /\ c.done = d.done + FrameLen /\ c.fed = d.fed /\ c.from = d.from /\ c.out = d.out
        /\ c.silRun = d.silRun /\ c.inSpeech = d.inSpeech
    BY <1>1, CaptureConstants DEF Framed, Detectors
  <1>3. q = IF e.silRun >= EndFrames THEN Reset(Deliver(e, e.done, FALSE))
            ELSE IF e.done - e.from >= MaxLen THEN Reset(Deliver(e, e.done, TRUE))
            ELSE e
    BY <1>2 DEF ProcessFrame, SpeechFrame
  <1> HIDE DEF c
  <1>4. /\ e \in Detectors
        /\ e.done = d.done + FrameLen /\ e.fed = d.fed /\ e.from = d.from /\ e.out = d.out
        /\ e.silRun = run /\ e.inSpeech = d.inSpeech
    BY <1>1, <1>2 DEF Detectors
  <1>5. run >= EndFrames => ~ speech
    BY CaptureConstants
  <1> HIDE DEF e
  <1>6. ASSUME NEW truncated \in BOOLEAN, q = Reset(Deliver(e, e.done, truncated))
        PROVE  q.fed = d.fed /\ q.done = e.done /\ Closes(d, q, run, truncated)
    <2>1. /\ q.fed = e.fed /\ q.done = e.done /\ ~ q.inSpeech /\ q.from = e.done
          /\ q.speechRun = 0 /\ q.silRun = 0 /\ q.out = Append(e.out, u(truncated))
      BY <1>4, <1>6 DEF Reset, Deliver, Detectors
    <2>2. TrimTail(e, e.done) = Trimmed(d.from, q.done, run)
      BY <1>4, <2>1 DEF TrimTail, Trimmed, Frames
    <2> QED BY <1>4, <2>1, <2>2 DEF Closes
  <1>7. CASE e.silRun >= EndFrames
    <2>1. q = Reset(Deliver(e, e.done, FALSE)) /\ ~ speech
      BY <1>3, <1>4, <1>5, <1>7
    <2>2. q.fed = d.fed /\ q.done = e.done /\ Closes(d, q, run, FALSE)
      BY <1>6, <2>1
    <2> QED BY <1>4, <2>1, <2>2
  <1>8. CASE ~ (e.silRun >= EndFrames) /\ e.done - e.from >= MaxLen
    <2>1. q = Reset(Deliver(e, e.done, TRUE))
      BY <1>3, <1>8
    <2>2. q.fed = d.fed /\ q.done = e.done /\ Closes(d, q, run, TRUE)
      BY <1>6, <2>1
    <2> QED BY <1>4, <2>2
  <1>9. CASE q = e
    BY <1>1, <1>4, <1>9 DEF Holds
  <1> QED BY <1>3, <1>7, <1>8, <1>9

-----------------------------------------------------------------------------
(* A turn of the detector, as the invariant sees it. *)

\* The same detector, with more of the next frame.
Same(d, q) ==
    /\ q.done = d.done /\ q.from = d.from /\ q.inSpeech = d.inSpeech
    /\ q.speechRun = d.speechRun /\ q.silRun = d.silRun /\ q.out = d.out

IdleTurn(d, q, speech) ==
    ~ d.inSpeech /\ Waits(d, q, IF speech THEN d.speechRun + 1 ELSE 0)

OpenTurn(d, q, speech) ==
    LET run == IF speech THEN 0 ELSE d.silRun + 1
    IN /\ d.inSpeech
       /\ \/ Holds(d, q, run)
          \/ Closes(d, q, run, FALSE) /\ ~ speech
          \/ Closes(d, q, run, TRUE)

LEMMA TurnOutcome ==
    ASSUME NEW d, Good(d), NEW n \in 1 .. FrameLen - (d.fed - d.done), NEW speech \in BOOLEAN,
           NEW q, q = Process(d, n, speech)
    PROVE  \/ Same(d, q)
           \/ q.done = d.done + FrameLen /\ (IdleTurn(d, q, speech) \/ OpenTurn(d, q, speech))
  <1> DEFINE e == [d EXCEPT !.fed = @ + n]
  <1>1. d.done \in Nat /\ d.fed \in Nat /\ d.from \in Nat /\ n \in Nat /\ d.inSpeech \in BOOLEAN
    BY DEF Good, Detectors
  <1>2. /\ e \in Detectors
        /\ e.fed = d.fed + n /\ e.done = d.done /\ e.from = d.from /\ e.inSpeech = d.inSpeech
        /\ e.out = d.out /\ e.speechRun = d.speechRun /\ e.silRun = d.silRun
    BY <1>1 DEF Good, Detectors
  <1>3. q = IF e.fed - e.done = FrameLen THEN ProcessFrame(e, speech) ELSE e
    BY DEF Process
  <1> HIDE DEF e
  <1>4. CASE e.fed - e.done = FrameLen
    <2>1. Framed(e) /\ q = ProcessFrame(e, speech)
      BY <1>1, <1>2, <1>3, <1>4, CaptureConstants DEF Good, Framed
    <2>2. CASE ~ d.inSpeech
      <3> DEFINE run == IF speech THEN e.speechRun + 1 ELSE 0
      <3>1. q.done = e.done + FrameLen /\ Waits(e, q, run)
        BY <1>2, <2>1, <2>2, IdleOutcome
      <3> QED BY <1>2, <2>2, <3>1 DEF IdleTurn, Waits
    <2>3. CASE d.inSpeech
      <3> DEFINE run == IF speech THEN 0 ELSE e.silRun + 1
      <3>1. /\ q.done = e.done + FrameLen
            /\ \/ Holds(e, q, run)
               \/ Closes(e, q, run, FALSE) /\ ~ speech
               \/ Closes(e, q, run, TRUE)
        BY <1>2, <2>1, <2>3, OpenOutcome
      <3> QED BY <1>2, <2>3, <3>1 DEF OpenTurn, Holds, Closes
    <2> QED BY <2>2, <2>3
  <1>5. CASE e.fed - e.done # FrameLen
    BY <1>2, <1>3, <1>5 DEF Same
  <1> QED BY <1>4, <1>5

\* One more frame heard.
Heard(speech) ==
    /\ heard' = Append(heard, [at |-> det.done, speech |-> speech])
    /\ det'.done = det.done + FrameLen
    /\ disarmedAt' = disarmedAt

HeardFrames == [at : Nat, speech : BOOLEAN]

LEMMA FrameTyped ==
    ASSUME NEW s \in Seq(HeardFrames), NEW i \in DOMAIN s
    PROVE  s[i].at \in Nat /\ s[i].speech \in BOOLEAN
  <1>1. s[i] \in HeardFrames
    OBVIOUS
  <1> QED BY <1>1 DEF HeardFrames

LEMMA HeardGrows ==
    ASSUME DetInv, DetInv', HeardFits, NEW speech \in BOOLEAN, Heard(speech)
    PROVE  /\ Len(heard) \in Nat /\ Len(heard') = Len(heard) + 1
           /\ DOMAIN heard = 1 .. Len(heard) /\ DOMAIN heard' = 1 .. Len(heard) + 1
           /\ \A i \in DOMAIN heard : heard'[i] = heard[i]
           /\ heard'[Len(heard) + 1].speech = speech
           /\ \A i \in DOMAIN heard' : heard'[i].speech \in BOOLEAN
           /\ \A i \in DOMAIN heard' : heard'[i].at = disarmedAt + Frames(i - 1)
           /\ HeardFits'
  <1> DEFINE new == [at |-> det.done, speech |-> speech]
  <1>1. heard \in Seq(HeardFrames) /\ det.done \in Nat /\ disarmedAt \in Nat
    BY DEF DetInv, DetTypeOK, Good, Detectors, HeardFrames
  <1>2. new \in HeardFrames /\ heard' = Append(heard, new)
    BY <1>1 DEF Heard, HeardFrames
  <1>3. new.at = det.done /\ new.speech = speech
    OBVIOUS
  <1> HIDE DEF new
  <1>4. /\ Len(heard) \in Nat /\ Len(heard') = Len(heard) + 1
        /\ DOMAIN heard = 1 .. Len(heard) /\ DOMAIN heard' = 1 .. Len(heard) + 1
        /\ \A i \in DOMAIN heard : heard'[i] = heard[i]
        /\ heard'[Len(heard) + 1] = new
        /\ heard' \in Seq(HeardFrames)
    BY <1>1, <1>2
  <1>5. \A i \in DOMAIN heard' : heard'[i].speech \in BOOLEAN
    BY <1>4, FrameTyped
  <1>6. Frames(Len(heard) + 1) = Frames(Len(heard)) + FrameLen /\ Frames(Len(heard)) \in Nat
        /\ Len(heard) + 1 - 1 = Len(heard)
    <2>1. Len(heard) \in Int /\ Len(heard) + 1 - 1 = Len(heard)
      BY <1>4
    <2> QED BY <1>4, <2>1, FramesLaws, Zenon
  <1>7. \A i \in DOMAIN heard' : heard'[i].at = disarmedAt + Frames(i - 1)
    <2>1. ASSUME NEW i \in DOMAIN heard'
          PROVE  heard'[i].at = disarmedAt + Frames(i - 1)
      <3>1. CASE i \in DOMAIN heard
        BY <1>4, <3>1 DEF HeardFits
      <3>2. CASE i = Len(heard) + 1
        BY <1>3, <1>4, <1>6, <3>2 DEF HeardFits
      <3> QED BY <1>4, <2>1, <3>1, <3>2
    <2> QED BY <2>1
  <1>8. HeardFits'
    BY <1>1, <1>4, <1>6, <1>7, CaptureConstants DEF HeardFits, Heard
  <1> QED BY <1>3, <1>4, <1>5, <1>7, <1>8

LEMMA FrameEnd ==
    ASSUME NEW i \in Int
    PROVE  /\ Frames(i) \in Int /\ Frames(i - 1) \in Int /\ Frames(i + 1) \in Int
           /\ Frames(i - 1) + FrameLen = Frames(i)
           /\ Frames(i) + FrameLen = Frames(i + 1)
  <1>1. i - 1 \in Int /\ i - 1 + 1 = i
    OBVIOUS
  <1>2. Frames(i - 1 + 1) = Frames(i - 1) + FrameLen
    BY <1>1, FramesLaws, Zenon
  <1>3. i + 1 \in Int
    OBVIOUS
  <1>4. Frames(i + 1) = Frames(i) + FrameLen
    BY FramesLaws, Zenon
  <1> QED BY <1>1, <1>2, <1>3, <1>4, FramesLaws, Zenon

LEMMA FramesOrdered ==
    ASSUME NEW m \in Int, NEW n \in Int
    PROVE  /\ Frames(m) \in Int /\ Frames(n) \in Int
           /\ m <= n => Frames(m) <= Frames(n)
           /\ m < n => Frames(m) < Frames(n)
  BY FramesLaws, Zenon

\* A frame of a run that counts and ends after `h` frames.
LEMMA RunReachesBack ==
    ASSUME NEW h \in Int, NEW j \in Int, h - StartFrames <= j
    PROVE  /\ Frames(h) \in Int /\ Frames(j) \in Int /\ Frames(StartFrames) \in Int
           /\ Frames(h) - Frames(StartFrames) <= Frames(j)
  <1>1. PICK m \in Int : m = h - StartFrames
    BY CaptureConstants
  <1>2. StartFrames \in Int
    BY CaptureConstants
  <1>3. Frames(h - StartFrames) = Frames(h) - Frames(StartFrames)
    BY <1>2, FramesLaws, Zenon
  <1>4. Frames(m) <= Frames(j)
    BY <1>1, FramesOrdered
  <1> QED BY <1>1, <1>2, <1>3, <1>4, FramesLaws, Zenon

LEMMA DetTypes ==
    ASSUME NEW d, Good(d)
    PROVE  /\ d.from \in Nat /\ d.done \in Nat /\ d.speechRun \in Nat /\ d.silRun \in Nat
           /\ d.inSpeech \in BOOLEAN /\ d.out \in Seq(Utterances) /\ d.from <= d.done
  BY DEF Good, Detectors

\* A run that began before the frame is as well covered after it.
LEMMA OldRunsKept ==
    ASSUME DetInv, DetInv', HeardFits, SpeechIsKept, NEW speech \in BOOLEAN, Heard(speech),
           \A k \in DOMAIN det.out : k \in DOMAIN det'.out /\ det'.out[k] = det.out[k],
           \A j \in DOMAIN heard :
              heard[j].speech /\ InUtterance(heard[j].at) => InUtterance(heard[j].at)',
           NEW i \in DOMAIN heard', i + StartFrames - 1 \in DOMAIN heard, SpeechRun(i)'
    PROVE  \A j \in i .. i + StartFrames - 1 : InUtterance(heard[j].at)'
  <1>1. \A j \in i .. i + StartFrames - 1 : j \in DOMAIN heard /\ heard'[j] = heard[j]
    BY HeardGrows, CaptureConstants
  <1>2. i \in DOMAIN heard /\ i \in i .. i + StartFrames - 1
        /\ i + StartFrames - 1 \in i .. i + StartFrames - 1
    BY HeardGrows, CaptureConstants
  <1>3. SpeechRun(i)
    BY <1>1, <1>2 DEF SpeechRun
  <1>4. \A j \in i .. i + StartFrames - 1 : heard[j].speech /\ InUtterance(heard[j].at)
    BY <1>2, <1>3 DEF SpeechIsKept, SpeechRun
  <1> QED BY <1>1, <1>4

LEMMA IdleTurnKeeps ==
    ASSUME DetInv, DetInv', SpeechInv, NEW speech \in BOOLEAN, Heard(speech),
           IdleTurn(det, det', speech)
    PROVE  SpeechInv'
  <1> USE DEF SpeechInv
  <1> DEFINE H == Len(heard)
             run == IF speech THEN det.speechRun + 1 ELSE 0
             k == H - det.speechRun
  <1>1. /\ H \in Nat /\ Len(heard') = H + 1
        /\ DOMAIN heard = 1 .. H /\ DOMAIN heard' = 1 .. H + 1
        /\ \A i \in DOMAIN heard : heard'[i] = heard[i]
        /\ heard'[H + 1].speech = speech
        /\ \A i \in DOMAIN heard' : heard'[i].at = disarmedAt + Frames(i - 1)
        /\ HeardFits'
    BY HeardGrows
  <1>2. /\ det.from \in Nat /\ det.done \in Nat /\ det.speechRun \in Nat /\ disarmedAt \in Nat
        /\ det'.from \in Nat /\ det'.done \in Nat /\ det.from <= det.done
    BY DetTypes DEF DetInv, DetTypeOK
  <1>3. /\ ~ det.inSpeech /\ det'.out = det.out /\ det'.silRun = 0 /\ det'.speechRun = run
        /\ det'.inSpeech = (run >= StartFrames)
        /\ det'.from = det.from \/ det'.from = det'.done - PreMax
        /\ det'.done = det.done + FrameLen /\ disarmedAt' = disarmedAt
    BY DEF IdleTurn, Waits, Heard
  <1>o. det'.inSpeech <=> run >= StartFrames
    BY <1>3, Zenon
  <1>4. /\ det.speechRun < StartFrames /\ det.from + Frames(det.speechRun) <= det.done
        /\ k \in Nat
        /\ k > 0 /\ heard[k].speech =>
              \E u \in DOMAIN det.out :
                  det.out[u].truncated /\ det.out[u].to = heard[k].at + FrameLen
    BY <1>1, <1>2, <1>3 DEF RunFits
  <1>5. run \in Nat /\ run <= StartFrames /\ (run > 0 => speech)
    BY <1>2, <1>4, CaptureConstants
  <1> HIDE DEF run
  <1>6. det'.from + Frames(run) <= det'.done
    <2>1. Frames(run) \in Int /\ Frames(run) <= Frames(StartFrames)
          /\ Frames(StartFrames) <= PreMax /\ Frames(StartFrames) \in Int
      <3>1. run \in Int /\ StartFrames \in Int
        BY <1>5, CaptureConstants
      <3> QED BY <1>5, <3>1, FramesOrdered, FramesLaws, Zenon
    <2>2. CASE det'.from = det'.done - PreMax
      BY <1>2, <2>1, <2>2, CaptureConstants
    <2>3. CASE det'.from = det.from /\ speech
      <3>1. Frames(run) = Frames(det.speechRun) + FrameLen /\ Frames(det.speechRun) \in Int
        BY <1>2, <2>3, FrameEnd DEF run
      <3> QED BY <1>2, <1>3, <1>4, <2>3, <3>1, CaptureConstants
    <2>4. CASE det'.from = det.from /\ ~ speech
      <3>1. Frames(run) = 0
        BY <2>4, FramesLaws DEF run
      <3> QED BY <1>2, <1>3, <2>4, <3>1, CaptureConstants
    <2> QED BY <1>3, <2>2, <2>3, <2>4
  <1>7. RunFits'
    <2>1. CASE speech
      <3>0. run = det.speechRun + 1
        BY <2>1 DEF run
      <3>1. Len(heard') - det'.speechRun = k
        <4>1. Len(heard') = H + 1 /\ det'.speechRun = run /\ H \in Nat
          BY <1>1, <1>3
        <4>2. det.speechRun \in Nat
          BY <1>2
        <4> HIDE DEF H
        <4> QED BY <3>0, <4>1, <4>2
      <3>2. k > 0 => heard'[k] = heard[k]
        BY <1>1, <1>2, <1>4
      <3> HIDE DEF k
      <3> QED BY <1>3, <1>o, <1>4, <1>5, <1>6, <3>1, <3>2, CaptureConstants DEF RunFits
    <2>2. CASE ~ speech
      <3>1. Len(heard') - det'.speechRun = H + 1
        BY <1>1, <1>3, <2>2 DEF run
      <3> HIDE DEF H
      <3> QED BY <1>1, <1>3, <1>o, <1>5, <1>6, <2>2, <3>1, CaptureConstants DEF RunFits
    <2> QED BY <2>1, <2>2
  <1>8. OpenFits'
    <2> SUFFICES ASSUME det'.inSpeech
                 PROVE  OpenFits'
      BY DEF OpenFits
    <2>1. run = StartFrames /\ speech
      BY <1>o, <1>5, CaptureConstants
    <2>2. Frames(1) <= Frames(StartFrames) /\ Frames(1) \in Int /\ Frames(StartFrames) \in Int
      BY CaptureConstants, FramesLaws
    <2>3. det'.from + Frames(1) <= det'.done
      BY <1>2, <1>6, <2>1, <2>2
    <2>4. Len(heard') - det'.silRun = H + 1 /\ det'.silRun + 1 = 1
      BY <1>1, <1>3
    <2>5. \A j \in DOMAIN heard' : ~ (j > H + 1)
      BY <1>1
    <2>6. heard'[H + 1].speech /\ H + 1 > 0
      BY <1>1, <2>1
    <2>7. det'.from + Frames(StartFrames) <= det'.done
      BY <1>6, <2>1
    <2> HIDE DEF H
    <2> QED BY <2>3, <2>4, <2>5, <2>6, <2>7 DEF OpenFits
  <1>9. SilenceTrimmed'
    BY <1>1, <1>3 DEF SilenceTrimmed
  <1>10. SpeechIsKept'
    <2>1. SUFFICES ASSUME NEW i \in DOMAIN heard', SpeechRun(i)'
                   PROVE  \A j \in i .. i + StartFrames - 1 : InUtterance(heard[j].at)'
      BY DEF SpeechIsKept
    <2>2. i \in Nat /\ i >= 1 /\ i + StartFrames - 1 \in 1 .. H + 1
      BY <1>1, <2>1 DEF SpeechRun
    <2>3. CASE i + StartFrames - 1 \in DOMAIN heard
      <3>1. \A j \in DOMAIN heard : InUtterance(heard[j].at) => InUtterance(heard[j].at)'
        BY <1>1, <1>3 DEF InUtterance
      <3> QED BY <1>3, <2>1, <2>3, <3>1, OldRunsKept
    <2>4. CASE i + StartFrames - 1 = H + 1
      <3>1. \A j \in i .. H + 1 : j \in DOMAIN heard' /\ heard'[j].speech
        BY <1>1, <2>1, <2>2, <2>4 DEF SpeechRun
      <3>2. speech
        BY <1>1, <2>2, <2>4, <3>1
      <3>3. CASE run = StartFrames
        <4>1. ASSUME NEW j \in i .. i + StartFrames - 1
              PROVE  det'.from <= heard'[j].at
          <5>1. j \in DOMAIN heard' /\ j \in Int /\ i - 1 <= j - 1 /\ i - 1 = H + 1 - StartFrames
            BY <1>1, <2>2, <2>4, CaptureConstants
          <5>2. Frames(i - 1) = Frames(H + 1) - Frames(StartFrames)
            BY <1>1, <5>1, CaptureConstants, FramesLaws
          <5>3. /\ Frames(i - 1) <= Frames(j - 1)
                /\ Frames(i - 1) \in Int /\ Frames(j - 1) \in Int
            <6>1. i - 1 \in Int /\ j - 1 \in Int
              BY <2>2, <5>1
            <6> QED BY <5>1, <6>1, FramesOrdered
          <5>5. Frames(H + 1) \in Int /\ Frames(StartFrames) \in Int
            BY <1>1, CaptureConstants, FramesLaws
          <5>4. det'.done = disarmedAt + Frames(H + 1)
            BY <1>1, <1>3 DEF HeardFits
          <5> QED BY <1>1, <1>2, <1>6, <3>3, <5>1, <5>2, <5>3, <5>4, <5>5
        <4>2. det'.inSpeech
          BY <1>o, <3>3, CaptureConstants
        <4> QED BY <4>1, <4>2 DEF InUtterance
      <3>4. CASE run < StartFrames
        <4>0. run = det.speechRun + 1
          BY <3>2 DEF run
        <4>1. k = H + 1 - run /\ i <= k /\ k <= H /\ k \in DOMAIN heard /\ k > 0 /\ k \in Int
          <5>1. H \in Nat /\ DOMAIN heard = 1 .. H
            BY <1>1
          <5>2. det.speechRun \in Nat /\ StartFrames \in Nat
            BY <1>2, CaptureConstants
          <5>3. i \in Nat /\ i >= 1 /\ i + StartFrames - 1 = H + 1
            BY <2>2, <2>4
          <5> HIDE DEF H
          <5>4. k = H + 1 - run /\ k \in Int /\ k <= H
            BY <4>0, <5>1, <5>2
          <5> HIDE DEF k
          <5>5. run \in Nat
            BY <4>0, <5>2
          <5> HIDE DEF run
          <5>6. i <= k
            BY <3>4, <5>1, <5>2, <5>3, <5>4, <5>5
          <5> QED BY <5>1, <5>3, <5>4, <5>6
        <4>2. heard'[k] = heard[k] /\ heard[k].speech
          BY <1>1, <3>1, <4>1
        <4>3. PICK u \in DOMAIN det.out :
                 det.out[u].truncated /\ det.out[u].to = heard[k].at + FrameLen
          BY <1>4, <4>1, <4>2
        <4>4. /\ heard[k].at = disarmedAt + Frames(k - 1) /\ Frames(k - 1) + FrameLen = Frames(k)
              /\ Frames(k) \in Int /\ Frames(k - 1) \in Int
          BY <4>1, FrameEnd DEF HeardFits
        <4>5. det.out[u].to = disarmedAt + Frames(k)
          BY <1>2, <4>3, <4>4, CaptureConstants
        <4>6. heard'[i].at = disarmedAt + Frames(i - 1) /\ Frames(i - 1) \in Int
              /\ Frames(i - 1) < Frames(k)
          <5>1. i - 1 \in Int /\ i - 1 < k
            BY <2>2, <4>1
          <5> QED BY <1>1, <2>1, <4>1, <5>1, FramesOrdered
        <4>7. heard'[H + 1].at = disarmedAt + Frames(H) /\ Frames(H) \in Int
              /\ Frames(k) <= Frames(H)
          <5>1. H + 1 \in DOMAIN heard' /\ H + 1 - 1 = H /\ H \in Int
            BY <1>1
          <5>2. heard'[H + 1].at = disarmedAt + Frames(H + 1 - 1)
            BY <1>1, <5>1
          <5> QED BY <4>1, <5>1, <5>2, FramesOrdered
        <4>8. det'.out[u].to \in heard'[i].at + 1 .. heard'[i + StartFrames - 1].at
          <5>1. det'.out[u].to = disarmedAt + Frames(k) /\ disarmedAt \in Nat
            BY <1>2, <1>3, <4>5
          <5>2. heard'[i + StartFrames - 1].at = disarmedAt + Frames(H)
            BY <2>4, <4>7
          <5>3. Frames(k) \in Int
            BY <4>4
          <5> HIDE DEF H, k
          <5> QED BY <4>6, <4>7, <5>1, <5>2, <5>3
        <4> QED BY <1>3, <2>1, <4>3, <4>8 DEF SpeechRun
      <3> QED BY <1>5, <3>3, <3>4, CaptureConstants
    <2> QED BY <1>1, <2>2, <2>3, <2>4
  <1> QED BY <1>1, <1>7, <1>8, <1>9, <1>10

\* The last frame of speech of an open utterance, once a frame of it is heard.
LastSpoken(run) ==
    /\ Len(heard') - run \in DOMAIN heard'
    /\ heard'[Len(heard') - run].speech
    /\ \A j \in DOMAIN heard' : j > Len(heard') - run => ~ heard'[j].speech
    /\ det.from + Frames(run + 1) <= det'.done

LEMMA SpokenTail ==
    ASSUME DetInv, DetInv', HeardFits, OpenFits, NEW speech \in BOOLEAN, Heard(speech),
           det.inSpeech, NEW run, run = IF speech THEN 0 ELSE det.silRun + 1
    PROVE  run \in Nat /\ LastSpoken(run)
  <1> DEFINE H == Len(heard)
  <1>1. /\ H \in Nat /\ Len(heard') = H + 1
        /\ DOMAIN heard = 1 .. H /\ DOMAIN heard' = 1 .. H + 1
        /\ \A i \in DOMAIN heard : heard'[i] = heard[i]
        /\ heard'[H + 1].speech = speech
    BY HeardGrows
  <1>2. /\ det.from \in Nat /\ det.done \in Nat /\ det.silRun \in Nat /\ det'.done \in Nat
        /\ det.from <= det.done
    BY DetTypes DEF DetInv
  <1>3. det'.done = det.done + FrameLen
    BY DEF Heard
  <1>4. /\ det.from + Frames(det.silRun + 1) <= det.done
        /\ H - det.silRun > 0 /\ heard[H - det.silRun].speech
        /\ \A j \in DOMAIN heard : j > H - det.silRun => ~ heard[j].speech
    BY DEF OpenFits
  <1> HIDE DEF H
  <1>5. CASE speech
    <2>1. run = 0 /\ run \in Nat /\ Len(heard') - run = H + 1 /\ run + 1 = 1
      BY <1>1, <1>5
    <2>2. Frames(1) = FrameLen
      BY FramesLaws, CaptureConstants DEF Frames
    <2>3. det.from + Frames(run + 1) <= det'.done
      BY <1>2, <1>3, <2>1, <2>2, CaptureConstants
    <2>4. \A j \in DOMAIN heard' : ~ (j > H + 1)
      BY <1>1
    <2>5. H + 1 \in DOMAIN heard' /\ heard'[H + 1].speech
      BY <1>1, <1>5
    <2> QED BY <2>1, <2>3, <2>4, <2>5, Zenon DEF LastSpoken
  <1>6. CASE ~ speech
    <2>1. run = det.silRun + 1 /\ run \in Nat /\ Len(heard') - run = H - det.silRun
      BY <1>1, <1>2, <1>6
    <2>2. Frames(run + 1) = Frames(det.silRun + 1) + FrameLen /\ Frames(det.silRun + 1) \in Int
      <3>1. run \in Int
        BY <2>1
      <3> QED BY <2>1, <3>1, FrameEnd, Zenon
    <2>3. det.from + Frames(run + 1) <= det'.done
      BY <1>2, <1>3, <1>4, <2>2, CaptureConstants
    <2>4. H - det.silRun \in DOMAIN heard
      BY <1>1, <1>2, <1>4
    <2>5. H - det.silRun \in DOMAIN heard' /\ heard'[H - det.silRun].speech
      BY <1>1, <1>4, <2>4
    <2>6. \A j \in DOMAIN heard' : j > H - det.silRun => ~ heard'[j].speech
      BY <1>1, <1>4, <1>6
    <2> QED BY <2>1, <2>3, <2>5, <2>6, Zenon DEF LastSpoken
  <1> QED BY <1>5, <1>6

\* What is delivered ends after the last frame of speech, and by no more than the
\* hang-over.
LEMMA TrimmedTail ==
    ASSUME NEW from \in Nat, NEW to \in Nat, NEW run \in Nat, from + Frames(run + 1) <= to
    PROVE  /\ Trimmed(from, to, run) \in Int
           /\ Trimmed(from, to, run) >= to - Frames(run)
           /\ Trimmed(from, to, run) <= to - Frames(run) + SilKeep
  <1>1. Frames(run) \in Nat /\ Frames(run + 1) = Frames(run) + FrameLen
    <2>1. run \in Int
      OBVIOUS
    <2> QED BY <2>1, FrameEnd, FramesLaws, Zenon
  <1>2. ~ (Frames(run) - SilKeep >= to - from)
    BY <1>1, CaptureConstants
  <1> QED BY <1>1, <1>2, CaptureConstants DEF Trimmed

LEMMA OpenTurnKeeps ==
    ASSUME DetInv, DetInv', SpeechInv, NEW speech \in BOOLEAN, Heard(speech),
           OpenTurn(det, det', speech)
    PROVE  SpeechInv'
  <1> USE DEF SpeechInv
  <1> DEFINE H == Len(heard)
             run == IF speech THEN 0 ELSE det.silRun + 1
             k == H + 1 - run
             to == Trimmed(det.from, det'.done, run)
  <1>1. /\ H \in Nat /\ Len(heard') = H + 1
        /\ DOMAIN heard = 1 .. H /\ DOMAIN heard' = 1 .. H + 1
        /\ \A i \in DOMAIN heard : heard'[i] = heard[i]
        /\ heard'[H + 1].speech = speech
        /\ \A i \in DOMAIN heard' : heard'[i].at = disarmedAt + Frames(i - 1)
        /\ HeardFits'
    BY HeardGrows
  <1>2. /\ det.from \in Nat /\ det.done \in Nat /\ det.silRun \in Nat /\ disarmedAt \in Nat
        /\ det'.from \in Nat /\ det'.done \in Nat /\ det.from <= det.done
        /\ det.out \in Seq(Utterances) /\ det'.out \in Seq(Utterances)
    BY DetTypes DEF DetInv, DetTypeOK
  <1>3. det.inSpeech /\ det'.done = det.done + FrameLen /\ disarmedAt' = disarmedAt
    BY DEF OpenTurn, Heard
  <1>4. \/ Holds(det, det', run)
        \/ Closes(det, det', run, FALSE) /\ ~ speech
        \/ Closes(det, det', run, TRUE)
    BY DEF OpenTurn
  <1>5. run \in Nat /\ LastSpoken(run)
    BY <1>3, SpokenTail
  <1>6. speech => run = 0
    OBVIOUS
  <1>7. ~ speech => run = det.silRun + 1
    OBVIOUS
  <1> HIDE DEF run
  <1>8. det'.done = disarmedAt + Frames(H + 1)
    BY <1>1, <1>3 DEF HeardFits
  <1>9. /\ to \in Int
        /\ to >= det'.done - Frames(run) /\ to <= det'.done - Frames(run) + SilKeep
    BY <1>2, <1>5, TrimmedTail DEF LastSpoken
  <1>10. /\ Len(heard') - run = k /\ k \in DOMAIN heard' /\ k \in Int /\ heard'[k].speech
         /\ \A j \in DOMAIN heard' : j > k => ~ heard'[j].speech
    BY <1>1, <1>5 DEF LastSpoken
  <1>11. det'.done - Frames(run) = disarmedAt + Frames(k)
    <2>1. H + 1 \in Int /\ run \in Int
      BY <1>1, <1>5
    <2>2. Frames(k) = Frames(H + 1) - Frames(run)
      BY <2>1, FramesLaws
    <2>3. Frames(H + 1) \in Int /\ Frames(run) \in Int
      BY <2>1, FramesLaws
    <2> QED BY <1>2, <1>8, <2>2, <2>3
  <1>12. Holds(det, det', run) \/ \E u \in Utterances :
            /\ u.from = det.from /\ u.to = to
            /\ det'.out = Append(det.out, u)
            /\ Closes(det, det', run, u.truncated)
            /\ speech => u.truncated
    <2>1. to \in Nat
      <3>1. det.from + Frames(run + 1) <= det'.done /\ Frames(run + 1) = Frames(run) + FrameLen
            /\ Frames(run) \in Int
        BY <1>5, FrameEnd DEF LastSpoken
      <3> HIDE DEF to
      <3> QED BY <1>2, <1>9, <3>1, CaptureConstants
    <2> HIDE DEF to
    <2>2. ASSUME NEW truncated \in BOOLEAN, Closes(det, det', run, truncated), speech => truncated
          PROVE  \E u \in Utterances :
                    /\ u.from = det.from /\ u.to = to
                    /\ det'.out = Append(det.out, u)
                    /\ Closes(det, det', run, u.truncated)
                    /\ speech => u.truncated
      <3> DEFINE u == [from |-> det.from, to |-> to, truncated |-> truncated]
      <3>1. u \in Utterances /\ u.from = det.from /\ u.to = to /\ u.truncated = truncated
        BY <1>2, <2>1 DEF Utterances
      <3>2. det'.out = Append(det.out, u)
        BY <2>2 DEF Closes, to
      <3> HIDE DEF u
      <3> QED BY <2>2, <3>1, <3>2
    <2> QED BY <1>4, <2>2
  <1>13. \A u \in DOMAIN det.out : u \in DOMAIN det'.out /\ det'.out[u] = det.out[u]
    BY <1>2, <1>12 DEF Holds
  <1>14. Holds(det, det', run) \/ /\ det'.out[Len(det'.out)].from = det.from
                                  /\ det'.out[Len(det'.out)].to = to
                                  /\ Len(det'.out) \in DOMAIN det'.out
                                  /\ speech => det'.out[Len(det'.out)].truncated
    BY <1>2, <1>12
  <1>e. \A u \in DOMAIN det'.out : u \in DOMAIN det.out \/ det'.out[u].to = to
    BY <1>2, <1>12 DEF Holds
  <1> HIDE DEF to
  <1>15. RunFits'
    <2> SUFFICES ASSUME ~ det'.inSpeech
                 PROVE  RunFits'
      BY DEF RunFits
    <2>1. det'.speechRun = 0 /\ det'.from = det'.done
      BY <1>4 DEF Holds, Closes
    <2>2. det'.from + Frames(0) <= det'.done
      <3>1. Frames(0) = 0
        BY FramesLaws
      <3> QED BY <1>2, <2>1, <3>1
    <2>3. Len(heard') - det'.speechRun = H + 1
      BY <1>1, <2>1
    <2>4. ASSUME speech
          PROVE  \E u \in DOMAIN det'.out :
                    det'.out[u].truncated /\ det'.out[u].to = heard'[H + 1].at + FrameLen
      <3>1. run = 0
        BY <1>6, <2>4
      <3>2. LET u == Len(det'.out)
            IN u \in DOMAIN det'.out /\ det'.out[u].truncated /\ det'.out[u].to = to
        BY <1>14, <2>4 DEF Holds
      <3>3. to = det'.done
        BY <1>2, <3>1, FramesLaws, CaptureConstants DEF to, Trimmed
      <3>4. heard'[H + 1].at + FrameLen = det'.done
        <4>1. H + 1 \in DOMAIN heard' /\ H + 1 \in Int
          BY <1>1
        <4>2. heard'[H + 1].at = disarmedAt + Frames(H + 1 - 1)
          BY <1>1, <4>1
        <4>3. Frames(H + 1 - 1) + FrameLen = Frames(H + 1) /\ Frames(H + 1 - 1) \in Int
              /\ Frames(H + 1) \in Int
          BY <4>1, FrameEnd
        <4> QED BY <1>2, <1>8, <4>2, <4>3, CaptureConstants
      <3> QED BY <3>2, <3>3, <3>4
    <2>5. 0 < StartFrames /\ H + 1 >= 0
      BY <1>1, CaptureConstants
    <2>6. heard'[H + 1].speech => speech
      BY <1>1
    <2> HIDE DEF H
    <2> QED BY <2>1, <2>2, <2>3, <2>4, <2>5, <2>6 DEF RunFits
  <1>16. OpenFits'
    <2> SUFFICES ASSUME det'.inSpeech
                 PROVE  OpenFits'
      BY DEF OpenFits
    <2>1. det'.from = det.from /\ det'.silRun = run
      BY <1>4 DEF Holds, Closes
    <2>2. det.from + Frames(StartFrames) <= det.done /\ Frames(StartFrames) \in Int
      BY <1>3, CaptureConstants, FramesLaws DEF OpenFits
    <2>3. det'.from + Frames(StartFrames) <= det'.done
      BY <1>2, <1>3, <2>1, <2>2, CaptureConstants
    <2>4. det'.from + Frames(det'.silRun + 1) <= det'.done
      BY <1>5, <2>1 DEF LastSpoken
    <2>5. k > 0
      BY <1>1, <1>10
    <2> HIDE DEF k
    <2> QED BY <1>10, <2>1, <2>3, <2>4, <2>5 DEF OpenFits
  <1>17. heard'[k].at + FrameLen = disarmedAt + Frames(k) /\ heard'[k].at \in Int
         /\ Frames(k) \in Int
    <2>1. heard'[k].at = disarmedAt + Frames(k - 1)
      BY <1>1, <1>10
    <2>2. Frames(k - 1) + FrameLen = Frames(k) /\ Frames(k) \in Int /\ Frames(k - 1) \in Int
      BY <1>10, FrameEnd
    <2> QED BY <1>2, <2>1, <2>2, CaptureConstants
  <1>18. SilenceTrimmed'
    <2> SUFFICES ASSUME NEW u \in DOMAIN det'.out, det'.out[u].from >= disarmedAt
                 PROVE  \E i \in DOMAIN heard' :
                           /\ heard'[i].speech
                           /\ heard'[i].at < det'.out[u].to
                           /\ det'.out[u].to <= heard'[i].at + FrameLen + SilKeep
      BY <1>3 DEF SilenceTrimmed
    <2>1. CASE u \in DOMAIN det.out
      <3>1. det'.out[u] = det.out[u]
        BY <1>13, <2>1
      <3>2. PICK i \in DOMAIN heard : /\ heard[i].speech
                                      /\ heard[i].at < det.out[u].to
                                      /\ det.out[u].to <= heard[i].at + FrameLen + SilKeep
        BY <2>1, <3>1 DEF SilenceTrimmed
      <3>3. i \in DOMAIN heard' /\ heard'[i] = heard[i]
        BY <1>1
      <3> QED BY <3>1, <3>2, <3>3
    <2>2. CASE u \notin DOMAIN det.out
      <3>1. det'.out[u].to = to
        BY <1>e, <2>2
      <3>2. heard'[k].at < to /\ to <= heard'[k].at + FrameLen + SilKeep
        BY <1>2, <1>9, <1>11, <1>17, CaptureConstants
      <3> QED BY <1>10, <3>1, <3>2
    <2> QED BY <2>1, <2>2
  <1>19. SpeechIsKept'
    <2>1. SUFFICES ASSUME NEW i \in DOMAIN heard', SpeechRun(i)'
                   PROVE  \A j \in i .. i + StartFrames - 1 : InUtterance(heard[j].at)'
      BY DEF SpeechIsKept
    \* A frame of speech the open utterance holds stays in it.
    <2>2. ASSUME NEW j \in DOMAIN heard', heard'[j].speech, det.from <= heard'[j].at
          PROVE  InUtterance(heard[j].at)'
      <3>1. j \in Int /\ j <= k
        BY <1>1, <1>10, <2>2
      <3>2. heard'[j].at = disarmedAt + Frames(j - 1) /\ Frames(j - 1) + FrameLen = Frames(j)
            /\ Frames(j) <= Frames(k) /\ Frames(j) \in Int /\ Frames(j - 1) \in Int
        BY <1>1, <1>10, <2>2, <3>1, FrameEnd, FramesOrdered
      <3>3. heard'[j].at + FrameLen <= to
        BY <1>2, <1>9, <1>11, <1>17, <3>2, CaptureConstants
      <3>4. CASE Holds(det, det', run)
        BY <2>2, <3>4 DEF Holds, InUtterance
      <3>5. CASE ~ Holds(det, det', run)
        BY <1>14, <2>2, <3>3, <3>5 DEF InUtterance
      <3> QED BY <3>4, <3>5
    <2>3. CASE i + StartFrames - 1 \in DOMAIN heard
      <3>1. \A j \in DOMAIN heard :
               heard[j].speech /\ InUtterance(heard[j].at) => InUtterance(heard[j].at)'
        <4>1. ASSUME NEW j \in DOMAIN heard, heard[j].speech, InUtterance(heard[j].at)
              PROVE  InUtterance(heard[j].at)'
          <5>1. j \in DOMAIN heard' /\ heard'[j] = heard[j]
            BY <1>1
          <5>2. CASE det.from <= heard[j].at
            BY <2>2, <4>1, <5>1, <5>2
          <5>3. CASE \E u \in DOMAIN det.out :
                        det.out[u].from <= heard[j].at /\ heard[j].at + FrameLen <= det.out[u].to
            BY <1>13, <5>1, <5>3 DEF InUtterance
          <5> QED BY <4>1, <5>2, <5>3 DEF InUtterance
        <4> QED BY <4>1
      <3> QED BY <1>13, <2>1, <2>3, <3>1, OldRunsKept
    <2>4. CASE i + StartFrames - 1 = H + 1
      <3>1. ASSUME NEW j \in i .. i + StartFrames - 1
            PROVE  InUtterance(heard[j].at)'
        <4>1. j \in DOMAIN heard' /\ heard'[j].speech /\ j \in Int /\ H \in Int
              /\ H + 1 - StartFrames <= j - 1 /\ j - 1 \in Int /\ H + 1 - StartFrames \in Int
          BY <1>1, <2>1, <2>4, CaptureConstants DEF SpeechRun
        <4>2. heard'[j].at = disarmedAt + Frames(j - 1)
          BY <1>1, <4>1
        <4>3. /\ Frames(H + 1) \in Int /\ Frames(j - 1) \in Int /\ Frames(StartFrames) \in Int
              /\ Frames(H + 1) - Frames(StartFrames) <= Frames(j - 1)
          <5>1. PICK h \in Int : h = H + 1
            BY <4>1
          <5>2. PICK m \in Int : m = j - 1
            BY <4>1
          <5>3. h - StartFrames <= m
            BY <4>1, <5>1, <5>2, CaptureConstants
          <5>4. /\ Frames(h) \in Int /\ Frames(m) \in Int /\ Frames(StartFrames) \in Int
                /\ Frames(h) - Frames(StartFrames) <= Frames(m)
            BY <5>3, RunReachesBack
          <5> QED BY <5>1, <5>2, <5>4
        <4>5. det.from + Frames(StartFrames) <= det.done
          BY <1>3 DEF OpenFits
        <4>6. det.from <= heard'[j].at
          <5>1. /\ det.from \in Nat /\ det.done \in Nat /\ disarmedAt \in Nat
                /\ det'.done = det.done + FrameLen
            BY <1>2, <1>3
          <5> HIDE DEF H
          <5>2. disarmedAt + (Frames(H + 1) - Frames(StartFrames)) <= heard'[j].at
            BY <4>2, <4>3, <5>1
          <5> QED BY <1>8, <4>2, <4>3, <4>5, <5>1, <5>2, CaptureConstants
        <4> QED BY <2>2, <4>1, <4>6
      <3> QED BY <3>1
    <2>5. i + StartFrames - 1 \in DOMAIN heard'
      BY <2>1 DEF SpeechRun
    <2> QED BY <1>1, <2>3, <2>4, <2>5
  <1> QED BY <1>1, <1>15, <1>16, <1>18, <1>19

-----------------------------------------------------------------------------

LEMMA SpeechStep == DetInv /\ DetInv' /\ SpeechInv /\ [Next]_vars => SpeechInv'
  <1> SUFFICES ASSUME DetInv, DetInv', SpeechInv, [Next]_vars
               PROVE  SpeechInv'
    OBVIOUS
  <1>1. ASSUME Same(det, det'), UNCHANGED <<heard, disarmedAt>>
        PROVE  SpeechInv'
    BY <1>1 DEF Same, SpeechInv, HeardFits, RunFits, OpenFits, SpeechIsKept, SilenceTrimmed,
                SpeechRun, InUtterance
  <1>2. ASSUME UNCHANGED detVars
        PROVE  SpeechInv'
    BY <1>1, <1>2 DEF detVars, Same
  <1>3. ASSUME NEW t \in Threads, Disarm(t)
        PROVE  SpeechInv'
    <2>1. det' = FreshDetector /\ disarmedAt' = det.fed /\ heard' = <<>>
      BY <1>3 DEF Disarm
    <2>2. Good(det) /\ UtterancesInOrder
      BY DEF DetInv
    <2>3. det'.out = det.out /\ det.fed \in Nat /\ det.from <= det.fed
      BY <2>1, <2>2, FreshGood
    <2>4. /\ det'.done = disarmedAt' /\ det'.from = disarmedAt' /\ det'.inSpeech = FALSE
          /\ det'.speechRun = 0 /\ disarmedAt' \in Nat
      BY <2>1, <2>3 DEF FreshDetector, NewDetector
    <2>5. Len(heard') = 0 /\ DOMAIN heard' = {}
      BY <2>1
    <2>6. HeardFits' /\ RunFits'
      <3>1. Frames(0) = 0
        BY FramesLaws
      <3>2. HeardFits'
        BY <2>4, <2>5, <3>1 DEF HeardFits
      <3>3. Len(heard') - det'.speechRun = 0
        BY <2>4, <2>5
      <3> QED BY <2>4, <3>1, <3>2, <3>3, CaptureConstants DEF RunFits
    <2>7. OpenFits' /\ SpeechIsKept'
      BY <2>4, <2>5 DEF OpenFits, SpeechIsKept
    <2>8. SilenceTrimmed'
      <3>1. ASSUME NEW u \in DOMAIN det.out
            PROVE  det.out[u].from < det.fed
        <4>1. det.out[u].from \in Nat /\ det.out[u].to \in Nat /\ det.from \in Nat
          BY <2>2, DetTypes, UtteranceTyped
        <4> QED BY <2>2, <2>3, <4>1 DEF UtterancesInOrder
      <3>2. \A u \in DOMAIN det.out : det.out[u].from \in Nat
        BY <2>2, DetTypes, UtteranceTyped
      <3> QED BY <2>1, <2>3, <3>1, <3>2 DEF SilenceTrimmed
    <2> QED BY <2>6, <2>7, <2>8 DEF SpeechInv
  <1>4. ASSUME NEW t \in Threads, FeedTurn(t)
        PROVE  SpeechInv'
    <2>1. chunk[t] \in 0 .. MaxChunk /\ chunk[t] > 0 /\ Good(det)
      BY <1>4 DEF DetInv, FeedTypeOK, FeedTurn
    <2>2. PICK speech \in BOOLEAN :
             /\ det' = Process(det, Turn(t), speech)
             /\ heard' = IF det'.done = det.done THEN heard
                         ELSE Append(heard, [at |-> det.done, speech |-> speech])
      BY <1>4 DEF FeedTurn
    <2>3. disarmedAt' = disarmedAt
      BY <1>4 DEF FeedTurn
    <2>4. \/ Same(det, det')
          \/ /\ det'.done = det.done + FrameLen
             /\ IdleTurn(det, det', speech) \/ OpenTurn(det, det', speech)
      BY <2>1, <2>2, TurnWithin, TurnOutcome
    <2>5. CASE Same(det, det')
      BY <1>1, <2>2, <2>3, <2>5 DEF Same
    <2>6. CASE /\ det'.done = det.done + FrameLen
               /\ IdleTurn(det, det', speech) \/ OpenTurn(det, det', speech)
      <3>1. det'.done # det.done
        BY <2>1, <2>6, DetTypes, CaptureConstants
      <3>2. Heard(speech)
        BY <2>2, <2>3, <2>6, <3>1 DEF Heard
      <3> QED BY <2>6, <3>2, IdleTurnKeeps, OpenTurnKeeps
    <2> QED BY <2>4, <2>5, <2>6
  <1>5. ASSUME NEW t \in Threads,
               \/ Arm(t) \/ BeginUtterance(t) \/ FeedPTT(t) \/ FeedWake(t) \/ FeedEnd(t)
               \/ EndUtterance(t) \/ Transcribe(t) \/ Mark(t) \/ Text(t) \/ Take(t) \/ Record(t)
               \/ Settle(t)
        PROVE  UNCHANGED detVars
    BY <1>5 DEF Arm, BeginUtterance, FeedPTT, FeedWake, FeedEnd, EndUtterance, Transcribe, Mark,
                Text, Take, Record, Settle
  <1>6. UNCHANGED vars => UNCHANGED detVars
    BY DEF vars
  <1> QED BY <1>2, <1>3, <1>4, <1>5, <1>6 DEF Next

LEMMA SpeechInitInv == Init => SpeechInv
  <1> SUFFICES ASSUME Init PROVE SpeechInv
    OBVIOUS
  <1>1. /\ det.done = 0 /\ det.from = 0 /\ det.inSpeech = FALSE /\ det.speechRun = 0
        /\ det.out = <<>> /\ heard = <<>> /\ disarmedAt = 0
    BY DEF Init, NewDetector
  <1>2. Len(heard) = 0 /\ DOMAIN heard = {} /\ DOMAIN det.out = {} /\ Frames(0) = 0
    BY <1>1, FramesLaws
  <1>3. HeardFits /\ RunFits
    <2>1. Len(heard) - det.speechRun = 0
      BY <1>1, <1>2
    <2> QED BY <1>1, <1>2, <2>1, CaptureConstants DEF HeardFits, RunFits
  <1> QED BY <1>1, <1>2, <1>3 DEF SpeechInv, OpenFits, SpeechIsKept, SilenceTrimmed

LEMMA SpeechInvariant == Spec => []SpeechInv
  <1>1. CaptureInv /\ CaptureInv' /\ SpeechInv /\ [Next]_vars => SpeechInv'
    BY SpeechStep DEF CaptureInv
  <1> QED BY <1>1, SpeechInitInv, CaptureInvariant, PTL DEF Spec

\* Whatever the frame length, the frames that open and close an utterance, the
\* hang-over, the cap and the chunks, a run of speech long enough to count that
\* the cap did not cut is in an utterance from its first frame to its last
\* (processFrame, trimTail, reset): a pre-roll as long as the frames that open an
\* utterance is enough for that.
THEOREM SpeechIsNotLost == Spec => []SpeechIsKept
  <1>1. SpeechInv => SpeechIsKept
    BY DEF SpeechInv
  <1> QED BY <1>1, SpeechInvariant, PTL

\* Since the last Disarm, every utterance ends in a frame of speech or no later
\* than the hang-over after one, for any hang-over, shorter than a frame or longer
\* than the silence that closes an utterance (trimTail).
THEOREM TailIsTrimmed == Spec => []SilenceTrimmed
  <1>1. SpeechInv => SilenceTrimmed
    BY DEF SpeechInv
  <1> QED BY <1>1, SpeechInvariant, PTL
=============================================================================
