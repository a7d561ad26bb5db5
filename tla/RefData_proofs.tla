----------------------------- MODULE RefData_proofs -----------------------------
(***************************************************************************)
(* Proofs about RefData, for every set of threads and any number of        *)
(* versions and of syncers.                                                *)
(***************************************************************************)
EXTENDS RefData, TLAPS

\* Nobody knows of a version the backend has not published.
Known ==
    /\ etag <= published
    /\ \A t \in Pullers : sent[t] <= published /\ got[t] <= published

\* A call that no other overlapped has the store to itself; calls that overlap
\* taint it.
Solitude ==
    /\ \A t \in alone : refPc[t] # "ready" /\ \A u \in Pullers \ {t} : refPc[u] = "ready"
    /\ ~ tainted => \A t \in Pullers : refPc[t] # "ready" => t \in alone

NothingGotYet == \A t \in Pullers : refPc[t] \in {"ready", "lock", "ask"} => got[t] = 0

Writing == {"locations", "parts", "units", "tag"}
Reading == {"readLocations", "readParts", "readUnits", "install"}

\* How far a call that is alone has brought the store from the set its etag
\* names to the one it got.
Brought(t) ==
    /\ refPc[t] = "ask" => sent[t] = etag
    /\ refPc[t] \in Writing => sent[t] < got[t] /\ etag = sent[t]
    /\ refPc[t] \in {"parts", "units", "tag"} => table["locations"] = got[t]
    /\ refPc[t] \in {"units", "tag"} => table["parts"] = got[t]
    /\ refPc[t] = "tag" => table["units"] = got[t]
    /\ refPc[t] \in Reading =>
          /\ got[t] # 0 => etag <= got[t] /\ \A k \in Tables : table[k] = got[t]
          /\ got[t] = 0 /\ ~ tainted => \A k \in Tables : table[k] = sent[t]

\* What it has read is what the tables hold.
Seen(t) ==
    /\ refPc[t] \in {"readParts", "readUnits", "install"} => read[t]["locations"] = table["locations"]
    /\ refPc[t] \in {"readUnits", "install"} => read[t]["parts"] = table["parts"]
    /\ refPc[t] = "install" => read[t]["units"] = table["units"]

AloneFits == \A t \in alone : Brought(t) /\ Seen(t)

RefInv ==
    /\ RefTypeOK
    /\ Known
    /\ Solitude
    /\ NothingGotYet
    /\ AloneFits
    /\ NotModifiedIsTrue

Delivered ==
    \A t \in Pullers :
        Install(t) /\ t \in alone /\ (~ tainted \/ got[t] # 0) =>
            \A k \in Tables : index'[k] = Answered(t)

-----------------------------------------------------------------------------

LEMMA RefConstants == MaxVersion \in Nat \ {0} /\ MaxSyncers \in Nat \ {0}
  BY RefAssumption

LEMMA RefInitInv == RefInit => RefInv
  <1>1. RefInit => RefTypeOK
    <2>1. 0 \in Versions /\ 1 \in Versions \ {0} /\ 1 \in 1 .. MaxSyncers
      BY RefConstants DEF Versions
    <2>2. Nothing \in [Tables -> Versions]
      BY <2>1 DEF Nothing
    <2> QED BY <2>1, <2>2 DEF RefInit, RefTypeOK, RefSteps
  <1>2. RefInit => Known /\ Solitude /\ NothingGotYet /\ AloneFits /\ NotModifiedIsTrue
    BY DEF RefInit, Known, Solitude, NothingGotYet, AloneFits, NotModifiedIsTrue
  <1> QED BY <1>1, <1>2 DEF RefInv

LEMMA PullBeginKeeps ==
    ASSUME RefInv, NEW t \in Pullers, PullBegin(t)
    PROVE  RefInv'
  <1> USE DEF RefInv
  <1>1. RefTypeOK'
    BY DEF PullBegin, RefTypeOK, RefGo, RefSteps, cacheVars
  <1>2. (Known /\ NothingGotYet /\ NotModifiedIsTrue)'
    BY DEF PullBegin, Known, NothingGotYet, NotModifiedIsTrue, RefGo, RefTypeOK, cacheVars
  <1>3. alone' \subseteq {t} /\ refPc'[t] = "lock"
    BY DEF PullBegin, Solitude, RefGo, RefTypeOK
  <1>4. Solitude'
    BY DEF PullBegin, Solitude, RefGo, RefTypeOK
  <1>5. AloneFits'
    BY <1>3 DEF AloneFits, Brought, Seen, Writing, Reading
  <1> QED BY <1>1, <1>2, <1>4, <1>5

\* A thread that moves when one is alone is that one.
LEMMA AloneMoves ==
    ASSUME RefInv, NEW t \in Pullers, refPc[t] # "ready"
    PROVE  alone \subseteq {t}
  BY DEF RefInv, Solitude, RefTypeOK

LEMMA AskKeeps ==
    ASSUME RefInv, NEW t \in Pullers, PullLock(t) \/ PullAsk(t)
    PROVE  RefInv'
  <1> USE DEF RefInv
  <1>0. alone' \subseteq {t} /\ alone' = alone
    BY AloneMoves DEF PullLock, PullAsk, ghostVars
  <1>1. CASE PullLock(t)
    <2>1. RefTypeOK'
      BY <1>1 DEF PullLock, RefTypeOK, RefGo, RefSteps, cacheVars, ghostVars
    <2>2. (Known /\ Solitude /\ NothingGotYet /\ NotModifiedIsTrue)'
      BY <1>1 DEF PullLock, Known, Solitude, NothingGotYet, NotModifiedIsTrue, RefGo, RefTypeOK,
                  cacheVars, ghostVars
    <2>3. AloneFits'
      BY <1>0, <1>1 DEF PullLock, AloneFits, Brought, Seen, Writing, Reading, RefGo, RefTypeOK,
                        cacheVars, ghostVars
    <2> QED BY <2>1, <2>2, <2>3
  <1>2. CASE PullAsk(t)
    <2>0. published \in Nat /\ sent[t] \in Nat /\ published # 0 /\ got[t] = 0
      BY <1>2 DEF PullAsk, RefTypeOK, Versions, NothingGotYet
    <2>1. RefTypeOK'
      BY <1>2 DEF PullAsk, RefTypeOK, RefGo, RefSteps, cacheVars, ghostVars
    <2>2. Known'
      BY <1>2, <2>0 DEF PullAsk, Known, RefTypeOK, cacheVars, ghostVars
    <2>3. (Solitude /\ NothingGotYet /\ NotModifiedIsTrue)'
      BY <1>2 DEF PullAsk, Solitude, NothingGotYet, NotModifiedIsTrue, RefGo, RefTypeOK,
                  cacheVars, ghostVars
    <2>4. CASE sent[t] = published
      <3>1. t \in alone /\ ~ tainted => \A k \in Tables : table[k] = sent[t]
        BY <1>2, <2>4 DEF PullAsk, AloneFits, Brought, NotModifiedIsTrue
      <3>2. got' = got /\ refPc' = [refPc EXCEPT ![t] = "readLocations"]
        BY <1>2, <2>4 DEF PullAsk, RefGo
      <3>3. AloneFits'
        BY <1>0, <1>2, <2>0, <3>1, <3>2
           DEF PullAsk, AloneFits, Brought, Seen, Writing, Reading, RefTypeOK, cacheVars, ghostVars
      <3> QED BY <2>1, <2>2, <2>3, <3>3
    <2>5. CASE sent[t] # published
      <3>1. sent[t] < published /\ (t \in alone => etag = sent[t])
        BY <1>2, <2>0, <2>5 DEF PullAsk, AloneFits, Brought, Known
      <3>2. got' = [got EXCEPT ![t] = published] /\ refPc' = [refPc EXCEPT ![t] = "locations"]
        BY <1>2, <2>5 DEF PullAsk, RefGo
      <3>3. AloneFits'
        BY <1>0, <1>2, <2>0, <3>1, <3>2
           DEF PullAsk, AloneFits, Brought, Seen, Writing, Reading, RefTypeOK, cacheVars, ghostVars
      <3> QED BY <2>1, <2>2, <2>3, <3>3
    <2> QED BY <2>4, <2>5
  <1> QED BY <1>1, <1>2

\* While a call that is alone writes, the etag is not the backend's.
LEMMA WriterIsBehind ==
    ASSUME RefInv, NEW t \in Pullers, refPc[t] \in Writing, ~ tainted
    PROVE  t \in alone /\ etag = sent[t] /\ sent[t] < got[t] /\ got[t] <= published
           /\ etag # published
  <1>1. t \in alone
    BY DEF RefInv, Solitude, Writing
  <1>2. etag = sent[t] /\ sent[t] < got[t] /\ got[t] <= published
    BY <1>1 DEF RefInv, AloneFits, Brought, Known
  <1>3. etag \in Nat /\ sent[t] \in Nat /\ got[t] \in Nat /\ published \in Nat
    BY DEF RefInv, RefTypeOK, Versions
  <1> QED BY <1>1, <1>2, <1>3

LEMMA WriteKeeps ==
    ASSUME RefInv, NEW t \in Pullers, PullLocations(t) \/ PullParts(t) \/ PullUnits(t)
    PROVE  RefInv'
  <1> USE DEF RefInv
  <1> DEFINE k == IF refPc[t] = "locations" THEN "locations"
                  ELSE IF refPc[t] = "parts" THEN "parts" ELSE "units"
             next == IF refPc[t] = "locations" THEN "parts"
                     ELSE IF refPc[t] = "parts" THEN "units" ELSE "tag"
  <1>1. /\ refPc[t] \in Writing \ {"tag"}
        /\ Replace(t, k)
        /\ RefGo(t, next)
        /\ UNCHANGED <<published, etag, index, syncer, using, sent, got, read, alone, tainted>>
    BY DEF PullLocations, PullParts, PullUnits, Writing, pullVars, ghostVars
  <1>2. RefTypeOK'
    BY <1>1 DEF RefTypeOK, RefGo, RefSteps, Replace, Tables
  <1>3. (Known /\ Solitude /\ NothingGotYet)'
    BY <1>1 DEF Known, Solitude, NothingGotYet, RefGo, RefTypeOK, Writing
  <1>4. NotModifiedIsTrue'
    BY <1>1, WriterIsBehind DEF NotModifiedIsTrue
  <1>5. alone' \subseteq {t} /\ alone' = alone
    BY <1>1, AloneMoves DEF Writing
  <1>6. AloneFits'
    BY <1>1, <1>5 DEF AloneFits, Brought, Seen, Writing, Reading, RefGo, Replace, RefTypeOK, Tables
  <1> QED BY <1>2, <1>3, <1>4, <1>6

LEMMA TagKeeps ==
    ASSUME RefInv, NEW t \in Pullers, PullTag(t)
    PROVE  RefInv'
  <1> USE DEF RefInv
  <1>1. /\ refPc[t] = "tag"
        /\ etag' \in {got[t], etag}
        /\ RefGo(t, "readLocations")
        /\ UNCHANGED <<published, table, index, syncer, using, sent, got, read, alone, tainted>>
    BY DEF PullTag, pullVars, ghostVars
  <1>2. RefTypeOK'
    BY <1>1 DEF RefTypeOK, RefGo, RefSteps
  <1>3. (Known /\ Solitude /\ NothingGotYet)'
    BY <1>1 DEF Known, Solitude, NothingGotYet, RefGo, RefTypeOK
  <1>4. alone' \subseteq {t} /\ alone' = alone
    BY <1>1, AloneMoves
  <1>5. t \in alone =>
           /\ sent[t] < got[t] /\ etag = sent[t]
           /\ \A k \in Tables : table[k] = got[t]
    BY <1>1 DEF AloneFits, Brought, Writing, Tables
  <1>6. NotModifiedIsTrue'
    BY <1>1, <1>5, WriterIsBehind DEF NotModifiedIsTrue, Writing
  <1>7. sent[t] \in Nat /\ got[t] \in Nat /\ etag \in Nat
    BY DEF RefTypeOK, Versions
  <1>8. AloneFits'
    <2>1. refPc'[t] = "readLocations"
      BY <1>1 DEF RefGo, RefTypeOK
    <2>2. t \in alone => got[t] # 0 /\ etag' <= got[t]
      BY <1>1, <1>5, <1>7
    <2>3. t \in alone => Brought(t)' /\ Seen(t)'
      BY <1>1, <1>5, <2>1, <2>2 DEF Brought, Seen, Writing, Reading
    <2> QED BY <1>4, <2>3 DEF AloneFits
  <1> QED BY <1>2, <1>3, <1>6, <1>8

LEMMA ReadKeeps ==
    ASSUME RefInv, NEW t \in Pullers,
           RefreshLocations(t) \/ RefreshParts(t) \/ RefreshUnits(t)
    PROVE  RefInv'
  <1> USE DEF RefInv
  <1> DEFINE k == IF refPc[t] = "readLocations" THEN "locations"
                  ELSE IF refPc[t] = "readParts" THEN "parts" ELSE "units"
             next == IF refPc[t] = "readLocations" THEN "readParts"
                     ELSE IF refPc[t] = "readParts" THEN "readUnits" ELSE "install"
  <1>1. /\ refPc[t] \in Reading \ {"install"}
        /\ read' = [read EXCEPT ![t][k] = table[k]]
        /\ RefGo(t, next)
        /\ UNCHANGED <<published, table, etag, index, syncer, using, sent, got, alone, tainted>>
    BY DEF RefreshLocations, RefreshParts, RefreshUnits, ReadTable, Reading, cacheVars, ghostVars
  <1>2. k \in Tables
    BY DEF Tables
  <1>3. read' = [read EXCEPT ![t] = [read[t] EXCEPT ![k] = table[k]]]
    BY <1>1
  <1>4. [read[t] EXCEPT ![k] = table[k]] \in [Tables -> Versions]
    BY <1>2 DEF RefTypeOK
  <1>5. RefTypeOK'
    BY <1>1, <1>3, <1>4 DEF RefTypeOK, RefGo, RefSteps
  <1>6. (Known /\ Solitude /\ NothingGotYet /\ NotModifiedIsTrue)'
    BY <1>1 DEF Known, Solitude, NothingGotYet, NotModifiedIsTrue, RefGo, RefTypeOK, Reading
  <1>7. alone' \subseteq {t} /\ alone' = alone
    BY <1>1, AloneMoves DEF Reading
  <1>8. t \in alone => Brought(t)'
    BY <1>1 DEF AloneFits, Brought, Writing, Reading, RefGo, RefTypeOK
  <1>9. t \in alone => Seen(t)'
    BY <1>1, <1>3 DEF AloneFits, Seen, Reading, RefGo, RefTypeOK, Tables
  <1> QED BY <1>5, <1>6, <1>7, <1>8, <1>9 DEF AloneFits

\* A call that returns leaves nobody alone.
LEMMA ReturnKeeps ==
    ASSUME RefInv, NEW t \in Pullers, refPc[t] # "ready", RefReturn(t),
           UNCHANGED <<published, table, etag, syncer>>,
           index' \in [Tables -> Versions],
           tainted' \in BOOLEAN,
           tainted' => tainted,
           tainted /\ ~ tainted' => t \in alone,
           NotModifiedIsTrue'
    PROVE  RefInv'
  <1> USE DEF RefInv
  <1>1. Nothing \in [Tables -> Versions] /\ 0 \in Versions /\ 1 \in 1 .. MaxSyncers
    BY RefConstants DEF Nothing, Versions
  <1>2. RefTypeOK'
    BY <1>1 DEF RefTypeOK, RefReturn, RefGo, RefSteps
  <1>3. (Known /\ NothingGotYet)'
    BY DEF Known, NothingGotYet, RefReturn, RefGo, RefTypeOK, Versions
  <1>4. alone' = {}
    BY AloneMoves DEF RefReturn
  <1>5. Solitude'
    BY <1>4 DEF Solitude, RefReturn, RefGo, RefTypeOK
  <1> QED BY <1>2, <1>3, <1>4, <1>5 DEF AloneFits

LEMMA FailKeeps ==
    ASSUME RefInv, NEW t \in Pullers, PullFails(t)
    PROVE  RefInv'
  <1>1. /\ refPc[t] # "ready" /\ RefReturn(t)
        /\ UNCHANGED <<published, table, etag, index, syncer, tainted>>
    BY DEF PullFails, cacheVars
  <1>2. index' \in [Tables -> Versions] /\ tainted' \in BOOLEAN /\ NotModifiedIsTrue'
    BY <1>1 DEF RefInv, RefTypeOK, NotModifiedIsTrue
  <1>3. (tainted' => tainted) /\ ~ (tainted /\ ~ tainted')
    BY <1>1
  <1> QED BY <1>1, <1>2, <1>3, ReturnKeeps

\* What a call that is alone installs is what it was answered.
LEMMA InstallGives ==
    ASSUME RefInv, NEW t \in Pullers, Install(t), t \in alone, ~ tainted \/ got[t] # 0
    PROVE  /\ \A k \in Tables : read[t][k] = table[k] /\ table[k] = Answered(t)
           /\ index' = read[t]
  <1>1. refPc[t] = "install" /\ index' = read[t]
    BY DEF Install, Installed
  <1>2. Brought(t) /\ Seen(t)
    BY DEF RefInv, AloneFits
  <1>3. \A k \in Tables : read[t][k] = table[k]
    BY <1>1, <1>2 DEF Seen, Tables
  <1>4. \A k \in Tables : table[k] = Answered(t)
    BY <1>1, <1>2 DEF Brought, Reading, Answered
  <1> QED BY <1>1, <1>3, <1>4

LEMMA InstallKeeps ==
    ASSUME RefInv, NEW t \in Pullers, Install(t)
    PROVE  RefInv'
  <1>1. /\ refPc[t] # "ready" /\ RefReturn(t)
        /\ UNCHANGED <<published, table, etag, syncer>>
        /\ index' = read[t]
        /\ tainted' = (tainted /\ ~ (t \in alone /\ got[t] # 0))
    BY DEF Install, Installed, cacheVars
  <1>2. index' \in [Tables -> Versions] /\ tainted' \in BOOLEAN
    BY <1>1 DEF RefInv, RefTypeOK
  <1>3. (tainted' => tainted) /\ (tainted /\ ~ tainted' => t \in alone /\ got[t] # 0)
    BY <1>1
  <1>4. NotModifiedIsTrue'
    <2>1. CASE tainted /\ ~ tainted'
      <3>1. t \in alone /\ got[t] # 0
        BY <1>3, <2>1
      <3>2. etag <= got[t] /\ \A k \in Tables : table[k] = got[t]
        BY <3>1 DEF Install, RefInv, AloneFits, Brought, Reading
      <3>3. got[t] <= published /\ got[t] \in Nat /\ published \in Nat /\ etag \in Nat
        BY DEF RefInv, Known, RefTypeOK, Versions
      <3>4. etag = published => got[t] = published
        BY <3>2, <3>3
      <3> QED BY <1>1, <3>2, <3>4 DEF NotModifiedIsTrue
    <2>2. CASE tainted' \/ ~ tainted
      BY <1>1, <2>2 DEF RefInv, NotModifiedIsTrue
    <2> QED BY <2>1, <2>2
  <1> QED BY <1>1, <1>2, <1>3, <1>4, ReturnKeeps

LEMMA AroundKeeps ==
    ASSUME RefInv, Publish \/ ReplaceSyncer \/ RefRestart
    PROVE  RefInv'
  <1> USE DEF RefInv
  <1>1. CASE Publish
    <2>0. published \in Nat /\ published < MaxVersion /\ published' = published + 1
          /\ etag \in Nat /\ got \in [Pullers -> Nat] /\ sent \in [Pullers -> Nat]
      BY <1>1 DEF Publish, RefTypeOK, Versions
    <2>1. RefTypeOK'
      <3>1. published' \in Versions \ {0}
        BY <2>0, RefConstants DEF Versions
      <3> QED BY <1>1, <3>1 DEF Publish, RefTypeOK, cacheVars, pullVars, ghostVars
    <2>2. Known' /\ NotModifiedIsTrue'
      BY <1>1, <2>0 DEF Publish, Known, NotModifiedIsTrue, cacheVars, pullVars, ghostVars
    <2>3. (Solitude /\ NothingGotYet /\ AloneFits)'
      BY <1>1 DEF Publish, Solitude, NothingGotYet, AloneFits, Brought, Seen, cacheVars,
                  pullVars, ghostVars
    <2> QED BY <2>1, <2>2, <2>3
  <1>2. CASE ReplaceSyncer
    <2>1. RefTypeOK'
      BY <1>2, RefConstants DEF ReplaceSyncer, RefTypeOK, cacheVars, pullVars, ghostVars
    <2> QED BY <1>2, <2>1
            DEF ReplaceSyncer, Known, Solitude, NothingGotYet, AloneFits, Brought, Seen,
                NotModifiedIsTrue, cacheVars, pullVars, ghostVars
  <1>3. CASE RefRestart
    <2>0. Nothing \in [Tables -> Versions] /\ 0 \in Versions /\ 1 \in 1 .. MaxSyncers
      BY RefConstants DEF Nothing, Versions
    <2>1. RefTypeOK'
      BY <1>3, <2>0 DEF RefRestart, RefTypeOK, RefSteps, cacheVars
    <2>2. published \in Nat
      BY DEF RefTypeOK, Versions
    <2> QED BY <1>3, <2>1, <2>2
            DEF RefRestart, Known, Solitude, NothingGotYet, AloneFits, NotModifiedIsTrue, cacheVars
  <1> QED BY <1>1, <1>2, <1>3

LEMMA RefStepInv == RefInv /\ [RefNext]_refVars => RefInv' /\ [Delivered]_refVars
  <1> SUFFICES ASSUME RefInv, [RefNext]_refVars
               PROVE  RefInv' /\ Delivered
    OBVIOUS
  <1>1. UNCHANGED refVars => RefInv'
    BY DEF RefInv, RefTypeOK, Known, Solitude, NothingGotYet, AloneFits, Brought, Seen,
                NotModifiedIsTrue, refVars, pullVars, ghostVars
  <1>2. RefNext => RefInv'
    BY PullBeginKeeps, AskKeeps, WriteKeeps, TagKeeps, ReadKeeps, InstallKeeps, FailKeeps,
       AroundKeeps DEF RefNext, PullStep
  <1>3. Delivered
    BY InstallGives DEF Delivered
  <1> QED BY <1>1, <1>2, <1>3

LEMMA RefInvariant == RefSpec => []RefInv /\ [][Delivered]_refVars
  BY RefInitInv, RefStepInv, PTL DEF RefSpec

-----------------------------------------------------------------------------

\* Every variable of the reference data keeps its type.
THEOREM RefTypes == RefSpec => []RefTypeOK
  <1>1. RefInv => RefTypeOK
    BY DEF RefInv
  <1> QED BY <1>1, RefInvariant, PTL

\* Unless pulls overlapped on two syncers, a 304 means the tables hold the
\* backend's set: a pull that failed or died between two of its transactions is
\* not taken for a complete one (PullRefData).
THEOREM EtagTellsTheTruth == RefSpec => []NotModifiedIsTrue
  <1>1. RefInv => NotModifiedIsTrue
    BY DEF RefInv
  <1> QED BY <1>1, RefInvariant, PTL

\* A call of SyncPull that no other overlapped installs exactly the set the
\* backend answered with or agreed to (PullRefData, RefreshRefData).
THEOREM PullInstallsWhatItGot == RefSpec => PullDelivers
  <1>1. [Delivered]_refVars =>
           [\A t \in Pullers :
               Install(t) /\ t \in alone /\ (~ tainted \/ got[t] # 0) =>
                   \A k \in Tables : index'[k] = Answered(t)]_refVars
    BY DEF Delivered
  <1> QED BY <1>1, RefInvariant, PTL DEF PullDelivers
=============================================================================
