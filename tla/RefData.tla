-------------------------------- MODULE RefData --------------------------------
(***************************************************************************)
(* Reference data: the backend's set, the three cached tables and the etag *)
(* in the device's store, and the index the session resolves against       *)
(* (syncer.go: PullRefData; session.go: RefreshRefData; mobile.go:         *)
(* SyncPull).  A set is a version number: the backend only ever publishes  *)
(* a new one, and its ETag names it.  Each table is replaced in a          *)
(* transaction of its own, the etag in a fourth; the session then reads    *)
(* the tables back one by one, outside the syncer's mutex, and installs    *)
(* the index.                                                              *)
(*                                                                         *)
(* SetConfigJSON drops the syncer, so a later pull runs under a new mutex  *)
(* while one on the old syncer may still be going.                         *)
(***************************************************************************)
EXTENDS Integers, FiniteSets

CONSTANTS
    Pullers,        \* threads that call SyncPull
    MaxVersion,     \* bound: sets the backend publishes
    MaxSyncers      \* bound: syncers made in the life of a process

ASSUME RefAssumption ==
    /\ MaxVersion \in Nat \ {0}
    /\ MaxSyncers \in Nat \ {0}

Tables == {"locations", "parts", "units"}

VARIABLES
    published,      \* backend: the version of its set and of its ETag
    table,          \* store: the version each table holds; 0 when never pulled
    etag,           \* store: sync_state["refdata_etag"]; 0 for ""
    index,          \* session: the version of each part of the resolver
    syncer,         \* app: which syncer a.sync is
    refPc,          \* where each thread is
    using,          \* the syncer a thread's call got
    sent,           \* the etag it sends
    got,            \* the version it was answered, 0 for a 304
    read,           \* what RefreshRefData has read so far
    alone,          \* history: threads whose call no other overlapped
    tainted         \* history: overlapping calls may have mixed versions

backendVars == <<published>>
cacheVars == <<table, etag>>
pullVars == <<using, sent, got, read>>
ghostVars == <<alone, tainted>>
refVars == <<published, table, etag, index, syncer, refPc, pullVars, ghostVars>>

Versions == 0 .. MaxVersion

RefSteps == {"ready", "lock", "ask", "locations", "parts", "units", "tag",
             "readLocations", "readParts", "readUnits", "install"}

RefTypeOK ==
    /\ published \in Versions \ {0}
    /\ table \in [Tables -> Versions]
    /\ etag \in Versions
    /\ index \in [Tables -> Versions]
    /\ syncer \in 1 .. MaxSyncers
    /\ refPc \in [Pullers -> RefSteps]
    /\ using \in [Pullers -> 1 .. MaxSyncers]
    /\ sent \in [Pullers -> Versions]
    /\ got \in [Pullers -> Versions]
    /\ read \in [Pullers -> [Tables -> Versions]]
    /\ alone \subseteq Pullers
    /\ tainted \in BOOLEAN

Nothing == [k \in Tables |-> 0]

RefInit ==
    /\ published = 1
    /\ table = Nothing
    /\ etag = 0
    /\ index = Nothing
    /\ syncer = 1
    /\ refPc = [t \in Pullers |-> "ready"]
    /\ using = [t \in Pullers |-> 1]
    /\ sent = [t \in Pullers |-> 0]
    /\ got = [t \in Pullers |-> 0]
    /\ read = [t \in Pullers |-> Nothing]
    /\ alone = {}
    /\ tainted = FALSE

RefGo(t, step) == refPc' = [refPc EXCEPT ![t] = step]

Pulling(t) == refPc[t] \in {"ask", "locations", "parts", "units", "tag"}

\* The call returns; its locals are gone.
RefReturn(t) ==
    /\ RefGo(t, "ready")
    /\ using' = [using EXCEPT ![t] = 1]
    /\ sent' = [sent EXCEPT ![t] = 0]
    /\ got' = [got EXCEPT ![t] = 0]
    /\ read' = [read EXCEPT ![t] = Nothing]
    /\ alone' = alone \ {t}

\* With an error; the syncer's mutex, if held, is released.
PullFails(t) ==
    /\ refPc[t] \notin {"ready", "lock", "install"}
    /\ RefReturn(t)
    /\ UNCHANGED <<published, cacheVars, index, syncer, tainted>>

-----------------------------------------------------------------------------
(* SyncPull. *)

\* ensureSyncer
PullBegin(t) ==
    LET others == {u \in Pullers \ {t} : refPc[u] # "ready"}
    IN /\ refPc[t] = "ready"
       /\ using' = [using EXCEPT ![t] = syncer]
       /\ alone' = IF others = {} THEN alone \cup {t} ELSE alone \ (others \cup {t})
       /\ tainted' = (tainted \/ others # {})
       /\ RefGo(t, "lock")
       /\ UNCHANGED <<published, cacheVars, index, syncer, sent, got, read>>

\* h.mu is taken and the etag of the last complete pull is read.
PullLock(t) ==
    /\ refPc[t] = "lock"
    /\ \A u \in Pullers : Pulling(u) => using[u] # using[t]
    /\ sent' = [sent EXCEPT ![t] = etag]
    /\ RefGo(t, "ask")
    /\ UNCHANGED <<published, cacheVars, index, syncer, using, got, read, ghostVars>>

\* GET /v1/refdata: 304 when the etag sent is the current one, else the set.
PullAsk(t) ==
    /\ refPc[t] = "ask"
    /\ \/ /\ sent[t] = published
          /\ RefGo(t, "readLocations")
          /\ UNCHANGED got
       \/ /\ sent[t] # published
          /\ got' = [got EXCEPT ![t] = published]
          /\ RefGo(t, "locations")
    /\ UNCHANGED <<published, cacheVars, index, syncer, using, sent, read, ghostVars>>

Replace(t, k) == table' = [table EXCEPT ![k] = got[t]]

PullLocations(t) ==
    /\ refPc[t] = "locations"
    /\ Replace(t, "locations")
    /\ RefGo(t, "parts")
    /\ UNCHANGED <<published, etag, index, syncer, pullVars, ghostVars>>

\* Faulty variant: the etag is saved with the first table.
PullPartsAndTag(t) ==
    /\ refPc[t] = "parts"
    /\ Replace(t, "parts")
    /\ etag' = got[t]
    /\ RefGo(t, "units")
    /\ UNCHANGED <<published, index, syncer, pullVars, ghostVars>>

PullParts(t) ==
    /\ refPc[t] = "parts"
    /\ Replace(t, "parts")
    /\ RefGo(t, "units")
    /\ UNCHANGED <<published, etag, index, syncer, pullVars, ghostVars>>

PullUnits(t) ==
    /\ refPc[t] = "units"
    /\ Replace(t, "units")
    /\ RefGo(t, "tag")
    /\ UNCHANGED <<published, etag, index, syncer, pullVars, ghostVars>>

\* The answer may come without an ETag; the stored one then stays.
PullTag(t) ==
    /\ refPc[t] = "tag"
    /\ etag' \in {got[t], etag}
    /\ RefGo(t, "readLocations")
    /\ UNCHANGED <<published, table, index, syncer, pullVars, ghostVars>>

-----------------------------------------------------------------------------
(* RefreshRefData. *)

ReadTable(t, k) ==
    /\ read' = [read EXCEPT ![t][k] = table[k]]
    /\ UNCHANGED <<published, cacheVars, index, syncer, using, sent, got, ghostVars>>

RefreshLocations(t) ==
    refPc[t] = "readLocations" /\ RefGo(t, "readParts") /\ ReadTable(t, "locations")

RefreshParts(t) ==
    refPc[t] = "readParts" /\ RefGo(t, "readUnits") /\ ReadTable(t, "parts")

RefreshUnits(t) ==
    refPc[t] = "readUnits" /\ RefGo(t, "install") /\ ReadTable(t, "units")

\* Faulty variant: the units in use are kept.
InstallWithoutUnits(t) == [read[t] EXCEPT !["units"] = index["units"]]

Installed(t) == read[t]

\* A call that ran alone and was answered the whole set has repaired whatever
\* calls before it mixed up.
Install(t) ==
    /\ refPc[t] = "install"
    /\ index' = Installed(t)
    /\ tainted' = (tainted /\ ~ (t \in alone /\ got[t] # 0))
    /\ RefReturn(t)
    /\ UNCHANGED <<published, cacheVars, syncer>>

-----------------------------------------------------------------------------
(* Around it. *)

\* The backend's set changes.
Publish ==
    /\ published < MaxVersion
    /\ published' = published + 1
    /\ UNCHANGED <<cacheVars, index, syncer, refPc, pullVars, ghostVars>>

\* SetConfigJSON: a.sync = nil, and the next call makes a new one.
ReplaceSyncer ==
    /\ syncer < MaxSyncers
    /\ syncer' = syncer + 1
    /\ UNCHANGED <<published, cacheVars, index, refPc, pullVars, ghostVars>>

\* The process dies; the next one builds its session from the tables.
RefRestart ==
    /\ index' = table
    /\ syncer' = 1
    /\ refPc' = [t \in Pullers |-> "ready"]
    /\ using' = [t \in Pullers |-> 1]
    /\ sent' = [t \in Pullers |-> 0]
    /\ got' = [t \in Pullers |-> 0]
    /\ read' = [t \in Pullers |-> Nothing]
    /\ alone' = {}
    /\ UNCHANGED <<published, cacheVars, tainted>>

PullStep(t) ==
    \/ PullLock(t) \/ PullAsk(t)
    \/ PullLocations(t) \/ PullParts(t) \/ PullUnits(t) \/ PullTag(t)
    \/ RefreshLocations(t) \/ RefreshParts(t) \/ RefreshUnits(t) \/ Install(t)

RefNext ==
    \/ \E t \in Pullers : PullBegin(t) \/ PullStep(t) \/ PullFails(t)
    \/ Publish \/ ReplaceSyncer \/ RefRestart

RefSpec == RefInit /\ [][RefNext]_refVars

-----------------------------------------------------------------------------
(* Correctness. *)

\* A 304 tells the truth: while the stored etag is the backend's current one,
\* every table holds that version - through failed pulls, process death between
\* the four transactions and answers without an ETag.  Only pulls that overlap
\* (on two syncers) can break it (PullRefData).
NotModifiedIsTrue ==
    ~ tainted /\ etag = published => \A k \in Tables : table[k] = published

\* The version the backend had when it answered: the set it sent, or the one the
\* etag it agreed to names.
Answered(t) == IF got[t] = 0 THEN sent[t] ELSE got[t]

\* A call of SyncPull that no other overlapped leaves the session with exactly
\* the set the backend had when it answered, whether it answered with the set
\* or with a 304 (PullRefData, RefreshRefData).
PullDelivers ==
    [][\A t \in Pullers :
          Install(t) /\ t \in alone /\ (~ tainted \/ got[t] # 0) =>
              \A k \in Tables : index'[k] = Answered(t)]_refVars
=============================================================================
