----------------------------- MODULE Settings_proofs -----------------------------
(***************************************************************************)
(* Proofs about Settings, for every set of threads, of operators and of    *)
(* profiles.                                                               *)
(***************************************************************************)
EXTENDS Settings, TLAPS

\* Save runs with the mutex held, so one at a time, and what it renames is the
\* profile in use: nothing changes the profile meanwhile.
OneSaver ==
    \A t, u \in Setters :
        setPc[t] \in {"write", "rename"} /\ setPc[u] \in {"write", "rename"} => t = u

RenamesCfg == \A t \in Setters : setPc[t] = "rename" => temp = cfg

\* A change not yet in the file is owed by a call that has still to save it.
SaveOwed ==
    \/ unsaved
    \/ file = cfg
    \/ \E t \in Setters : setPc[t] \in {"operator", "save", "write", "rename"}

\* A call that no other overlapped has the settings to itself.
LoneIsAlone ==
    /\ \A t \in lone : setPc[t] # "ready" => \A u \in Setters \ {t} : setPc[u] = "ready"
    /\ ~ overlap => \A t \in Setters : setPc[t] # "ready" => t \in lone

\* Its copy goes from the profile in use to the profile in use.
LoneFits ==
    \A t \in lone :
        /\ setPc[t] = "merge" => mine[t].op = cfg.op
        /\ setPc[t] = "swap" => mine[t].op = IF named[t] = NoOp THEN cfg.op ELSE named[t]
        /\ setPc[t] = "operator" => /\ mine[t].op = cfg.op
                                    /\ named[t] # NoOp => lastOp = cfg.op

\* While no calls overlap, only a call between Swap and TellSession keeps the
\* session's operator from being the last one named.
LoginStays ==
    ~ overlap => /\ cfg.op = lastOp
                 /\ sessionOp = lastOp \/ \E t \in Setters : setPc[t] = "operator"

SetInv ==
    /\ SetTypeOK
    /\ FileIsWhole
    /\ OneSaver
    /\ RenamesCfg
    /\ SaveOwed
    /\ LoneIsAlone
    /\ LoneFits
    /\ LoginStays

-----------------------------------------------------------------------------

LEMMA WholeIsNotTorn == \A p \in Profile : p # Torn /\ p.op \in Operators
  BY DEF Profile, Torn

LEMMA SetInitInv == SetInit => SetInv
  <1> SUFFICES ASSUME SetInit PROVE SetInv
    OBVIOUS
  <1>1. SetTypeOK
    BY SettingsAssumption, WholeIsNotTorn DEF SetInit, SetTypeOK, SetSteps
  <1>2. FileIsWhole
    BY SettingsAssumption, WholeIsNotTorn DEF SetInit, FileIsWhole
  <1> QED BY <1>1, <1>2 DEF SetInit, SetInv, OneSaver, RenamesCfg, SaveOwed, LoneIsAlone, LoneFits,
                            LoginStays

\* Who begins alone is alone.
LEMMA BeganKeeps ==
    ASSUME SetInv, NEW t \in Setters, setPc[t] = "ready", Began(t),
           NEW step \in SetSteps \ {"ready"}, SetGo(t, step)
    PROVE  /\ LoneIsAlone'
           /\ lone' \subseteq Setters
           /\ overlap' \in BOOLEAN
           /\ ~ overlap' => ~ overlap
           /\ \A u \in lone' \ {t} : setPc'[u] = "ready"
  BY DEF SetInv, SetTypeOK, Began, LoneIsAlone, SetGo

\* Who moves while another is alone is that one.
LEMMA MovesAlone ==
    ASSUME SetInv, NEW t \in Setters, setPc[t] # "ready"
    PROVE  \A u \in lone \ {t} : setPc[u] = "ready"
  BY DEF SetInv, SetTypeOK, LoneIsAlone

LEMMA SetConfigBeginKeeps ==
    ASSUME SetInv, NEW t \in Setters, SetConfigBegin(t)
    PROVE  SetInv'
  <1> USE DEF SetInv
  <1>1. /\ LoneIsAlone' /\ lone' \subseteq Setters /\ overlap' \in BOOLEAN
        /\ ~ overlap' => ~ overlap
        /\ \A u \in lone' \ {t} : setPc'[u] = "ready"
    BY BeganKeeps DEF SetConfigBegin, SetSteps
  <1>2. SetTypeOK'
    BY <1>1 DEF SetConfigBegin, MergeBase, SetTypeOK, SetGo, SetSteps
  <1>3. (FileIsWhole /\ OneSaver /\ RenamesCfg /\ SaveOwed)'
    BY DEF SetConfigBegin, FileIsWhole, OneSaver, RenamesCfg, SaveOwed, SetGo, SetTypeOK
  <1>4. LoneFits'
    BY <1>1 DEF SetConfigBegin, MergeBase, LoneFits, SetGo, SetTypeOK
  <1>5. LoginStays'
    BY <1>1 DEF SetConfigBegin, LoginStays, SetGo, SetTypeOK
  <1> QED BY <1>1, <1>2, <1>3, <1>4, <1>5

LEMMA MergeKeeps ==
    ASSUME SetInv, NEW t \in Setters, Merge(t)
    PROVE  SetInv'
  <1> USE DEF SetInv
  <1>0. \A u \in lone \ {t} : setPc[u] = "ready"
    BY MovesAlone DEF Merge
  <1>1. CASE SetGo(t, "ready") /\ UNCHANGED <<mine, named>>
    <2>1. SetTypeOK'
      BY <1>1 DEF Merge, SetTypeOK, SetGo, SetSteps, overlapVars
    <2> QED BY <1>1, <2>1
            DEF Merge, FileIsWhole, OneSaver, RenamesCfg, SaveOwed, LoneIsAlone, LoneFits,
                LoginStays, SetGo, SetTypeOK, overlapVars
  <1>2. ASSUME NEW rest \in Profiles, NEW op \in Operators \cup {NoOp},
               mine' = [mine EXCEPT ![t] = [op |-> IF op = NoOp THEN @.op ELSE op, rest |-> rest]],
               named' = [named EXCEPT ![t] = op],
               SetGo(t, "swap")
        PROVE  SetInv'
    <2>1. mine[t].op \in Operators
      BY WholeIsNotTorn DEF SetTypeOK
    <2>2. [op |-> IF op = NoOp THEN mine[t].op ELSE op, rest |-> rest] \in Profile
      BY <2>1 DEF Profile
    <2>3. SetTypeOK'
      BY <1>2, <2>2 DEF Merge, SetTypeOK, SetGo, SetSteps, overlapVars
    <2>4. (FileIsWhole /\ OneSaver /\ RenamesCfg /\ SaveOwed /\ LoneIsAlone /\ LoginStays)'
      BY <1>2 DEF Merge, FileIsWhole, OneSaver, RenamesCfg, SaveOwed, LoneIsAlone, LoginStays,
                  SetGo, SetTypeOK, overlapVars
    <2>5. mine'[t].op = IF op = NoOp THEN mine[t].op ELSE op
      BY <1>2 DEF SetTypeOK
    <2>6. LoneFits'
      BY <1>0, <1>2, <2>5 DEF Merge, LoneFits, SetGo, SetTypeOK, overlapVars
    <2> QED BY <2>3, <2>4, <2>6
  <1> QED BY <1>1, <1>2 DEF Merge

LEMMA SwapKeeps ==
    ASSUME SetInv, NEW t \in Setters, Swap(t)
    PROVE  SetInv'
  <1> USE DEF SetInv
  <1>0. \A u \in lone \ {t} : setPc[u] = "ready"
    BY MovesAlone DEF Swap
  <1>1. SetTypeOK'
    BY DEF Swap, SetTypeOK, SetGo, SetSteps, overlapVars
  <1>2. (FileIsWhole /\ OneSaver /\ RenamesCfg /\ SaveOwed /\ LoneIsAlone)'
    BY DEF Swap, Saving, FileIsWhole, OneSaver, RenamesCfg, SaveOwed, LoneIsAlone, SetGo, SetTypeOK,
           overlapVars
  <1>3. (LoneFits /\ LoginStays)'
    BY <1>0 DEF Swap, LoneIsAlone, LoneFits, LoginStays, SetGo, SetTypeOK, overlapVars
  <1> QED BY <1>1, <1>2, <1>3

LEMMA SetOperatorKeeps ==
    ASSUME SetInv, NEW t \in Setters, SetOperator(t)
    PROVE  SetInv'
  <1> USE DEF SetInv
  <1>1. /\ LoneIsAlone' /\ lone' \subseteq Setters /\ overlap' \in BOOLEAN
        /\ ~ overlap' => ~ overlap
        /\ \A u \in lone' \ {t} : setPc'[u] = "ready"
    BY BeganKeeps DEF SetOperator, SetSteps
  <1>2. PICK op \in Operators :
           /\ cfg' = [cfg EXCEPT !.op = op]
           /\ mine' = [mine EXCEPT ![t] = cfg']
           /\ named' = [named EXCEPT ![t] = op]
           /\ lastOp' = op
    BY DEF SetOperator
  <1>3. cfg' \in Profile /\ cfg'.op = op
    BY <1>2 DEF SetTypeOK, Profile
  <1>4. SetTypeOK'
    BY <1>1, <1>2, <1>3 DEF SetOperator, SetTypeOK, SetGo, SetSteps
  <1>5. (FileIsWhole /\ OneSaver /\ RenamesCfg /\ SaveOwed)'
    BY DEF SetOperator, Saving, FileIsWhole, OneSaver, RenamesCfg, SaveOwed, SetGo, SetTypeOK
  <1>6. (LoneFits /\ LoginStays)'
    BY <1>1, <1>2, <1>3 DEF SetOperator, LoneFits, LoginStays, SetGo, SetTypeOK
  <1> QED BY <1>1, <1>4, <1>5, <1>6

LEMMA TellSessionKeeps ==
    ASSUME SetInv, NEW t \in Setters, TellSession(t)
    PROVE  SetInv'
  <1> USE DEF SetInv
  <1>0. (\A u \in lone \ {t} : setPc[u] = "ready") /\ setPc[t] = "operator"
    BY MovesAlone DEF TellSession
  <1>1. SetTypeOK'
    BY WholeIsNotTorn DEF TellSession, SetTypeOK, SetGo, SetSteps
  <1>2. (FileIsWhole /\ OneSaver /\ RenamesCfg /\ SaveOwed)'
    BY DEF TellSession, FileIsWhole, OneSaver, RenamesCfg, SaveOwed, SetGo, SetTypeOK
  <1>3. LoneIsAlone'
    BY <1>0 DEF TellSession, LoneIsAlone, SetGo, SetTypeOK
  <1>4. LoneFits'
    BY <1>0 DEF TellSession, LoneFits, SetGo, SetTypeOK
  <1>5. LoginStays'
    <2>1. CASE overlap'
      BY <2>1 DEF LoginStays
    <2>2. CASE ~ overlap'
      <3>1. t \in lone /\ (~ overlap \/ named[t] # NoOp)
        BY <1>0, <2>2 DEF TellSession, LoneIsAlone
      <3>2. mine[t].op = cfg.op /\ cfg.op = lastOp
        BY <1>0, <3>1 DEF LoneFits, LoginStays
      <3> QED BY <3>2 DEF TellSession, LoginStays
    <2> QED BY <2>1, <2>2
  <1> QED BY <1>1, <1>2, <1>3, <1>4, <1>5

LEMMA SaveBeginKeeps ==
    ASSUME SetInv, NEW t \in Setters, SaveBegin(t)
    PROVE  SetInv'
  <1> USE DEF SetInv
  <1>1. /\ LoneIsAlone' /\ lone' \subseteq Setters /\ overlap' \in BOOLEAN
        /\ ~ overlap' => ~ overlap
        /\ \A u \in lone' \ {t} : setPc'[u] = "ready"
    <2>1. CASE setPc[t] = "save"
      BY <2>1, MovesAlone DEF SaveBegin, SetTypeOK, LoneIsAlone, SetGo, overlapVars
    <2>2. CASE setPc[t] # "save"
      BY <2>2, BeganKeeps DEF SaveBegin, SetSteps
    <2> QED BY <2>1, <2>2
  <1>2. SetTypeOK'
    BY <1>1 DEF SaveBegin, SetTypeOK, SetGo, SetSteps
  <1>3. (FileIsWhole /\ OneSaver /\ RenamesCfg /\ SaveOwed)'
    BY DEF SaveBegin, Saving, FileIsWhole, OneSaver, RenamesCfg, SaveOwed, SetGo, SetTypeOK
  <1>4. (LoneFits /\ LoginStays)'
    BY <1>1 DEF SaveBegin, LoneFits, LoginStays, SetGo, SetTypeOK
  <1> QED BY <1>1, <1>2, <1>3, <1>4

LEMMA SaveKeeps ==
    ASSUME SetInv, NEW t \in Setters, SaveWrite(t) \/ Rename(t) \/ SaveFails(t)
    PROVE  SetInv'
  <1> USE DEF SetInv
  <1>0. /\ \A u \in lone \ {t} : setPc[u] = "ready"
        /\ UNCHANGED <<cfg, sessionOp, mine, named, lastOp, lone, overlap>>
        /\ setPc[t] \in {"write", "rename"}
        /\ \E step \in {"rename", "ready"} : setPc' = [setPc EXCEPT ![t] = step]
    BY MovesAlone DEF SaveWrite, Rename, SaveFails, SetGo, overlapVars
  <1>1. (LoneIsAlone /\ LoneFits /\ LoginStays)'
    BY <1>0 DEF LoneIsAlone, LoneFits, LoginStays, SetTypeOK
  <1>2. CASE SaveWrite(t)
    <2>1. SetTypeOK'
      BY <1>0, <1>2 DEF SaveWrite, Saved, SetTypeOK, SetGo, SetSteps
    <2>2. (FileIsWhole /\ OneSaver /\ RenamesCfg /\ SaveOwed)'
      BY <1>0, <1>2 DEF SaveWrite, Saved, FileIsWhole, OneSaver, RenamesCfg, SaveOwed, SetGo,
                        SetTypeOK
    <2> QED BY <1>1, <2>1, <2>2
  <1>3. CASE Rename(t)
    <2>1. temp = cfg /\ cfg \in Profile /\ cfg # Torn
      BY <1>3, WholeIsNotTorn DEF Rename, RenamesCfg, SetTypeOK
    <2>2. SetTypeOK'
      BY <1>0, <1>3, <2>1 DEF Rename, SetTypeOK, SetGo, SetSteps
    <2>3. (FileIsWhole /\ OneSaver /\ RenamesCfg /\ SaveOwed)'
      BY <1>0, <1>3, <2>1 DEF Rename, FileIsWhole, OneSaver, RenamesCfg, SaveOwed, SetGo, SetTypeOK
    <2> QED BY <1>1, <2>2, <2>3
  <1>4. CASE SaveFails(t)
    <2>1. SetTypeOK'
      BY <1>0, <1>4 DEF SaveFails, SetTypeOK, SetGo, SetSteps
    <2>2. (FileIsWhole /\ OneSaver /\ RenamesCfg /\ SaveOwed)'
      BY <1>0, <1>4 DEF SaveFails, FileIsWhole, OneSaver, RenamesCfg, SaveOwed, SetGo, SetTypeOK
    <2> QED BY <1>1, <2>1, <2>2
  <1> QED BY <1>2, <1>3, <1>4

LEMMA SetRestartKeeps ==
    ASSUME SetInv, SetRestart
    PROVE  SetInv'
  <1> USE DEF SetInv
  <1>1. PICK p \in Profile :
           cfg' = p /\ unsaved' = (p # file) /\ sessionOp' = p.op /\ lastOp' = p.op
    BY DEF SetRestart
  <1>2. SetTypeOK'
    BY <1>1, WholeIsNotTorn DEF SetRestart, SetTypeOK, SetSteps
  <1> QED BY <1>1, <1>2
          DEF SetRestart, FileIsWhole, OneSaver, RenamesCfg, SaveOwed, LoneIsAlone, LoneFits,
              LoginStays

LEMMA SetStepInv == SetInv /\ [SetNext]_setVars => SetInv'
  <1> SUFFICES ASSUME SetInv, [SetNext]_setVars
               PROVE  SetInv'
    OBVIOUS
  <1>1. CASE UNCHANGED setVars
    BY <1>1 DEF SetInv, SetTypeOK, FileIsWhole, OneSaver, RenamesCfg, SaveOwed, LoneIsAlone,
                LoneFits, LoginStays, setVars, overlapVars
  <1>2. CASE SetNext
    BY <1>2, SetConfigBeginKeeps, MergeKeeps, SwapKeeps, SetOperatorKeeps, TellSessionKeeps,
       SaveBeginKeeps, SaveKeeps, SetRestartKeeps DEF SetNext, SetStep
  <1> QED BY <1>1, <1>2

LEMMA SetInvariant == SetSpec => []SetInv
  BY SetInitInv, SetStepInv, PTL DEF SetSpec

-----------------------------------------------------------------------------

\* Every variable of the settings keeps its type.
THEOREM SetTypes == SetSpec => []SetTypeOK
  <1>1. SetInv => SetTypeOK
    BY DEF SetInv
  <1> QED BY <1>1, SetInvariant, PTL

\* config.json is never a part of a profile, wherever a save stops (config.Save).
THEOREM ConfigIsNeverTorn == SetSpec => []FileIsWhole
  <1>1. SetInv => FileIsWhole
    BY DEF SetInv
  <1> QED BY <1>1, SetInvariant, PTL

\* However the calls overlapped, the last successful save holds the profile in
\* use once they have all returned (SetConfigJSON, SetOperator, SaveConfig).
THEOREM ConfigIsSaved == SetSpec => []SavedAtRest
  <1>1. SetInv => SavedAtRest
    BY DEF SetInv, SaveOwed, SavedAtRest
  <1> QED BY <1>1, SetInvariant, PTL

\* Calls that do not overlap leave the profile and the session with the operator
\* last named (SetOperator, SetConfigJSON).
THEOREM LoginIsKept == SetSpec => []OperatorIsLastLogin
  <1>1. SetInv => OperatorIsLastLogin
    BY DEF SetInv, LoginStays, OperatorIsLastLogin
  <1> QED BY <1>1, SetInvariant, PTL
=============================================================================
