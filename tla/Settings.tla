-------------------------------- MODULE Settings --------------------------------
(***************************************************************************)
(* The device profile: the copy in the app, the operator the session       *)
(* stamps on records, and config.json (mobile.go: NewApp, SetConfigJSON,   *)
(* SetOperator, SaveConfig; config.go: Load, Save).  A profile is the      *)
(* operator id and one value for the rest.  SetConfigJSON copies the       *)
(* profile under the mutex, merges and validates without it, and writes    *)
(* the whole copy back; Save holds the mutex while it writes a temporary   *)
(* file and renames it.                                                    *)
(***************************************************************************)
EXTENDS Integers, FiniteSets

CONSTANTS
    Setters,        \* threads that change settings
    Operators,      \* operator ids
    Profiles        \* values of the rest of the profile

Profile == [op : Operators, rest : Profiles]

\* What NewApp finds when there is no file (config.Default).
CONSTANT DefaultProfile
ASSUME SettingsAssumption == DefaultProfile \in Profile

VARIABLES
    cfg,            \* a.cfg
    sessionOp,      \* s.cfg.OperatorID
    file,           \* config.json; DefaultProfile when missing
    temp,           \* the temporary file of a save in progress
    setPc,          \* where each thread is
    mine,           \* the copy SetConfigJSON works on
    named,          \* the operator the call sets; NoOp for none
    lastOp,         \* history: the operator last set
    unsaved,        \* history: the last save failed, or the profile was overlaid
    lone,           \* history: threads whose call no other overlapped
    overlap         \* history: calls overlapped since an operator was named alone

overlapVars == <<lone, overlap>>
setVars == <<cfg, sessionOp, file, temp, setPc, mine, named, lastOp, unsaved, overlapVars>>

NoOp == "none"
Torn == [part |-> TRUE]         \* a file with part of a profile
NoFile == [missing |-> TRUE]

SetSteps == {"ready", "merge", "swap", "operator", "save", "write", "rename"}

SetTypeOK ==
    /\ cfg \in Profile
    /\ sessionOp \in Operators
    /\ file \in Profile \cup {Torn}
    /\ temp \in Profile \cup {Torn, NoFile}
    /\ setPc \in [Setters -> SetSteps]
    /\ mine \in [Setters -> Profile]
    /\ named \in [Setters -> Operators \cup {NoOp}]
    /\ lastOp \in Operators
    /\ unsaved \in BOOLEAN
    /\ lone \subseteq Setters
    /\ overlap \in BOOLEAN

SetInit ==
    /\ cfg = DefaultProfile
    /\ sessionOp = DefaultProfile.op
    /\ file = DefaultProfile
    /\ temp = NoFile
    /\ setPc = [t \in Setters |-> "ready"]
    /\ mine = [t \in Setters |-> DefaultProfile]
    /\ named = [t \in Setters |-> NoOp]
    /\ lastOp = DefaultProfile.op
    /\ unsaved = FALSE
    /\ lone = {}
    /\ overlap = FALSE

SetGo(t, step) == setPc' = [setPc EXCEPT ![t] = step]

\* Save runs with a.mu held.
Saving == \E t \in Setters : setPc[t] \in {"write", "rename"}

Began(t) ==
    LET others == {u \in Setters \ {t} : setPc[u] # "ready"}
    IN /\ lone' = IF others = {} THEN lone \cup {t} ELSE lone \ (others \cup {t})
       /\ overlap' = (overlap \/ others # {})

-----------------------------------------------------------------------------
(* SetConfigJSON. *)

\* Faulty variant: the document is merged over the file, not over the profile
\* in use.
MergeBaseFile == IF file = Torn THEN DefaultProfile ELSE file

MergeBase == cfg

SetConfigBegin(t) ==
    /\ setPc[t] = "ready" /\ ~ Saving
    /\ mine' = [mine EXCEPT ![t] = MergeBase]
    /\ Began(t)
    /\ SetGo(t, "merge")
    /\ UNCHANGED <<cfg, sessionOp, file, temp, named, lastOp, unsaved>>

\* The document may name an operator or not; an invalid result changes nothing.
Merge(t) ==
    /\ setPc[t] = "merge"
    /\ \/ \E rest \in Profiles, op \in Operators \cup {NoOp} :
             /\ mine' = [mine EXCEPT ![t] =
                           [op |-> IF op = NoOp THEN @.op ELSE op, rest |-> rest]]
             /\ named' = [named EXCEPT ![t] = op]
             /\ SetGo(t, "swap")
       \/ SetGo(t, "ready") /\ UNCHANGED <<mine, named>>
    /\ UNCHANGED <<cfg, sessionOp, file, temp, lastOp, unsaved, overlapVars>>

Swap(t) ==
    /\ setPc[t] = "swap" /\ ~ Saving
    /\ cfg' = mine[t]
    /\ lastOp' = IF named[t] = NoOp THEN lastOp ELSE named[t]
    /\ SetGo(t, "operator")
    /\ UNCHANGED <<sessionOp, file, temp, mine, named, unsaved, overlapVars>>

\* SetOperator: the login flow.
SetOperator(t) ==
    /\ setPc[t] = "ready" /\ ~ Saving
    /\ \E op \in Operators :
          /\ cfg' = [cfg EXCEPT !.op = op]
          /\ mine' = [mine EXCEPT ![t] = cfg']
          /\ named' = [named EXCEPT ![t] = op]
          /\ lastOp' = op
    /\ Began(t)
    /\ SetGo(t, "operator")
    /\ UNCHANGED <<sessionOp, file, temp, unsaved>>

\* The session's own mutex: a.mu is free meanwhile.
TellSession(t) ==
    /\ setPc[t] = "operator"
    /\ sessionOp' = mine[t].op
    /\ overlap' = (overlap /\ ~ (t \in lone /\ named[t] # NoOp))
    /\ SetGo(t, "save")
    /\ UNCHANGED <<cfg, file, temp, mine, named, lastOp, unsaved, lone>>

-----------------------------------------------------------------------------
(* SaveConfig. *)

\* Faulty variant: the file itself is written, without a temporary one.
SaveBeginInPlace(t) ==
    /\ setPc[t] \in {"save", "ready"} /\ ~ Saving
    /\ IF setPc[t] = "save" THEN UNCHANGED overlapVars ELSE Began(t)
    /\ temp' = Torn
    /\ file' = Torn
    /\ SetGo(t, "write")
    /\ UNCHANGED <<cfg, sessionOp, mine, named, lastOp, unsaved>>

SaveBegin(t) ==
    /\ setPc[t] \in {"save", "ready"} /\ ~ Saving
    /\ IF setPc[t] = "save" THEN UNCHANGED overlapVars ELSE Began(t)
    /\ temp' = Torn
    /\ SetGo(t, "write")
    /\ UNCHANGED <<cfg, sessionOp, file, mine, named, lastOp, unsaved>>

\* Faulty variant: a call saves the profile it made itself.
SavedMine(t) == mine[t]

Saved(t) == cfg

SaveWrite(t) ==
    /\ setPc[t] = "write"
    /\ temp' = Saved(t)
    /\ SetGo(t, "rename")
    /\ UNCHANGED <<cfg, sessionOp, file, mine, named, lastOp, unsaved, overlapVars>>

Rename(t) ==
    /\ setPc[t] = "rename"
    /\ file' = temp
    /\ temp' = NoFile
    /\ unsaved' = FALSE
    /\ SetGo(t, "ready")
    /\ UNCHANGED <<cfg, sessionOp, mine, named, lastOp, overlapVars>>

\* The disk refuses: the temporary file is removed, the profile stays changed.
SaveFails(t) ==
    /\ setPc[t] \in {"write", "rename"}
    /\ temp' = NoFile
    /\ unsaved' = TRUE
    /\ SetGo(t, "ready")
    /\ UNCHANGED <<cfg, sessionOp, file, mine, named, lastOp, overlapVars>>

-----------------------------------------------------------------------------

\* The process dies, and NewApp loads the file; its caller may overlay another
\* profile, which nothing saves.  A file that does not parse stops the app.
SetRestart ==
    /\ file # Torn
    /\ \E p \in Profile :
          /\ cfg' = p
          /\ unsaved' = (p # file)
          /\ sessionOp' = p.op
          /\ lastOp' = p.op
    /\ setPc' = [t \in Setters |-> "ready"]
    /\ lone' = {}
    /\ overlap' = FALSE
    /\ UNCHANGED <<file, temp, mine, named>>

SetStep(t) ==
    \/ SetConfigBegin(t) \/ Merge(t) \/ Swap(t) \/ SetOperator(t) \/ TellSession(t)
    \/ SaveBegin(t) \/ SaveWrite(t) \/ Rename(t) \/ SaveFails(t)

SetNext == (\E t \in Setters : SetStep(t)) \/ SetRestart

SetSpec == SetInit /\ [][SetNext]_setVars

-----------------------------------------------------------------------------
(* Correctness. *)

\* "A crash mid-save can't leave a truncated config that blocks the next start"
\* (config.Save).
FileIsWhole == file # Torn

\* Once every call has returned, config.json is the profile in use, however the
\* calls overlapped, unless the last save failed (SaveConfig under a.mu).
SavedAtRest ==
    (\A t \in Setters : setPc[t] = "ready") /\ ~ unsaved => file = cfg

\* Once every call has returned, the operator of the profile, the one stamped
\* on records and the one last named are the same: a settings document that
\* names none keeps the login.  Only calls that overlap can break it.
OperatorIsLastLogin ==
    (\A t \in Setters : setPc[t] = "ready") /\ ~ overlap =>
        cfg.op = lastOp /\ sessionOp = lastOp
=============================================================================
