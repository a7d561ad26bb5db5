------------------------------- MODULE MCDevice -------------------------------
(***************************************************************************)
(* What the device keeps beside the observations: reference data, settings *)
(* and audio.  The three share no variable, so their interleavings add     *)
(* nothing to what each does alone: one moves while the others are as they *)
(* began.                                                                  *)
(***************************************************************************)
EXTENDS RefData, Settings, Retention

MCDefaultProfile == [op |-> "ann", rest |-> "shipped"]

DeviceInit == RefInit /\ SetInit /\ KeepInit

DeviceNext ==
    \/ RefNext /\ SetInit /\ KeepInit /\ UNCHANGED <<setVars, keepVars>>
    \/ SetNext /\ RefInit /\ KeepInit /\ UNCHANGED <<refVars, keepVars>>
    \/ KeepNext /\ RefInit /\ SetInit /\ UNCHANGED <<refVars, setVars>>

DeviceSpec == DeviceInit /\ [][DeviceNext]_<<refVars, setVars, keepVars>> /\ KeepFairness
=============================================================================
