------------------------ MODULE MigrateAllDataProofs ------------------------
(***************************************************************************)
(* Proofs, for every value of the constants, of the safety invariants of   *)
(* MigrateAllData: type correctness, that a target speed is never          *)
(* clobbered, and that the spectra and flag phases commit all or nothing   *)
(* across any number of crashes and re-runs.  All follow from the          *)
(* inductive invariant IInv, which adds to them what the two open          *)
(* transactions hold (TxSpectraInv, TxFlagsInv).                           *)
(***************************************************************************)
EXTENDS MigrateAllData, TLAPS

USE ConstAssumption

\* The script's exit leaves the target alone and resets its locals.
LEMMA ExitIInv ==
    ASSUME IInv, NEW r \in Outcome, Exit(r),
           UNCHANGED <<srcVars, histVars, tgtVars, runs>>
    PROVE  IInv'
BY DEF IInv, TypeOK, Exit, SpeedValueFaithful, SpectraAllOrNothing,
       FlagsAllOrNothing, TxSpectraInv, TxFlagsInv, srcVars, histVars,
       tgtVars, Outcome, Working

LEMMA InitIInv == Init => IInv
<1> SUFFICES ASSUME Init PROVE IInv
  OBVIOUS
<1>1. TypeOK
  BY DEF Init, TypeOK, Outcome
<1>2. SpeedValueFaithful /\ SpectraAllOrNothing /\ FlagsAllOrNothing
  BY DEF Init, SpeedValueFaithful, SpectraAllOrNothing, FlagsAllOrNothing
<1>3. TxSpectraInv /\ TxFlagsInv
  BY DEF Init, TxSpectraInv, TxFlagsInv
<1>. QED BY <1>1, <1>2, <1>3 DEF IInv

LEMMA AnalyzeIInv == IInv /\ Analyze => IInv'
<1> SUFFICES ASSUME IInv, Analyze PROVE IInv'
  OBVIOUS
<1>1. CASE Cardinality(srcSpectra) = 0 /\ Cardinality(PosSpeedIds(srcSpeed)) = 0
  BY <1>1, ExitIInv DEF Analyze, Outcome
<1>2. CASE ~(Cardinality(srcSpectra) = 0 /\ Cardinality(PosSpeedIds(srcSpeed)) = 0)
  <2>1. PICK proceed \in BOOLEAN :
          IF ~proceed
            THEN Exit("cancelled") /\ UNCHANGED runs
            ELSE /\ afterFlags' = IF Cardinality(PosSpeedIds(srcSpeed))
                                       - Cardinality(PosSpeedIds(tgtSpeed)) > 0
                                    THEN "speed" ELSE "verify"
                 /\ IF Cardinality(srcSpectra) - Cardinality(tgtSpectra) > 0
                      THEN /\ pc' = "spectra"
                           /\ spectraTodo' = srcSpectra
                           /\ txSpectra' = tgtSpectra
                           /\ UNCHANGED <<flagTodo, txHasSpec>>
                      ELSE /\ pc' = "flags"
                           /\ flagTodo' = FlagMarkerIds
                           /\ txHasSpec' = tgtHasSpec
                           /\ UNCHANGED <<spectraTodo, txSpectra>>
                 /\ UNCHANGED <<offset, outcome, runs>>
    BY <1>2 DEF Analyze
  <2>2. UNCHANGED <<srcVars, histVars, tgtVars>>
    BY DEF Analyze
  <2>3. CASE ~proceed
    BY <2>1, <2>2, <2>3, ExitIInv DEF Outcome
  <2>4. SpeedValueFaithful' /\ SpectraAllOrNothing' /\ FlagsAllOrNothing'
    BY <2>2 DEF IInv, SpeedValueFaithful, SpectraAllOrNothing,
                FlagsAllOrNothing, srcVars, histVars, tgtVars
  <2>5. CASE proceed
    <3>1. afterFlags' \in {"speed", "verify"} /\ UNCHANGED <<offset, outcome, runs>>
      BY <2>1, <2>5
    <3>2. CASE Cardinality(srcSpectra) - Cardinality(tgtSpectra) > 0
      <4>1. /\ pc' = "spectra" /\ spectraTodo' = srcSpectra
            /\ txSpectra' = tgtSpectra /\ UNCHANGED <<flagTodo, txHasSpec>>
        BY <2>1, <2>5, <3>2
      <4>2. TypeOK'
        BY <2>2, <3>1, <4>1 DEF IInv, TypeOK, srcVars, histVars, tgtVars, Working
      <4>3. TxSpectraInv'
        BY <2>2, <4>1 DEF TxSpectraInv, srcVars, tgtVars
      <4>4. TxFlagsInv'
        BY <4>1 DEF TxFlagsInv
      <4>. QED BY <2>4, <4>2, <4>3, <4>4 DEF IInv
    <3>3. CASE ~(Cardinality(srcSpectra) - Cardinality(tgtSpectra) > 0)
      <4>1. /\ pc' = "flags" /\ flagTodo' = FlagMarkerIds
            /\ txHasSpec' = tgtHasSpec /\ UNCHANGED <<spectraTodo, txSpectra>>
        BY <2>1, <2>5, <3>3
      <4>2. FlagMarkerIds' = FlagMarkerIds /\ tgtHasSpec' = tgtHasSpec
        BY <2>2 DEF FlagMarkerIds, srcVars, tgtVars
      <4>3. TypeOK'
        BY <2>2, <3>1, <4>1 DEF IInv, TypeOK, FlagMarkerIds, srcVars, histVars,
                                tgtVars, Working
      <4>4. TxSpectraInv'
        BY <4>1 DEF TxSpectraInv
      <4>5. tgtHasSpec = [k \in MarkerId |-> tgtHasSpec[k] \/ k \in FlagMarkerIds \ FlagMarkerIds]
        BY DEF IInv, TypeOK
      <4>6. TxFlagsInv'
        BY <4>1, <4>2, <4>5 DEF TxFlagsInv
      <4>. QED BY <2>4, <4>3, <4>4, <4>6 DEF IInv
    <3>. QED BY <3>2, <3>3
  <2>. QED BY <2>3, <2>5
<1>. QED BY <1>1, <1>2

LEMMA InsertSpectrumIInv == IInv /\ InsertSpectrum => IInv'
<1> SUFFICES ASSUME IInv, InsertSpectrum PROVE IInv'
  OBVIOUS
<1>1. PICK s \in spectraTodo :
        IF s \notin txSpectra /\ s \in srcBad
          THEN Exit("failed") /\ UNCHANGED runs
          ELSE /\ spectraTodo' = spectraTodo \ {s}
               /\ txSpectra' = txSpectra \cup {s}
               /\ UNCHANGED <<pc, afterFlags, flagTodo,
                              offset, txHasSpec, outcome, runs>>
  BY DEF InsertSpectrum
<1>2. UNCHANGED <<srcVars, histVars, tgtVars>> /\ pc = "spectra"
  BY DEF InsertSpectrum
<1>3. CASE s \notin txSpectra /\ s \in srcBad
  BY <1>1, <1>2, <1>3, ExitIInv DEF Outcome
<1>4. CASE ~(s \notin txSpectra /\ s \in srcBad)
  <2>1. /\ spectraTodo' = spectraTodo \ {s}
        /\ txSpectra' = txSpectra \cup {s}
        /\ UNCHANGED <<pc, afterFlags, flagTodo, offset, txHasSpec, outcome, runs>>
    BY <1>1, <1>4
  <2>2. TypeOK'
    BY <1>2, <2>1 DEF IInv, TypeOK, srcVars, histVars, tgtVars
  <2>3. SpeedValueFaithful' /\ SpectraAllOrNothing' /\ FlagsAllOrNothing'
    BY <1>2 DEF IInv, SpeedValueFaithful, SpectraAllOrNothing,
                FlagsAllOrNothing, srcVars, histVars, tgtVars
  <2>4. TxSpectraInv'
    BY <1>2, <2>1 DEF IInv, TxSpectraInv, srcVars, histVars, tgtVars
  <2>5. TxFlagsInv'
    BY <1>2, <2>1 DEF TxFlagsInv
  <2>. QED BY <2>2, <2>3, <2>4, <2>5 DEF IInv
<1>. QED BY <1>3, <1>4

LEMMA CommitSpectraIInv == IInv /\ CommitSpectra => IInv'
BY DEF CommitSpectra, IInv, TypeOK, SpeedValueFaithful, SpectraAllOrNothing,
       FlagsAllOrNothing, TxSpectraInv, TxFlagsInv, FlagMarkerIds, Working, srcVars, histVars, tgtVars

LEMMA UpdateFlagIInv == IInv /\ UpdateFlag => IInv'
<1> SUFFICES ASSUME IInv, UpdateFlag PROVE IInv'
  OBVIOUS
<1>1. PICK m \in flagTodo :
        /\ flagTodo' = flagTodo \ {m}
        /\ txHasSpec' = IF ~txHasSpec[m] THEN [txHasSpec EXCEPT ![m] = TRUE]
                                         ELSE txHasSpec
  BY DEF UpdateFlag
<1>2. m \in FlagMarkerIds /\ m \in MarkerId
  BY <1>1 DEF IInv, TxFlagsInv, UpdateFlag, FlagMarkerIds
<1>3. txHasSpec' = [txHasSpec EXCEPT ![m] = TRUE]
  BY <1>1, <1>2 DEF IInv, TypeOK
<1>4. UNCHANGED <<srcVars, histVars, tgtVars, pc, afterFlags, spectraTodo,
                  offset, txSpectra, outcome, runs>>
  BY DEF UpdateFlag
<1>5. TypeOK'
  BY <1>1, <1>3, <1>4 DEF IInv, TypeOK, srcVars, histVars, tgtVars
<1>6. SpeedValueFaithful' /\ SpectraAllOrNothing' /\ FlagsAllOrNothing'
  BY <1>4 DEF IInv, SpeedValueFaithful, SpectraAllOrNothing,
              FlagsAllOrNothing, srcVars, histVars, tgtVars
<1>7. TxSpectraInv'
  BY <1>4 DEF IInv, TxSpectraInv, srcVars, histVars, tgtVars
<1>8. TxFlagsInv'
  <2>1. FlagMarkerIds' = FlagMarkerIds /\ pc' = "flags" /\ tgtHasSpec' = tgtHasSpec
    BY <1>4 DEF FlagMarkerIds, UpdateFlag, srcVars, tgtVars
  <2>2. flagTodo' \subseteq FlagMarkerIds
    BY <1>1 DEF IInv, TxFlagsInv, UpdateFlag
  <2>3. txHasSpec' = [k \in MarkerId |->
                        tgtHasSpec[k] \/ k \in FlagMarkerIds \ flagTodo']
    <3>1. txHasSpec = [k \in MarkerId |->
                         tgtHasSpec[k] \/ k \in FlagMarkerIds \ flagTodo]
      BY DEF IInv, TxFlagsInv, UpdateFlag
    <3>2. flagTodo' = flagTodo \ {m} /\ tgtHasSpec \in [MarkerId -> BOOLEAN]
      BY <1>1 DEF IInv, TypeOK
    <3>. QED BY <1>2, <1>3, <3>1, <3>2
  <2>. QED BY <2>1, <2>2, <2>3 DEF TxFlagsInv
<1>. QED BY <1>5, <1>6, <1>7, <1>8 DEF IInv

LEMMA CommitFlagsIInv == IInv /\ CommitFlags => IInv'
BY DEF CommitFlags, IInv, TypeOK, SpeedValueFaithful, SpectraAllOrNothing,
       FlagsAllOrNothing, TxSpectraInv, TxFlagsInv, FlagMarkerIds, Working, srcVars, histVars, tgtVars

\* The batched UPDATE writes a source speed only where the target's is 0.
LEMMA SpeedBatchIInv == IInv /\ SpeedBatch => IInv'
<1> SUFFICES ASSUME IInv, SpeedBatch PROVE IInv'
  OBVIOUS
<1>1. tgtSpeed' = ApplySpeeds(tgtSpeed, Batch(offset))
  BY DEF SpeedBatch
<1>2. TypeOK'
  BY <1>1 DEF SpeedBatch, IInv, TypeOK, ApplySpeeds, NextOffset, SpeedVal, srcVars, histVars, tgtVars
<1>3. SpeedValueFaithful'
  BY <1>1 DEF SpeedBatch, IInv, TypeOK, SpeedValueFaithful, ApplySpeeds, SpeedVal, srcVars, histVars, tgtVars
<1>. QED
  BY <1>2, <1>3
  DEF SpeedBatch, IInv, SpectraAllOrNothing, FlagsAllOrNothing,
      TxSpectraInv, TxFlagsInv, srcVars, histVars, tgtVars

LEMMA SpeedDoneIInv == IInv /\ SpeedDone => IInv'
BY DEF SpeedDone, IInv, TypeOK, SpeedValueFaithful, SpectraAllOrNothing,
       FlagsAllOrNothing, TxSpectraInv, TxFlagsInv, Working, srcVars, histVars, tgtVars

LEMMA VerifyIInv == IInv /\ Verify => IInv'
<1> SUFFICES ASSUME IInv, Verify PROVE IInv'
  OBVIOUS
<1>1. PICK r \in {"success", "warning"} : Exit(r)
  BY DEF Verify
<1>. QED BY <1>1, ExitIInv DEF Verify, Outcome

LEMMA CrashIInv == IInv /\ Crash => IInv'
BY ExitIInv DEF Crash, Outcome

LEMMA RestartIInv == IInv /\ Restart => IInv'
<1> SUFFICES ASSUME IInv, Restart PROVE IInv'
  OBVIOUS
<1>1. TypeOK'
  BY DEF Restart, IInv, TypeOK, Outcome, srcVars, histVars, tgtVars
<1>2. SpeedValueFaithful' /\ SpectraAllOrNothing' /\ FlagsAllOrNothing'
  BY DEF Restart, IInv, SpeedValueFaithful, SpectraAllOrNothing,
         FlagsAllOrNothing, srcVars, histVars, tgtVars
<1>3. TxSpectraInv' /\ TxFlagsInv'
  BY DEF Restart, TxSpectraInv, TxFlagsInv
<1>. QED BY <1>1, <1>2, <1>3 DEF IInv

LEMMA StutterIInv == IInv /\ UNCHANGED vars => IInv'
BY DEF vars, srcVars, histVars, tgtVars, runVars, IInv, TypeOK,
       SpeedValueFaithful, SpectraAllOrNothing, FlagsAllOrNothing,
       TxSpectraInv, TxFlagsInv, FlagMarkerIds, PosSpeedIds

LEMMA NextIInv == IInv /\ [Next]_vars => IInv'
BY AnalyzeIInv, InsertSpectrumIInv, CommitSpectraIInv, UpdateFlagIInv,
   CommitFlagsIInv, SpeedBatchIInv, SpeedDoneIInv, VerifyIInv, CrashIInv,
   RestartIInv, StutterIInv
DEF Next, ScriptStep

\* The inductive invariant holds in every state of every behaviour.
THEOREM IInvInvariant == Spec => []IInv
BY InitIInv, NextIInv, PTL DEF Spec

\* Every state of every run is well typed.
THEOREM TypeCorrect == Spec => []TypeOK
BY IInvInvariant, PTL DEF IInv

\* The batched speed UPDATE never overwrites a speed the target had before
\* the first run, and writes nothing but the source's speed.
THEOREM SpeedNeverClobbered == Spec => []SpeedValueFaithful
BY IInvInvariant, PTL DEF IInv

\* The spectra phase's single transaction commits all source spectra or none.
THEOREM SpectraAtomic == Spec => []SpectraAllOrNothing
BY IInvInvariant, PTL DEF IInv

\* The flag phase's single transaction sets all source flags or none.
THEOREM FlagsAtomic == Spec => []FlagsAllOrNothing
BY IInvInvariant, PTL DEF IInv

=============================================================================
