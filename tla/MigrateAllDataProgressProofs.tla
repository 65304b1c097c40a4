-------------------- MODULE MigrateAllDataProgressProofs --------------------
(***************************************************************************)
(* The safety half of the termination of a run of migrate_all_data.py, for *)
(* every size: each step the script takes by itself lowers ScriptVariant,  *)
(* a natural number.  The row loops visit a finite set one id at a time;   *)
(* each commit moves to a phase whose bound is below the one it leaves;    *)
(* and the speed loop stays in bounds only because OffsetBounded holds,    *)
(* which rests on its "if not batch: break".  That a step is then taken    *)
(* (the fairness half) stays with TLC: RunTerminates.                      *)
(***************************************************************************)
EXTENDS MigrateAllDataPagingProofs

USE ConstAssumption

\* A step lowers the measure and keeps it a natural number.
VariantDrops == ScriptVariant' \in Nat /\ ScriptVariant' < ScriptVariant

\* The bound of the speed phase, SpeedMax, and the number of markers are
\* positive and natural; the measure of a run in the speed loop is a
\* natural number above 1 while the offset respects its bound.
LEMMA Sizes ==
    ASSUME srcSpeed \in [MarkerId -> SpeedVal]
    PROVE  /\ Cardinality(PosSpeedIds(srcSpeed)) + BatchSize \in Nat \ {0}
           /\ Cardinality(MarkerId) \in Nat
<1>1. Cardinality(PosSpeedIds(srcSpeed)) \in Nat
  BY PosSpeedIdsFinite
<1>2. Cardinality(MarkerId) \in Nat
  BY FS_CardinalityType
<1>. QED BY <1>1, <1>2

\* Visiting one row of spectra_rows: either the row is dropped from the
\* rows still to visit, or the INSERT raises and the run exits.
LEMMA VariantInsertSpectrum ==
    ASSUME TypeOK, InsertSpectrum
    PROVE  VariantDrops
<1>1. /\ pc = "spectra" /\ srcSpeed' = srcSpeed
      /\ Cardinality(PosSpeedIds(srcSpeed)) + BatchSize \in Nat \ {0}
      /\ Cardinality(MarkerId) \in Nat
  BY Sizes DEF InsertSpectrum, TypeOK, srcVars
<1>2. IsFiniteSet(spectraTodo) /\ Cardinality(spectraTodo) \in Nat
  BY FS_Subset, FS_CardinalityType DEF TypeOK
<1>3. PICK s \in spectraTodo :
        \/ pc' = "exited"
        \/ pc' = "spectra" /\ spectraTodo' = spectraTodo \ {s}
  BY DEF InsertSpectrum, Exit
<1>4. CASE pc' = "exited"
  BY <1>1, <1>2, <1>4 DEF VariantDrops, ScriptVariant
<1>5. CASE pc' = "spectra" /\ spectraTodo' = spectraTodo \ {s}
  <2>1. Cardinality(spectraTodo') = Cardinality(spectraTodo) - 1
    BY <1>2, <1>5, FS_RemoveElement
  <2>. QED BY <1>1, <1>2, <1>5, <2>1 DEF VariantDrops, ScriptVariant
<1>. QED BY <1>3, <1>4, <1>5

\* The spectra commit enters the flag loop, whose rows are markers.
LEMMA VariantCommitSpectra ==
    ASSUME TypeOK, CommitSpectra
    PROVE  VariantDrops
<1>1. /\ pc = "spectra" /\ spectraTodo = {} /\ pc' = "flags"
      /\ flagTodo' = FlagMarkerIds /\ srcSpeed' = srcSpeed
      /\ Cardinality(PosSpeedIds(srcSpeed)) + BatchSize \in Nat \ {0}
      /\ Cardinality(MarkerId) \in Nat
  BY Sizes DEF CommitSpectra, TypeOK, srcVars
<1>2. Cardinality(FlagMarkerIds) \in Nat
      /\ Cardinality(FlagMarkerIds) <= Cardinality(MarkerId)
  <2>1. FlagMarkerIds \subseteq MarkerId
    BY DEF FlagMarkerIds
  <2>. QED BY <2>1, FS_Subset, FS_CardinalityType
<1>3. Cardinality(spectraTodo) = 0
  BY <1>1, FS_EmptySet
<1>. QED BY <1>1, <1>2, <1>3 DEF VariantDrops, ScriptVariant

\* Visiting one marker of marker_ids drops it from the markers to visit.
LEMMA VariantUpdateFlag ==
    ASSUME TypeOK, UpdateFlag
    PROVE  VariantDrops
<1>1. /\ pc = "flags" /\ pc' = "flags" /\ srcSpeed' = srcSpeed
      /\ Cardinality(PosSpeedIds(srcSpeed)) + BatchSize \in Nat \ {0}
  BY Sizes DEF UpdateFlag, TypeOK, srcVars
<1>2. PICK m \in flagTodo : flagTodo' = flagTodo \ {m}
  BY DEF UpdateFlag
<1>3. IsFiniteSet(flagTodo) /\ Cardinality(flagTodo) \in Nat
  BY FS_Subset, FS_CardinalityType DEF TypeOK
<1>4. Cardinality(flagTodo') = Cardinality(flagTodo) - 1
  BY <1>2, <1>3, FS_RemoveElement
<1>. QED BY <1>1, <1>3, <1>4 DEF VariantDrops, ScriptVariant

\* The flag commit enters the speed loop at offset 0, or verification.
LEMMA VariantCommitFlags ==
    ASSUME TypeOK, CommitFlags
    PROVE  VariantDrops
<1>1. /\ pc = "flags" /\ flagTodo = {} /\ offset' = 0 /\ srcSpeed' = srcSpeed
      /\ pc' = afterFlags /\ afterFlags \in {"speed", "verify"}
      /\ Cardinality(PosSpeedIds(srcSpeed)) + BatchSize \in Nat \ {0}
  BY Sizes DEF CommitFlags, TypeOK, srcVars
<1>2. Cardinality(flagTodo) = 0
  BY <1>1, FS_EmptySet
<1>. QED BY <1>1, <1>2 DEF VariantDrops, ScriptVariant

\* A batch step advances the offset by BatchSize and, by OffsetBounded in
\* the state it reaches, stays within the bound of the loop.
LEMMA VariantSpeedBatch ==
    ASSUME TypeOK, OffsetBounded', SpeedBatch
    PROVE  VariantDrops
<1>1. /\ pc = "speed" /\ pc' = "speed" /\ srcSpeed' = srcSpeed
      /\ offset \in Nat /\ offset' = offset + BatchSize
      /\ Cardinality(PosSpeedIds(srcSpeed)) + BatchSize \in Nat \ {0}
  BY Sizes DEF SpeedBatch, NextOffset, TypeOK, srcVars
<1>2. offset' < Cardinality(PosSpeedIds(srcSpeed)) + BatchSize
  BY <1>1 DEF OffsetBounded, PosSpeedIds
<1>. QED BY <1>1, <1>2, ConstAssumption DEF VariantDrops, ScriptVariant

\* The break on an empty batch leaves the loop for verification.
LEMMA VariantSpeedDone ==
    ASSUME TypeOK, OffsetBounded, SpeedDone
    PROVE  VariantDrops
<1>1. /\ pc = "speed" /\ pc' = "verify" /\ srcSpeed' = srcSpeed
      /\ offset \in Nat /\ offset' = offset
      /\ Cardinality(PosSpeedIds(srcSpeed)) + BatchSize \in Nat \ {0}
  BY Sizes DEF SpeedDone, TypeOK, srcVars
<1>2. offset < Cardinality(PosSpeedIds(srcSpeed)) + BatchSize
  BY <1>1 DEF OffsetBounded
<1>. QED BY <1>1, <1>2 DEF VariantDrops, ScriptVariant

\* Verification ends the run.
LEMMA VariantVerify ==
    ASSUME Verify
    PROVE  VariantDrops
BY DEF Verify, Exit, VariantDrops, ScriptVariant

LEMMA VariantNext ==
    ASSUME TypeOK, OffsetBounded, OffsetBounded', [Next]_vars
    PROVE  [ScriptStep => VariantDrops]_vars
BY VariantInsertSpectrum, VariantCommitSpectra, VariantUpdateFlag,
   VariantCommitFlags, VariantSpeedBatch, VariantSpeedDone, VariantVerify
   DEF ScriptStep

\* Every step migrate_all_data.py takes by itself, in every run and for
\* every number of rows and every batch size, lowers a natural-number
\* measure of the work left in the run: none of its three loops can go on
\* forever.
THEOREM ScriptStepsDecrease == Spec => ScriptStepsTerminate
<1>1. TypeOK /\ OffsetBounded /\ OffsetBounded' /\ [Next]_vars
        => [ScriptStep => VariantDrops]_vars
  BY VariantNext
<1>. QED BY <1>1, TypeCorrect, OffsetNeverPastEnd, PTL
         DEF Spec, ScriptStepsTerminate, VariantDrops
=============================================================================
