--------------------- MODULE MigrateAllDataSpeedProofs ---------------------
(***************************************************************************)
(* Proofs about the LIMIT/OFFSET speed loop of migrate_all_data.py, for    *)
(* every batch size and every set of markers.  The argument: the loop      *)
(* starts at offset 0, where no marker has a rank at or below the offset;  *)
(* a batch step moves the offset by BATCH_SIZE and the batch is exactly    *)
(* the markers whose rank lies between the old and the new offset, so each *)
(* of them gets a non-zero speed, and the guarded UPDATE never zeroes one. *)
(***************************************************************************)
EXTENDS MigrateAllDataProofs, FiniteSetTheorems

USE ConstAssumption

\* The rank of a source marker with a positive speed (its 1-based position
\* in ORDER BY id) is a positive natural number: the ids at or below it
\* form a finite set, bounded by 0..m, that contains it.
LEMMA RankPositive ==
    ASSUME srcSpeed \in [MarkerId -> SpeedVal],
           NEW m \in PosSpeedIds(srcSpeed)
    PROVE  Rank(m) \in Nat \ {0}
<1> DEFINE S == {j \in PosSpeedIds(srcSpeed) : j <= m}
<1>1. m \in Nat
  BY DEF PosSpeedIds
<1>2. S \subseteq 0..m
  <2>1. PosSpeedIds(srcSpeed) \subseteq Nat
    BY ConstAssumption DEF PosSpeedIds
  <2>. QED BY <1>1, <2>1
<1>3. IsFiniteSet(0..m)
  BY <1>1, FS_Interval
<1>4. IsFiniteSet(S)
  BY <1>2, <1>3, FS_Subset
<1>5. Cardinality(S) \in Nat
  BY <1>4, FS_CardinalityType
<1>6. Cardinality(S) # 0
  <2>1. m \in S
    BY <1>1
  <2>. QED BY <1>4, <2>1, FS_EmptySet
<1>. QED BY <1>5, <1>6 DEF Rank

\* A batch step sets a non-zero speed on every marker of its batch that
\* still has none, and keeps every non-zero speed.
LEMMA ApplySpeedsCovers ==
    ASSUME srcSpeed \in [MarkerId -> SpeedVal],
           NEW speed \in [MarkerId -> SpeedVal], NEW batch \in SUBSET PosSpeedIds(srcSpeed),
           NEW m \in MarkerId, m \in batch \/ speed[m] # 0
    PROVE  ApplySpeeds(speed, batch)[m] # 0
BY DEF ApplySpeeds, PosSpeedIds

\* Every action other than the commit of the flag phase and a batch step
\* either leaves the speed loop or does not enter it, and leaves the offset
\* and the target speeds alone while the loop runs.
LEMMA CoverOtherSteps ==
    ASSUME IInv, SpeedBatchesCover,
           Analyze \/ InsertSpectrum \/ CommitSpectra \/ UpdateFlag
           \/ SpeedDone \/ Verify \/ Crash \/ Restart \/ UNCHANGED vars
    PROVE  SpeedBatchesCover'
<1>1. CASE UNCHANGED vars
  BY <1>1 DEF SpeedBatchesCover, Rank, PosSpeedIds, vars, srcVars, histVars, tgtVars, runVars
<1>2. CASE Analyze \/ InsertSpectrum \/ CommitSpectra \/ UpdateFlag
  BY <1>2 DEF Analyze, InsertSpectrum, CommitSpectra, UpdateFlag, Exit,
              SpeedBatchesCover
<1>3. CASE SpeedDone \/ Verify \/ Crash \/ Restart
  BY <1>3 DEF SpeedDone, Verify, Crash, Restart, Exit, SpeedBatchesCover
<1>. QED BY <1>1, <1>2, <1>3

\* The flag commit enters the loop at offset 0: no rank is at or below it.
LEMMA CoverCommitFlags ==
    ASSUME IInv, CommitFlags
    PROVE  SpeedBatchesCover'
<1>1. offset' = 0 /\ srcSpeed' = srcSpeed /\ srcSpeed \in [MarkerId -> SpeedVal]
  BY DEF CommitFlags, IInv, TypeOK, srcVars
<1>2. ASSUME NEW m \in PosSpeedIds(srcSpeed) PROVE Rank(m)' \in Nat \ {0}
  <2>1. Rank(m)' = Rank(m)
    BY <1>1 DEF Rank, PosSpeedIds
  <2>2. Rank(m) \in Nat \ {0}
    BY <1>1, RankPositive
  <2>. QED BY <2>1, <2>2
<1>3. \A m \in PosSpeedIds(srcSpeed) : ~(Rank(m)' <= offset')
  BY <1>1, <1>2
<1>. QED BY <1>1, <1>3 DEF SpeedBatchesCover, PosSpeedIds

\* A batch step: the markers ranked in (offset, offset + BATCH_SIZE] are the
\* batch, so every marker ranked at or below the new offset has a speed.
LEMMA CoverSpeedBatch ==
    ASSUME IInv, SpeedBatchesCover, SpeedBatch
    PROVE  SpeedBatchesCover'
<1>1. /\ pc = "speed" /\ pc' = "speed"
      /\ tgtSpeed' = ApplySpeeds(tgtSpeed, Batch(offset))
      /\ offset' = offset + BatchSize
      /\ srcSpeed' = srcSpeed
  BY DEF SpeedBatch, NextOffset, srcVars
<1>2. /\ srcSpeed \in [MarkerId -> SpeedVal] /\ tgtSpeed \in [MarkerId -> SpeedVal]
      /\ offset \in Nat
  BY DEF IInv, TypeOK
<1>3. SUFFICES ASSUME NEW m \in PosSpeedIds(srcSpeed), Rank(m) <= offset + BatchSize
               PROVE  tgtSpeed'[m] # 0
  <2>1. \A j \in PosSpeedIds(srcSpeed) : Rank(j)' = Rank(j)
    BY <1>1 DEF Rank, PosSpeedIds
  <2>. QED BY <1>1, <2>1 DEF SpeedBatchesCover, PosSpeedIds
<1>4. Rank(m) \in Nat
  BY <1>2, RankPositive
<1>5. CASE Rank(m) <= offset
  <2>1. tgtSpeed[m] # 0
    BY <1>1, <1>5 DEF SpeedBatchesCover
  <2>. QED BY <1>1, <1>2, <2>1, ApplySpeedsCovers DEF Batch, PosSpeedIds
<1>6. CASE offset < Rank(m)
  <2>1. m \in Batch(offset)
    BY <1>3, <1>6 DEF Batch
  <2>. QED BY <1>1, <1>2, <2>1, ApplySpeedsCovers DEF Batch, PosSpeedIds
<1>. QED BY <1>2, <1>4, <1>5, <1>6

LEMMA CoverNext ==
    ASSUME IInv, SpeedBatchesCover, [Next]_vars
    PROVE  SpeedBatchesCover'
BY CoverOtherSteps, CoverCommitFlags, CoverSpeedBatch DEF Next, ScriptStep

\* Pagination of the speed loop of migrate_all_data.py, for every batch size:
\* whenever the loop runs at offset o, every source marker with a positive
\* speed among the first o of ORDER BY id has a positive target speed.
THEOREM SpeedPagesCovered == Spec => []SpeedBatchesCover
<1>1. Init => SpeedBatchesCover
  BY DEF Init, SpeedBatchesCover
<1>2. IInv /\ SpeedBatchesCover /\ [Next]_vars => SpeedBatchesCover'
  BY CoverNext
<1>. QED BY <1>1, <1>2, IInvInvariant, PTL DEF Spec
-----------------------------------------------------------------------------
(* The offset never runs past the end of the source *)

\* The number of source markers with a positive speed is a natural number,
\* and no such marker has a rank above it.
LEMMA RankBounded ==
    ASSUME srcSpeed \in [MarkerId -> SpeedVal],
           NEW m \in PosSpeedIds(srcSpeed)
    PROVE  /\ Cardinality(PosSpeedIds(srcSpeed)) \in Nat
           /\ Rank(m) <= Cardinality(PosSpeedIds(srcSpeed))
<1>1. IsFiniteSet(PosSpeedIds(srcSpeed))
  <2>1. PosSpeedIds(srcSpeed) \subseteq MarkerId
    BY DEF PosSpeedIds
  <2>. QED BY <2>1, FS_Subset
<1>2. Cardinality(PosSpeedIds(srcSpeed)) \in Nat
  BY <1>1, FS_CardinalityType
<1>3. {j \in PosSpeedIds(srcSpeed) : j <= m} \subseteq PosSpeedIds(srcSpeed)
  OBVIOUS
<1>. QED BY <1>1, <1>2, <1>3, FS_Subset DEF Rank

LEMMA BoundOtherSteps ==
    ASSUME IInv, OffsetBounded,
           Analyze \/ InsertSpectrum \/ CommitSpectra \/ UpdateFlag
           \/ SpeedDone \/ Verify \/ Crash \/ Restart \/ UNCHANGED vars
    PROVE  OffsetBounded'
<1>1. CASE UNCHANGED vars
  BY <1>1 DEF OffsetBounded, PosSpeedIds, vars, srcVars, histVars, tgtVars, runVars
<1>2. CASE Analyze \/ InsertSpectrum \/ CommitSpectra \/ UpdateFlag
  BY <1>2 DEF Analyze, InsertSpectrum, CommitSpectra, UpdateFlag, Exit,
              OffsetBounded
<1>3. CASE SpeedDone \/ Verify \/ Crash \/ Restart
  BY <1>3 DEF SpeedDone, Verify, Crash, Restart, Exit, OffsetBounded
<1>. QED BY <1>1, <1>2, <1>3

\* The flag commit enters the loop at offset 0.
LEMMA BoundCommitFlags ==
    ASSUME IInv, CommitFlags
    PROVE  OffsetBounded'
<1>1. offset' = 0 /\ srcSpeed' = srcSpeed /\ srcSpeed \in [MarkerId -> SpeedVal]
  BY DEF CommitFlags, IInv, TypeOK, srcVars
<1>2. Cardinality(PosSpeedIds(srcSpeed)) \in Nat
  <2>1. PosSpeedIds(srcSpeed) \subseteq MarkerId
    BY DEF PosSpeedIds
  <2>. QED BY <2>1, FS_Subset, FS_CardinalityType
<1>3. PosSpeedIds(srcSpeed)' = PosSpeedIds(srcSpeed)
  BY <1>1 DEF PosSpeedIds
<1>. QED BY <1>1, <1>2, <1>3 DEF OffsetBounded

\* A batch step is taken only on a non-empty batch, whose markers rank above
\* the old offset and at most at the count: the new offset is below the
\* count plus one batch.
LEMMA BoundSpeedBatch ==
    ASSUME IInv, SpeedBatch
    PROVE  OffsetBounded'
<1>1. /\ Batch(offset) # {}
      /\ offset' = offset + BatchSize
      /\ srcSpeed' = srcSpeed
  BY DEF SpeedBatch, NextOffset, srcVars
<1>2. srcSpeed \in [MarkerId -> SpeedVal] /\ offset \in Nat
  BY DEF IInv, TypeOK
<1>3. PICK m \in PosSpeedIds(srcSpeed) : offset < Rank(m)
  BY <1>1 DEF Batch
<1>4. /\ Cardinality(PosSpeedIds(srcSpeed)) \in Nat
      /\ Rank(m) <= Cardinality(PosSpeedIds(srcSpeed))
      /\ Rank(m) \in Nat
  BY <1>2, RankBounded, RankPositive
<1>5. PosSpeedIds(srcSpeed)' = PosSpeedIds(srcSpeed)
  BY <1>1 DEF PosSpeedIds
<1>. QED BY <1>1, <1>2, <1>3, <1>4, <1>5 DEF OffsetBounded

LEMMA BoundNext ==
    ASSUME IInv, OffsetBounded, [Next]_vars
    PROVE  OffsetBounded'
BY BoundOtherSteps, BoundCommitFlags, BoundSpeedBatch DEF Next, ScriptStep

\* The speed loop of migrate_all_data.py never pages past the end of the
\* source, for every batch size and every number of markers: while it
\* runs, offset < (markers with a positive speed) + BATCH_SIZE.
THEOREM OffsetNeverPastEnd == Spec => []OffsetBounded
<1>1. Init => OffsetBounded
  BY DEF Init, OffsetBounded
<1>2. IInv /\ OffsetBounded /\ [Next]_vars => OffsetBounded'
  BY BoundNext
<1>. QED BY <1>1, <1>2, IInvInvariant, PTL DEF Spec
=====
