----------------------- MODULE MigrateAllDataRefinement -----------------------
(***************************************************************************)
(* Proof that migrate_all_data.py implements the reconciling copier of      *)
(* spec.md section 4.1 (module Reconciler) for every value of the           *)
(* constants: an initial state maps to an initial state, and every step     *)
(* either leaves source and committed target alone or is one Commit of the  *)
(* contract.  The commits of the two single-transaction phases publish the  *)
(* transaction, and IInv (TxSpectraInv, TxFlagsInv) says what it holds.     *)
(***************************************************************************)
EXTENDS MigrateAllDataProofs

USE ConstAssumption

\* Steps that touch neither the source nor the committed target are
\* stuttering steps of the contract.
LEMMA TargetAlone ==
    ASSUME UNCHANGED <<srcVars, tgtVars>>
    PROVE  UNCHANGED Copier!vars
BY DEF Copier!vars, srcVars, tgtVars

LEMMA InitRefines == Init => Copier!Init
BY DEF Init, Copier!Init, SpeedVal, Copier!SpeedVal

\* The spectra commit is copy_missing of every source row.
LEMMA CommitSpectraRefines == IInv /\ CommitSpectra => Copier!Next
<1> SUFFICES ASSUME IInv, CommitSpectra PROVE Copier!Next
  OBVIOUS
<1>1. tgtSpectra' = tgtSpectra \cup srcSpectra
  BY DEF CommitSpectra, IInv, TxSpectraInv
<1>2. tgtSpeed' = [m \in MarkerId |->
                     IF m \in {} /\ tgtSpeed[m] = 0 THEN srcSpeed[m] ELSE tgtSpeed[m]]
  BY DEF CommitSpectra, IInv, TypeOK
<1>3. Copier!Commit(TRUE, FALSE, {})
  BY <1>1, <1>2 DEF CommitSpectra, Copier!Commit, srcVars
<1>. QED BY <1>3 DEF Copier!Next

\* The flag commit sets every source flag.
LEMMA CommitFlagsRefines == IInv /\ CommitFlags => Copier!Next
<1> SUFFICES ASSUME IInv, CommitFlags PROVE Copier!Next
  OBVIOUS
<1>1. txHasSpec = [m \in MarkerId |-> tgtHasSpec[m] \/ m \in FlagMarkerIds \ {}]
  BY DEF CommitFlags, IInv, TxFlagsInv
<1>2. tgtHasSpec' = [m \in MarkerId |-> tgtHasSpec[m] \/ srcHasSpec[m]]
  BY <1>1 DEF CommitFlags, IInv, TypeOK, FlagMarkerIds
<1>3. tgtSpeed' = [m \in MarkerId |->
                     IF m \in {} /\ tgtSpeed[m] = 0 THEN srcSpeed[m] ELSE tgtSpeed[m]]
  BY DEF CommitFlags, IInv, TypeOK
<1>4. Copier!Commit(FALSE, TRUE, {})
  BY <1>2, <1>3 DEF CommitFlags, Copier!Commit, srcVars
<1>. QED BY <1>4 DEF Copier!Next

\* A speed batch commit is one guarded update of a batch of source markers
\* with a positive speed.
LEMMA SpeedBatchRefines == SpeedBatch => Copier!Next
<1> SUFFICES ASSUME SpeedBatch PROVE Copier!Next
  OBVIOUS
<1>1. Batch(offset) \in SUBSET Copier!PositiveSpeedIds
  BY DEF Batch, PosSpeedIds, Copier!PositiveSpeedIds
<1>2. Copier!Commit(FALSE, FALSE, Batch(offset))
  BY DEF SpeedBatch, ApplySpeeds, Copier!Commit, srcVars
<1>. QED BY <1>1, <1>2 DEF Copier!Next

LEMMA NextRefines == IInv /\ [Next]_vars => [Copier!Next]_(Copier!vars)
<1> SUFFICES ASSUME IInv, [Next]_vars PROVE [Copier!Next]_(Copier!vars)
  OBVIOUS
<1>1. CASE CommitSpectra
  BY <1>1, CommitSpectraRefines
<1>2. CASE CommitFlags
  BY <1>2, CommitFlagsRefines
<1>3. CASE SpeedBatch
  BY <1>3, SpeedBatchRefines
<1>4. CASE Analyze \/ InsertSpectrum \/ UpdateFlag \/ SpeedDone \/ Verify
           \/ Crash \/ Restart \/ UNCHANGED vars
  <2>1. UNCHANGED <<srcVars, tgtVars>>
    BY <1>4 DEF Analyze, InsertSpectrum, UpdateFlag, SpeedDone, Verify,
                Crash, Restart, vars
  <2>. QED BY <2>1, TargetAlone
<1>. QED BY <1>1, <1>2, <1>3, <1>4 DEF Next, ScriptStep

\* migrate_all_data.py, with any number of crashes and re-runs, implements
\* the reconciling copier: the target only ever changes by whole-phase
\* copy_missing and flag commits and by guarded speed batches.
THEOREM ImplementsCopier == Spec => CopierRefinement
BY InitRefines, NextRefines, IInvInvariant, PTL DEF Spec, CopierRefinement, Copier!Spec

\* Every step the copier contract allows keeps the committed target: a
\* commit only adds spectra and only sets flags, and it sets the speed of a
\* batch marker only where the target's is NULL/0.
LEMMA CopierStepGrows == [Copier!Next]_(Copier!vars) => [TargetGrows]_vars
<1>1. ASSUME Copier!Next PROVE TargetGrows
  <2>1. PICK copySpectra \in BOOLEAN, setFlags \in BOOLEAN, batch \in SUBSET Copier!PositiveSpeedIds :
          Copier!Commit(copySpectra, setFlags, batch)
    BY <1>1 DEF Copier!Next
  <2>2. tgtSpectra \subseteq tgtSpectra'
    BY <2>1 DEF Copier!Commit
  <2>3. \A m \in MarkerId : tgtHasSpec[m] => tgtHasSpec'[m]
    BY <2>1, Zenon DEF Copier!Commit
  <2>4. \A m \in MarkerId : tgtSpeed[m] # 0 => tgtSpeed'[m] = tgtSpeed[m]
    BY <2>1 DEF Copier!Commit
  <2>. QED BY <2>2, <2>3, <2>4 DEF TargetGrows
<1>2. ASSUME UNCHANGED Copier!vars PROVE UNCHANGED vars \/ TargetGrows
  BY <1>2 DEF Copier!vars, TargetGrows
<1>. QED BY <1>1, <1>2

\* The action property TargetNeverShrinks, for every value of the constants:
\* it follows from the refinement, since the contract's steps never shrink
\* the target and the refinement maps the target to itself.
THEOREM NoStepShrinksTarget == Spec => TargetNeverShrinks
BY ImplementsCopier, CopierStepGrows, PTL DEF CopierRefinement, Copier!Spec, TargetNeverShrinks
=============================================================================
