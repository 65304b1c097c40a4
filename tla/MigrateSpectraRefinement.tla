----------------------- MODULE MigrateSpectraRefinement -----------------------
(***************************************************************************)
(* Proof that migrate_spectra.py implements the reconciling copier of       *)
(* spec.md section 4.1 (module Reconciler, with no speed columns) for every *)
(* value of the constants: its single commit publishes, by TxInv, every     *)
(* source spectrum and every source flag at once, and no other step changes *)
(* the committed target.                                                    *)
(***************************************************************************)
EXTENDS MigrateSpectraProofs

USE SpectraConstAssumption

\* The contract's speed columns, always NULL for this script.
NoSpeed == [m \in MarkerId |-> 0]

LEMMA TargetAlone ==
    ASSUME UNCHANGED <<srcVars, tgtVars>>
    PROVE  UNCHANGED Copier!vars
BY DEF Copier!vars, srcVars, tgtVars

LEMMA InitRefines == Init => Copier!Init
BY DEF Init, Copier!Init, Copier!SpeedVal

\* The commit is copy_missing and the setting of the flags in one step.
LEMMA CommitRefines == IInv /\ Commit => Copier!Next
<1> SUFFICES ASSUME IInv, Commit PROVE Copier!Next
  OBVIOUS
<1>1. txSpectra = tgtSpectra \cup srcSpectra
  BY DEF Commit, IInv, TxInv
<1>2. txHasSpec = [m \in MarkerId |-> tgtHasSpec[m] \/ m \in FlagMarkerIds \ {}]
  BY DEF Commit, IInv, TxInv
<1>3. txHasSpec = [m \in MarkerId |-> tgtHasSpec[m] \/ srcHasSpec[m]]
  BY <1>2 DEF IInv, TypeOK, FlagMarkerIds
<1>4. NoSpeed = [m \in MarkerId |->
                   IF m \in {} /\ NoSpeed[m] = 0 THEN NoSpeed[m] ELSE NoSpeed[m]]
  BY DEF NoSpeed
<1>5. Copier!Commit(TRUE, TRUE, {})
  BY <1>1, <1>3, <1>4 DEF Commit, Copier!Commit, NoSpeed, srcVars
<1>. QED BY <1>5 DEF Copier!Next

LEMMA NextRefines == IInv /\ [Next]_vars => [Copier!Next]_(Copier!vars)
<1> SUFFICES ASSUME IInv, [Next]_vars PROVE [Copier!Next]_(Copier!vars)
  OBVIOUS
<1>1. CASE Commit
  BY <1>1, CommitRefines
<1>2. CASE Analyze \/ InsertSpectrum \/ FetchFlags \/ UpdateFlag \/ Verify
           \/ Crash \/ Restart \/ UNCHANGED vars
  <2>1. UNCHANGED <<srcVars, tgtVars>>
    BY <1>2 DEF Analyze, InsertSpectrum, FetchFlags, UpdateFlag, Verify,
                Crash, Restart, vars
  <2>. QED BY <2>1, TargetAlone
<1>. QED BY <1>1, <1>2 DEF Next, ScriptStep

\* migrate_spectra.py, with any number of crashes and re-runs, implements
\* the reconciling copier: the target only ever changes by one commit that
\* adds every missing source spectrum and sets every source flag.
THEOREM SpectraImplementsCopier == Spec => CopierRefinement
BY InitRefines, NextRefines, SpectraIInvInvariant, PTL DEF Spec, CopierRefinement, Copier!Spec

\* Every step the copier contract allows keeps the committed target: a
\* commit only adds spectra and only sets flags.
LEMMA CopierStepGrows == [Copier!Next]_(Copier!vars) => [TargetGrows]_vars
<1>1. ASSUME Copier!Next PROVE TargetGrows
  <2>1. PICK copySpectra \in BOOLEAN, setFlags \in BOOLEAN, batch \in SUBSET Copier!PositiveSpeedIds :
          Copier!Commit(copySpectra, setFlags, batch)
    BY <1>1 DEF Copier!Next
  <2>2. tgtSpectra \subseteq tgtSpectra'
    BY <2>1 DEF Copier!Commit
  <2>3. \A m \in MarkerId : tgtHasSpec[m] => tgtHasSpec'[m]
    BY <2>1, Zenon DEF Copier!Commit
  <2>. QED BY <2>2, <2>3 DEF TargetGrows
<1>2. ASSUME UNCHANGED Copier!vars PROVE UNCHANGED vars \/ TargetGrows
  BY <1>2 DEF Copier!vars, TargetGrows
<1>. QED BY <1>1, <1>2

\* The action property TargetNeverShrinks, for every value of the constants:
\* it follows from the refinement, since the contract's steps never shrink
\* the target and the refinement maps the target to itself.
THEOREM NoSpectraStepShrinksTarget == Spec => TargetNeverShrinks
BY SpectraImplementsCopier, CopierStepGrows, PTL DEF CopierRefinement, Copier!Spec, TargetNeverShrinks
=============================================================================
