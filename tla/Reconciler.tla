------------------------------ MODULE Reconciler ------------------------------
(***************************************************************************)
(* The contract of the "Reconciling Bulk Copier" of spec.md section 4.1,   *)
(* as seen in the committed target: every commit the copier makes is an    *)
(* atomic step that may                                                    *)
(*   - copy_missing: add every source spectrum the target lacks (one       *)
(*     transaction for all inserts of an entity);                          *)
(*   - set the has_spectrum flag of every marker flagged in the source     *)
(*     (conditional WHERE, a flag is never cleared);                       *)
(*   - update_scalar_column for a batch of source markers with a positive  *)
(*     speed: set the target speed only where it is NULL/0.                *)
(* Nothing else ever changes the target.  A detailed model of a script     *)
(* implements this specification when each of its steps is one of these   *)
(* commits or leaves the target alone.                                     *)
(***************************************************************************)
EXTENDS Integers

CONSTANTS SpectrumId, MarkerId, Speed

VARIABLES srcSpectra, srcHasSpec, srcSpeed, tgtSpectra, tgtHasSpec, tgtSpeed

vars == <<srcSpectra, srcHasSpec, srcSpeed, tgtSpectra, tgtHasSpec, tgtSpeed>>

SpeedVal == {0} \cup Speed

PositiveSpeedIds == {m \in MarkerId : srcSpeed[m] # 0}

Init ==
    /\ srcSpectra \in SUBSET SpectrumId
    /\ srcHasSpec \in [MarkerId -> BOOLEAN]
    /\ srcSpeed \in [MarkerId -> SpeedVal]
    /\ tgtSpectra \in SUBSET SpectrumId
    /\ tgtHasSpec \in [MarkerId -> BOOLEAN]
    /\ tgtSpeed \in [MarkerId -> SpeedVal]

\* One commit: which of the three effects it has is its parameters.
Commit(copySpectra, setFlags, batch) ==
    /\ tgtSpectra' = IF copySpectra THEN tgtSpectra \cup srcSpectra ELSE tgtSpectra
    /\ tgtHasSpec' = IF setFlags
                       THEN [m \in MarkerId |-> tgtHasSpec[m] \/ srcHasSpec[m]]
                       ELSE tgtHasSpec
    /\ tgtSpeed' = [m \in MarkerId |->
                      IF m \in batch /\ tgtSpeed[m] = 0 THEN srcSpeed[m] ELSE tgtSpeed[m]]
    /\ UNCHANGED <<srcSpectra, srcHasSpec, srcSpeed>>

Next ==
    \E copySpectra, setFlags \in BOOLEAN, batch \in SUBSET PositiveSpeedIds :
        Commit(copySpectra, setFlags, batch)

Spec == Init /\ [][Next]_vars

=============================================================================
