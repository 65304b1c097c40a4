------------------------- MODULE MigrateSpectraProofs -------------------------
(***************************************************************************)
(* Proofs, for every value of the constants, that migrate_spectra.py       *)
(* commits its inserts and flag updates together or not at all, and that a *)
(* run reaching verification has copied every source spectrum and flag.    *)
(* All follow from the inductive invariant IInv, which adds TxInv: what    *)
(* the single open transaction holds during each loop.                     *)
(***************************************************************************)
EXTENDS MigrateSpectra, TLAPS

USE SpectraConstAssumption

\* The script's exit leaves the target alone and resets its locals.
LEMMA ExitIInv ==
    ASSUME IInv, NEW r \in Outcome \ {"success", "warning"}, Exit(r),
           UNCHANGED <<srcVars, histVars, tgtVars, runs>>
    PROVE  IInv'
BY DEF IInv, TypeOK, Exit, MigrationAllOrNothing, CompletedRunCopiesAll,
       TxInv, AllSpectra, AllFlags, srcVars, histVars, tgtVars, Outcome, Working

LEMMA InitIInv == Init => IInv
<1> SUFFICES ASSUME Init PROVE IInv
  OBVIOUS
<1>1. TypeOK
  BY DEF Init, TypeOK, Outcome
<1>2. MigrationAllOrNothing /\ CompletedRunCopiesAll /\ TxInv
  BY DEF Init, MigrationAllOrNothing, CompletedRunCopiesAll, TxInv
<1>. QED BY <1>1, <1>2 DEF IInv

LEMMA AnalyzeIInv == IInv /\ Analyze => IInv'
<1> SUFFICES ASSUME IInv, Analyze PROVE IInv'
  OBVIOUS
<1>1. UNCHANGED <<srcVars, histVars, tgtVars>>
  BY DEF Analyze
<1>2. CASE Cardinality(srcSpectra) = 0
  BY <1>1, <1>2, ExitIInv DEF Analyze, Outcome
<1>3. CASE Cardinality(srcSpectra) # 0
  <2>1. PICK proceed \in BOOLEAN :
          IF ~proceed
            THEN Exit("cancelled") /\ UNCHANGED runs
            ELSE /\ pc' = "spectra"
                 /\ spectraTodo' = srcSpectra
                 /\ txSpectra' = tgtSpectra /\ txHasSpec' = tgtHasSpec
                 /\ UNCHANGED <<flagTodo, outcome, runs>>
    BY <1>3 DEF Analyze
  <2>2. CASE ~proceed
    BY <1>1, <2>1, <2>2, ExitIInv DEF Outcome
  <2>3. CASE proceed
    <3>1. /\ pc' = "spectra" /\ spectraTodo' = srcSpectra
          /\ txSpectra' = tgtSpectra /\ txHasSpec' = tgtHasSpec
          /\ UNCHANGED <<flagTodo, outcome, runs>>
      BY <2>1, <2>3
    <3>2. TypeOK'
      BY <1>1, <3>1 DEF IInv, TypeOK, srcVars, histVars, tgtVars, Working
    <3>3. MigrationAllOrNothing' /\ CompletedRunCopiesAll'
      BY <1>1, <3>1 DEF IInv, MigrationAllOrNothing, CompletedRunCopiesAll,
                        AllSpectra, AllFlags, srcVars, histVars, tgtVars
    <3>4. TxInv'
      BY <1>1, <3>1 DEF TxInv, srcVars, tgtVars
    <3>. QED BY <3>2, <3>3, <3>4 DEF IInv
  <2>. QED BY <2>2, <2>3
<1>. QED BY <1>2, <1>3

LEMMA InsertSpectrumIInv == IInv /\ InsertSpectrum => IInv'
<1> SUFFICES ASSUME IInv, InsertSpectrum PROVE IInv'
  OBVIOUS
<1>1. PICK s \in spectraTodo :
        IF s \notin txSpectra /\ s \in srcBad
          THEN Exit("failed") /\ UNCHANGED runs
          ELSE /\ spectraTodo' = spectraTodo \ {s}
               /\ txSpectra' = txSpectra \cup {s}
               /\ UNCHANGED <<pc, flagTodo, txHasSpec, outcome, runs>>
  BY DEF InsertSpectrum
<1>2. UNCHANGED <<srcVars, histVars, tgtVars>> /\ pc = "spectra"
  BY DEF InsertSpectrum
<1>3. CASE s \notin txSpectra /\ s \in srcBad
  BY <1>1, <1>2, <1>3, ExitIInv DEF Outcome
<1>4. CASE ~(s \notin txSpectra /\ s \in srcBad)
  <2>1. /\ spectraTodo' = spectraTodo \ {s}
        /\ txSpectra' = txSpectra \cup {s}
        /\ UNCHANGED <<pc, flagTodo, txHasSpec, outcome, runs>>
    BY <1>1, <1>4
  <2>2. TypeOK'
    BY <1>2, <2>1 DEF IInv, TypeOK, srcVars, histVars, tgtVars
  <2>3. MigrationAllOrNothing' /\ CompletedRunCopiesAll'
    BY <1>2, <2>1 DEF IInv, MigrationAllOrNothing, CompletedRunCopiesAll,
                      AllSpectra, AllFlags, srcVars, histVars, tgtVars
  <2>4. TxInv'
    BY <1>2, <2>1 DEF IInv, TxInv, srcVars, tgtVars
  <2>. QED BY <2>2, <2>3, <2>4 DEF IInv
<1>. QED BY <1>3, <1>4

LEMMA FetchFlagsIInv == IInv /\ FetchFlags => IInv'
<1> SUFFICES ASSUME IInv, FetchFlags PROVE IInv'
  OBVIOUS
<1>1. UNCHANGED <<srcVars, histVars, tgtVars>> /\ pc = "spectra"
      /\ spectraTodo = {} /\ pc' = "flags" /\ flagTodo' = FlagMarkerIds
      /\ UNCHANGED <<spectraTodo, txSpectra, txHasSpec, outcome, runs>>
  BY DEF FetchFlags
<1>2. FlagMarkerIds' = FlagMarkerIds
  BY <1>1 DEF FlagMarkerIds, srcVars
<1>3. TypeOK'
  BY <1>1 DEF IInv, TypeOK, FlagMarkerIds, srcVars, histVars, tgtVars, Working
<1>4. MigrationAllOrNothing' /\ CompletedRunCopiesAll'
  BY <1>1 DEF IInv, MigrationAllOrNothing, CompletedRunCopiesAll,
              AllSpectra, AllFlags, srcVars, histVars, tgtVars
<1>5. txHasSpec = [m \in MarkerId |->
                     tgtHasSpec[m] \/ m \in FlagMarkerIds \ FlagMarkerIds]
  BY <1>1 DEF IInv, TxInv, TypeOK
<1>6. TxInv'
  BY <1>1, <1>2, <1>5 DEF IInv, TxInv, srcVars, tgtVars
<1>. QED BY <1>3, <1>4, <1>6 DEF IInv

LEMMA UpdateFlagIInv == IInv /\ UpdateFlag => IInv'
<1> SUFFICES ASSUME IInv, UpdateFlag PROVE IInv'
  OBVIOUS
<1>1. PICK m \in flagTodo :
        /\ flagTodo' = flagTodo \ {m}
        /\ txHasSpec' = [txHasSpec EXCEPT ![m] = TRUE]
  BY DEF UpdateFlag
<1>2. /\ UNCHANGED <<srcVars, histVars, tgtVars, pc, spectraTodo,
                     txSpectra, outcome, runs>>
      /\ pc = "flags"
  BY DEF UpdateFlag
<1>3. m \in FlagMarkerIds /\ m \in MarkerId
  BY <1>1, <1>2 DEF IInv, TxInv, FlagMarkerIds
<1>4. TypeOK'
  BY <1>1, <1>2, <1>3 DEF IInv, TypeOK, srcVars, histVars, tgtVars
<1>5. MigrationAllOrNothing' /\ CompletedRunCopiesAll'
  BY <1>2 DEF IInv, MigrationAllOrNothing, CompletedRunCopiesAll,
              AllSpectra, AllFlags, srcVars, histVars, tgtVars
<1>6. FlagMarkerIds' = FlagMarkerIds
  BY <1>2 DEF FlagMarkerIds, srcVars
<1>7. txHasSpec' = [k \in MarkerId |->
                      tgtHasSpec'[k] \/ k \in FlagMarkerIds' \ flagTodo']
  <2>1. txHasSpec = [k \in MarkerId |->
                       tgtHasSpec[k] \/ k \in FlagMarkerIds \ flagTodo]
    BY <1>2 DEF IInv, TxInv
  <2>2. tgtHasSpec \in [MarkerId -> BOOLEAN] /\ tgtHasSpec' = tgtHasSpec
    BY <1>2 DEF IInv, TypeOK, tgtVars
  <2>. QED BY <1>1, <1>3, <1>6, <2>1, <2>2
<1>8. TxInv'
  BY <1>1, <1>2, <1>6, <1>7 DEF IInv, TxInv, srcVars, tgtVars
<1>. QED BY <1>4, <1>5, <1>8 DEF IInv

\* The commit publishes the transaction, which by TxInv is the target with
\* every source row and flag added.
LEMMA CommitIInv == IInv /\ Commit => IInv'
<1> SUFFICES ASSUME IInv, Commit PROVE IInv'
  OBVIOUS
<1>1. /\ pc = "flags" /\ flagTodo = {} /\ pc' = "verify"
      /\ tgtSpectra' = txSpectra /\ tgtHasSpec' = txHasSpec
      /\ UNCHANGED <<srcVars, histVars, spectraTodo, flagTodo,
                     txSpectra, txHasSpec, outcome, runs>>
  BY DEF Commit
<1>2. txSpectra = AllSpectra
  BY <1>1 DEF IInv, TxInv, MigrationAllOrNothing, AllSpectra
<1>3. txHasSpec = AllFlags
  BY <1>1 DEF IInv, TxInv, TypeOK, MigrationAllOrNothing, AllFlags, FlagMarkerIds
<1>4. AllSpectra' = AllSpectra /\ AllFlags' = AllFlags
  BY <1>1 DEF AllSpectra, AllFlags, srcVars, histVars
<1>5. TypeOK'
  BY <1>1 DEF IInv, TypeOK, srcVars, histVars, Working
<1>6. MigrationAllOrNothing' /\ TxInv'
  BY <1>1, <1>2, <1>3, <1>4 DEF MigrationAllOrNothing, TxInv
<1>7. CompletedRunCopiesAll'
  BY <1>1, <1>2, <1>3 DEF IInv, TypeOK, CompletedRunCopiesAll, AllSpectra,
                          AllFlags, srcVars
<1>. QED BY <1>5, <1>6, <1>7 DEF IInv

\* A run that reaches verification has committed everything (TxInv), so
\* both banners it can print satisfy CompletedRunCopiesAll.
LEMMA VerifyIInv == IInv /\ Verify => IInv'
<1> SUFFICES ASSUME IInv, Verify PROVE IInv'
  OBVIOUS
<1>1. PICK r \in {"success", "warning"} :
        Exit(r) /\ UNCHANGED <<srcVars, histVars, tgtVars, runs>>
  BY DEF Verify
<1>2. pc = "verify"
  BY DEF Verify
<1>3. tgtSpectra = AllSpectra /\ tgtHasSpec = AllFlags
  BY <1>2 DEF IInv, TxInv
<1>4. TypeOK'
  BY <1>1 DEF IInv, TypeOK, Exit, srcVars, histVars, tgtVars, Outcome
<1>5. MigrationAllOrNothing'
  BY <1>1 DEF IInv, MigrationAllOrNothing, AllSpectra, AllFlags,
              srcVars, histVars, tgtVars
<1>6. CompletedRunCopiesAll'
  BY <1>1, <1>3 DEF IInv, TypeOK, CompletedRunCopiesAll, AllSpectra, AllFlags,
                    srcVars, tgtVars
<1>7. TxInv'
  BY <1>1 DEF TxInv, Exit
<1>. QED BY <1>4, <1>5, <1>6, <1>7 DEF IInv

LEMMA CrashIInv == IInv /\ Crash => IInv'
BY ExitIInv DEF Crash, Outcome

LEMMA RestartIInv == IInv /\ Restart => IInv'
<1> SUFFICES ASSUME IInv, Restart PROVE IInv'
  OBVIOUS
<1>1. /\ pc = "exited" /\ runs < MaxRuns /\ pc' = "start"
      /\ outcome' = "none" /\ runs' = runs + 1
      /\ UNCHANGED <<srcVars, histVars, tgtVars, spectraTodo, flagTodo,
                     txSpectra, txHasSpec>>
  BY DEF Restart
<1>2. TypeOK'
  BY <1>1 DEF IInv, TypeOK, srcVars, histVars, tgtVars, Outcome
<1>3. MigrationAllOrNothing' /\ CompletedRunCopiesAll' /\ TxInv'
  BY <1>1 DEF IInv, MigrationAllOrNothing, CompletedRunCopiesAll, TxInv,
              AllSpectra, AllFlags, srcVars, histVars, tgtVars
<1>. QED BY <1>2, <1>3 DEF IInv

LEMMA StutterIInv == IInv /\ UNCHANGED vars => IInv'
BY DEF IInv, TypeOK, MigrationAllOrNothing, CompletedRunCopiesAll, TxInv,
       AllSpectra, AllFlags, FlagMarkerIds, vars, srcVars, histVars, tgtVars, runVars

LEMMA NextIInv == IInv /\ [Next]_vars => IInv'
BY InitIInv, AnalyzeIInv, InsertSpectrumIInv, FetchFlagsIInv, UpdateFlagIInv,
   CommitIInv, VerifyIInv, CrashIInv, RestartIInv, StutterIInv
DEF Next, ScriptStep

\* IInv holds in every state of every behaviour of the script.
THEOREM SpectraIInvInvariant == Spec => []IInv
BY InitIInv, NextIInv, PTL DEF Spec

\* Every reachable state of migrate_spectra.py runs is well typed.
THEOREM SpectraTypeCorrect == Spec => []TypeOK
BY SpectraIInvInvariant, PTL DEF IInv

\* The one transaction of migrate_spectra.py: whatever crashes, failing
\* INSERTs and re-runs happen, spectra and flags are committed together.
THEOREM SpectraAndFlagsAtomic == Spec => []MigrationAllOrNothing
BY SpectraIInvInvariant, PTL DEF IInv

\* A run of migrate_spectra.py that reaches its verification banner has
\* copied every source spectrum and every source flag into the target.
THEOREM CompletedRunCopiesEverything == Spec => []CompletedRunCopiesAll
BY SpectraIInvInvariant, PTL DEF IInv
=============================================================================
