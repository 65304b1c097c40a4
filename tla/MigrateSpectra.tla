---------------------------- MODULE MigrateSpectra ----------------------------
(***************************************************************************)
(* src/migrate_spectra.py: one run of main() copies the spectra rows and   *)
(* the has_spectrum flags of the SQLite source into the PostgreSQL target  *)
(* in ONE transaction (inserts, then unguarded flag updates, then a single *)
(* commit); the operator may run it again after it exits.                  *)
(*                                                                         *)
(* As in MigrateAllData: the source never changes, the target is its       *)
(* committed state (the tgt variables) plus the open transaction's view    *)
(* (the tx variables), and a crash or exception anywhere discards the      *)
(* open transaction and ends the run.                                      *)
(***************************************************************************)
EXTENDS Integers, FiniteSets

CONSTANTS
    SpectrumId,   \* primary keys of spectra rows (ORDER BY id)
    MarkerId,     \* primary keys of marker rows
    MaxRuns       \* how many times the operator starts the script

ASSUME SpectraConstAssumption ==
    /\ SpectrumId \subseteq Nat
    /\ MarkerId \subseteq Nat
    /\ MaxRuns \in Nat \ {0}

VARIABLES
    srcSpectra,   \* ids of the source rows of spectra
    srcBad,       \* rows whose INSERT raises (created_at NULL, FK, ...)
    srcHasSpec,   \* source markers.has_spectrum
    tgtSpectra, tgtHasSpec,      \* target, committed
    txSpectra, txHasSpec,        \* the open transaction's view
    tgtSpectra0, tgtHasSpec0,    \* the target before the first run
    pc,           \* "start", "spectra", "flags", "verify", "exited"
    spectraTodo,  \* rows of spectra_rows not yet visited
    flagTodo,     \* marker_ids not yet visited
    outcome,      \* how the last run ended
    runs          \* runs started so far

srcVars == <<srcSpectra, srcBad, srcHasSpec>>
histVars == <<tgtSpectra0, tgtHasSpec0>>
tgtVars == <<tgtSpectra, tgtHasSpec>>
runVars == <<pc, spectraTodo, flagTodo, txSpectra, txHasSpec, outcome, runs>>
vars == <<srcVars, histVars, tgtVars, runVars>>

Outcome == {"none", "nothing", "cancelled", "failed", "success", "warning"}
Working == {"spectra", "flags", "verify"}

IsFirst(x, S) == x \in S /\ \A y \in S : x <= y

\* Mutant: the WHERE clause dropped, every marker flagged.
FlagMarkerIdsAll == MarkerId

\* SELECT id FROM markers WHERE has_spectrum = 1
FlagMarkerIds == {m \in MarkerId : srcHasSpec[m]}

\* The target each committed run leaves: every source row and flag added.
AllSpectra == tgtSpectra0 \cup srcSpectra
AllFlags == [m \in MarkerId |-> tgtHasSpec0[m] \/ srcHasSpec[m]]

Exit(result) ==
    /\ pc' = "exited"
    /\ outcome' = result
    /\ spectraTodo' = {} /\ flagTodo' = {}
    /\ txSpectra' = {} /\ txHasSpec' = [m \in MarkerId |-> FALSE]

Init ==
    /\ srcSpectra \in SUBSET SpectrumId
    /\ srcBad \in SUBSET srcSpectra
    /\ srcHasSpec \in [MarkerId -> BOOLEAN]
    /\ tgtSpectra \in SUBSET SpectrumId
    /\ tgtHasSpec \in [MarkerId -> BOOLEAN]
    /\ tgtSpectra0 = tgtSpectra /\ tgtHasSpec0 = tgtHasSpec
    /\ pc = "start" /\ outcome = "none" /\ runs = 1
    /\ spectraTodo = {} /\ flagTodo = {}
    /\ txSpectra = {} /\ txHasSpec = [m \in MarkerId |-> FALSE]

\* Mutant: the count gate of migrate_all_data.py, inserts only when the
\* source has more rows than the target.
AnalyzeGated ==
    /\ pc = "start"
    /\ IF Cardinality(srcSpectra) = 0
         THEN Exit("nothing") /\ UNCHANGED runs
         ELSE \E proceed \in BOOLEAN :
                IF ~proceed
                  THEN Exit("cancelled") /\ UNCHANGED runs
                  ELSE /\ pc' = "spectra"
                       /\ spectraTodo' = IF Cardinality(srcSpectra) > Cardinality(tgtSpectra)
                                           THEN srcSpectra ELSE {}
                       /\ txSpectra' = tgtSpectra /\ txHasSpec' = tgtHasSpec
                       /\ UNCHANGED <<flagTodo, outcome, runs>>
    /\ UNCHANGED <<srcVars, histVars, tgtVars>>

\* Mutant: a reload that empties the tables in the transaction first.
AnalyzeTruncate ==
    /\ pc = "start"
    /\ IF Cardinality(srcSpectra) = 0
         THEN Exit("nothing") /\ UNCHANGED runs
         ELSE \E proceed \in BOOLEAN :
                IF ~proceed
                  THEN Exit("cancelled") /\ UNCHANGED runs
                  ELSE /\ pc' = "spectra"
                       /\ spectraTodo' = srcSpectra
                       /\ txSpectra' = {} /\ txHasSpec' = [m \in MarkerId |-> FALSE]
                       /\ UNCHANGED <<flagTodo, outcome, runs>>
    /\ UNCHANGED <<srcVars, histVars, tgtVars>>

(***************************************************************************)
(* Pre-flight: exit if the source has no spectra (its flags are then not   *)
(* looked at either), ask the user, fetch every source row ORDER BY id and *)
(* BEGIN the one transaction.                                              *)
(***************************************************************************)
Analyze ==
    /\ pc = "start"
    /\ IF Cardinality(srcSpectra) = 0
         THEN Exit("nothing") /\ UNCHANGED runs
         ELSE \E proceed \in BOOLEAN :
                IF ~proceed
                  THEN Exit("cancelled") /\ UNCHANGED runs
                  ELSE /\ pc' = "spectra"
                       /\ spectraTodo' = srcSpectra
                       /\ txSpectra' = tgtSpectra /\ txHasSpec' = tgtHasSpec
                       /\ UNCHANGED <<flagTodo, outcome, runs>>
    /\ UNCHANGED <<srcVars, histVars, tgtVars>>

\* One iteration of "for row in spectra_rows": skip a row the target has,
\* otherwise INSERT it; an INSERT that raises rolls back and exits.
InsertSpectrum ==
    /\ pc = "spectra"
    /\ \E s \in spectraTodo :
         /\ IsFirst(s, spectraTodo)
         /\ IF s \notin txSpectra /\ s \in srcBad
              THEN Exit("failed") /\ UNCHANGED runs
              ELSE /\ spectraTodo' = spectraTodo \ {s}
                   /\ txSpectra' = txSpectra \cup {s}
                   /\ UNCHANGED <<pc, flagTodo, txHasSpec, outcome, runs>>
    /\ UNCHANGED <<srcVars, histVars, tgtVars>>

\* Mutant: the inserts committed before the flag loop (two transactions).
FetchFlagsCommitFirst ==
    /\ pc = "spectra"
    /\ spectraTodo = {}
    /\ pc' = "flags"
    /\ flagTodo' = FlagMarkerIds
    /\ tgtSpectra' = txSpectra
    /\ UNCHANGED <<srcVars, histVars, tgtHasSpec, spectraTodo,
                   txSpectra, txHasSpec, outcome, runs>>

\* The row loop is done; still in the transaction, fetch the flagged
\* source markers.
FetchFlags ==
    /\ pc = "spectra"
    /\ spectraTodo = {}
    /\ pc' = "flags"
    /\ flagTodo' = FlagMarkerIds
    /\ UNCHANGED <<srcVars, histVars, tgtVars, spectraTodo,
                   txSpectra, txHasSpec, outcome, runs>>

\* UPDATE markers SET has_spectrum = true WHERE id = %s (no guard)
UpdateFlag ==
    /\ pc = "flags"
    /\ \E m \in flagTodo :
         /\ IsFirst(m, flagTodo)
         /\ flagTodo' = flagTodo \ {m}
         /\ txHasSpec' = [txHasSpec EXCEPT ![m] = TRUE]
    /\ UNCHANGED <<srcVars, histVars, tgtVars, pc, spectraTodo,
                   txSpectra, outcome, runs>>

\* pg_conn.commit(): the inserts and the flag updates at once.
Commit ==
    /\ pc = "flags"
    /\ flagTodo = {}
    /\ tgtSpectra' = txSpectra
    /\ tgtHasSpec' = txHasSpec
    /\ pc' = "verify"
    /\ UNCHANGED <<srcVars, histVars, spectraTodo, flagTodo,
                   txSpectra, txHasSpec, outcome, runs>>

\* final_spectra_count >= sqlite_spectra_count decides the banner.
Verify ==
    /\ pc = "verify"
    /\ Exit(IF Cardinality(tgtSpectra) >= Cardinality(srcSpectra)
              THEN "success" ELSE "warning")
    /\ UNCHANGED <<srcVars, histVars, tgtVars, runs>>

\* An exception or the process being killed: rollback, exit 1.
Crash ==
    /\ pc \in {"start"} \cup Working
    /\ Exit("failed")
    /\ UNCHANGED <<srcVars, histVars, tgtVars, runs>>

\* The operator runs the script again.
Restart ==
    /\ pc = "exited"
    /\ runs < MaxRuns
    /\ pc' = "start"
    /\ outcome' = "none"
    /\ runs' = runs + 1
    /\ UNCHANGED <<srcVars, histVars, tgtVars, spectraTodo, flagTodo,
                   txSpectra, txHasSpec>>

ScriptStep == InsertSpectrum \/ FetchFlags \/ UpdateFlag \/ Commit \/ Verify

Next == Analyze \/ ScriptStep \/ Crash \/ Restart

Spec == Init /\ [][Next]_vars

-----------------------------------------------------------------------------
(* The copier contract of spec.md section 4.1 *)

\* This script copies no speeds: the contract's speed columns are all NULL.
Copier == INSTANCE Reconciler
              WITH Speed <- {},
                   srcSpeed <- [m \in MarkerId |-> 0],
                   tgtSpeed <- [m \in MarkerId |-> 0]

\* migrate_spectra.py implements the reconciling copier: its one commit is a
\* copy_missing of every source row together with the setting of every
\* source flag, and every other step leaves the target alone.
CopierRefinement == Copier!Spec

\* A step that keeps every committed spectrum and every committed
\* has_spectrum flag that is set.
TargetGrows ==
    /\ tgtSpectra \subseteq tgtSpectra'
    /\ \A m \in MarkerId : tgtHasSpec[m] => tgtHasSpec'[m]

\* No step of migrate_spectra.py, crash, rollback and re-run included,
\* deletes a target spectrum or clears a target flag: the transaction
\* starts from the target's rows, inserts skip existing ids and the flag
\* UPDATE only sets true.
TargetNeverShrinks == [][TargetGrows]_vars

-----------------------------------------------------------------------------
(* Properties *)

TypeOK ==
    /\ srcSpectra \subseteq SpectrumId /\ srcBad \subseteq srcSpectra
    /\ srcHasSpec \in [MarkerId -> BOOLEAN]
    /\ tgtSpectra \subseteq SpectrumId /\ tgtSpectra0 \subseteq SpectrumId
    /\ tgtHasSpec \in [MarkerId -> BOOLEAN] /\ tgtHasSpec0 \in [MarkerId -> BOOLEAN]
    /\ txSpectra \subseteq SpectrumId /\ txHasSpec \in [MarkerId -> BOOLEAN]
    /\ pc \in {"start", "exited"} \cup Working
    /\ spectraTodo \subseteq SpectrumId /\ flagTodo \subseteq MarkerId
    /\ outcome \in Outcome
    /\ runs \in 1..MaxRuns

\* Inserts and flag updates share one transaction: across crashes, failing
\* rows and re-runs, the committed target is either what it was before the
\* first run or that plus every source spectrum AND every source flag;
\* never spectra without their flags or the other way round.
MigrationAllOrNothing ==
    <<tgtSpectra, tgtHasSpec>> \in {<<tgtSpectra0, tgtHasSpec0>>,
                                    <<AllSpectra, AllFlags>>}

\* spec.md section 8 for this script: a run that reached the verification
\* (banner "completed successfully" or the count warning) has put every
\* source spectrum and every source flag into the target.  Unlike
\* migrate_all_data.py it visits every row whatever the counts say.
CompletedRunCopiesAll ==
    outcome \in {"success", "warning"} =>
        /\ srcSpectra \subseteq tgtSpectra
        /\ \A m \in MarkerId : srcHasSpec[m] => tgtHasSpec[m]

\* The open transaction during the two loops: the committed target plus
\* the source rows and flags visited so far.  With the invariants above it
\* is inductive.
TxInv ==
    /\ pc \in {"spectra", "flags"} =>
         /\ spectraTodo \subseteq srcSpectra
         /\ txSpectra = tgtSpectra \cup (srcSpectra \ spectraTodo)
    /\ pc = "spectra" => txHasSpec = tgtHasSpec
    /\ pc = "flags" =>
         /\ spectraTodo = {}
         /\ flagTodo \subseteq FlagMarkerIds
         /\ txHasSpec = [m \in MarkerId |->
                           tgtHasSpec[m] \/ m \in FlagMarkerIds \ flagTodo]
    /\ pc = "verify" => <<tgtSpectra, tgtHasSpec>> = <<AllSpectra, AllFlags>>

IInv ==
    /\ TypeOK
    /\ MigrationAllOrNothing
    /\ CompletedRunCopiesAll
    /\ TxInv

=============================================================================
