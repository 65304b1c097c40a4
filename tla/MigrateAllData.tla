--------------------------- MODULE MigrateAllData ---------------------------
(***************************************************************************)
(* src/migrate_all_data.py: one run of main() copies spectra, marker       *)
(* has_spectrum flags and marker speeds from the SQLite source into the    *)
(* PostgreSQL target, and the operator may run it again after it exits.   *)
(*                                                                         *)
(* The source never changes.  The target is modelled by its committed     *)
(* state (the tgt variables) and, while a transaction is open, by its     *)
(* own view (the tx variables).  A crash or an exception anywhere        *)
(* discards the open transaction and ends the run (exit 1); batches of    *)
(* the speed phase that were committed stay.  A speed that is NULL or 0 is the value 0.         *)
(***************************************************************************)
EXTENDS Integers, FiniteSets

CONSTANTS
    SpectrumId,   \* primary keys of spectra rows
    MarkerId,     \* primary keys of marker rows (ordered: ORDER BY id)
    Speed,        \* positive speed values
    BatchSize,    \* BATCH_SIZE of the speed phase
    MaxRuns       \* how many times the operator starts the script

ASSUME ConstAssumption ==
    /\ SpectrumId \subseteq Nat /\ IsFiniteSet(SpectrumId)   \* rows of a table
    /\ MarkerId \subseteq Nat /\ IsFiniteSet(MarkerId)   \* rows of a table
    /\ Speed \subseteq Nat \ {0}
    /\ BatchSize \in Nat \ {0}
    /\ MaxRuns \in Nat \ {0}

VARIABLES
    \* SQLite source (read-only)
    srcSpectra,   \* ids of the rows of spectra
    srcBad,       \* rows whose INSERT raises (created_at NULL, FK, ...)
    srcHasSpec,   \* markers.has_spectrum
    srcSpeed,     \* markers.speed
    \* PostgreSQL target, committed state
    tgtSpectra, tgtHasSpec, tgtSpeed,
    \* the open transaction's view of the target
    txSpectra, txHasSpec,
    \* the target as it was before the first run (history)
    tgtSpectra0, tgtHasSpec0, tgtSpeed0,
    \* the running script
    pc,              \* "start", "spectra", "flags", "speed", "verify", "exited"
    afterFlags,      \* "speed" if speed_to_migrate > 0, else "verify"
    spectraTodo,     \* rows of spectra_rows not yet visited
    flagTodo,        \* marker_ids not yet visited
    offset,          \* OFFSET of the next speed batch
    outcome,         \* how the last run ended
    runs             \* runs started so far

srcVars == <<srcSpectra, srcBad, srcHasSpec, srcSpeed>>
histVars == <<tgtSpectra0, tgtHasSpec0, tgtSpeed0>>
tgtVars == <<tgtSpectra, tgtHasSpec, tgtSpeed>>
runVars == <<pc, afterFlags, spectraTodo, flagTodo,
             offset, txSpectra, txHasSpec, outcome, runs>>
vars == <<srcVars, histVars, tgtVars, runVars>>

SpeedVal == {0} \cup Speed
Outcome == {"none", "nothing", "cancelled", "failed", "success", "warning"}
Working == {"spectra", "flags", "speed", "verify"}

\* SELECT id FROM markers WHERE speed IS NOT NULL AND speed > 0
PosSpeedIds(speed) == {m \in MarkerId : speed[m] # 0}

\* x is the first of a set of ids: ORDER BY id.
IsFirst(x, S) == x \in S /\ \A y \in S : x <= y

\* Position (from 1) of marker m in ... WHERE speed > 0 ORDER BY id.
Rank(m) == Cardinality({j \in PosSpeedIds(srcSpeed) : j <= m})

\* ... ORDER BY id LIMIT BatchSize OFFSET o
Batch(o) == {m \in PosSpeedIds(srcSpeed) : o < Rank(m) /\ Rank(m) <= o + BatchSize}

FlagMarkerIdsAll == MarkerId   \* mutant: the WHERE clause dropped

\* SELECT id FROM markers WHERE has_spectrum = 1
FlagMarkerIds == {m \in MarkerId : srcHasSpec[m]}

ApplySpeedsNoGuard(speed, batch) ==   \* mutant: the NULL/0 guard dropped
    [m \in MarkerId |-> IF m \in batch THEN srcSpeed[m] ELSE speed[m]]

\* UPDATE markers AS m SET speed = v.speed FROM (VALUES batch) AS v(id, speed)
\*   WHERE m.id = v.id AND (m.speed IS NULL OR m.speed = 0)
ApplySpeeds(speed, batch) ==
    [m \in MarkerId |-> IF m \in batch /\ speed[m] = 0 THEN srcSpeed[m] ELSE speed[m]]

NextOffsetSkip(o) == o + BatchSize + 1   \* mutant: off by one
NextOffsetStuck(o) == o                  \* mutant: offset never advanced
NextOffsetBack(o) == o - BatchSize       \* mutant: sign slip

\* offset += BATCH_SIZE
NextOffset(o) == o + BatchSize

\* The script's exit: the open transaction is gone, the locals are reset.
Exit(result) ==
    /\ pc' = "exited"
    /\ outcome' = result
    /\ spectraTodo' = {} /\ flagTodo' = {} /\ offset' = 0
    /\ txSpectra' = {} /\ txHasSpec' = [m \in MarkerId |-> FALSE]
    /\ afterFlags' = "verify"

Init ==
    /\ srcSpectra \in SUBSET SpectrumId
    /\ srcBad \in SUBSET srcSpectra
    /\ srcHasSpec \in [MarkerId -> BOOLEAN]
    /\ srcSpeed \in [MarkerId -> SpeedVal]
    /\ tgtSpectra \in SUBSET SpectrumId
    /\ tgtHasSpec \in [MarkerId -> BOOLEAN]
    /\ tgtSpeed \in [MarkerId -> SpeedVal]
    /\ tgtSpectra0 = tgtSpectra /\ tgtHasSpec0 = tgtHasSpec /\ tgtSpeed0 = tgtSpeed
    /\ pc = "start" /\ outcome = "none" /\ runs = 1
    /\ spectraTodo = {} /\ flagTodo = {} /\ offset = 0
    /\ txSpectra = {} /\ txHasSpec = [m \in MarkerId |-> FALSE]
    /\ afterFlags = "verify"

(***************************************************************************)
(* Pre-flight: count the source, exit if it has nothing, count the target, *)
(* compute the two gates from the counts, ask the user, then BEGIN the     *)
(* spectra phase (or go straight to the flag phase).                       *)
(***************************************************************************)
Analyze ==
    LET srcSpectraCount == Cardinality(srcSpectra)
        srcSpeedCount   == Cardinality(PosSpeedIds(srcSpeed))
        spectraToMigrate == srcSpectraCount - Cardinality(tgtSpectra)
        speedToMigrate   == srcSpeedCount - Cardinality(PosSpeedIds(tgtSpeed))
    IN
    /\ pc = "start"
    /\ IF srcSpectraCount = 0 /\ srcSpeedCount = 0
         THEN Exit("nothing") /\ UNCHANGED runs
         \* both prompts: "re-check anyway?" (only when both gates are
         \* <= 0) and "Continue with migration?"
         ELSE \E proceed \in BOOLEAN :
                IF ~proceed
                  THEN Exit("cancelled") /\ UNCHANGED runs
                  ELSE /\ afterFlags' = IF speedToMigrate > 0 THEN "speed" ELSE "verify"
                       /\ IF spectraToMigrate > 0
                            THEN /\ pc' = "spectra"
                                 /\ spectraTodo' = srcSpectra
                                 /\ txSpectra' = tgtSpectra
                                 /\ UNCHANGED <<flagTodo, txHasSpec>>
                            ELSE /\ pc' = "flags"
                                 /\ flagTodo' = FlagMarkerIds
                                 /\ txHasSpec' = tgtHasSpec
                                 /\ UNCHANGED <<spectraTodo, txSpectra>>
                       /\ UNCHANGED <<offset, outcome, runs>>
    /\ UNCHANGED <<srcVars, histVars, tgtVars>>

\* Mutant: every inserted row committed at once, not at the end of the loop.
InsertSpectrumCommitEach ==
    /\ pc = "spectra"
    /\ \E s \in spectraTodo :
         /\ IsFirst(s, spectraTodo)
         /\ IF s \notin txSpectra /\ s \in srcBad
              THEN Exit("failed") /\ UNCHANGED <<runs, tgtVars>>
              ELSE /\ spectraTodo' = spectraTodo \ {s}
                   /\ txSpectra' = txSpectra \cup {s}
                   /\ tgtSpectra' = txSpectra \cup {s}
                   /\ UNCHANGED <<pc, afterFlags, flagTodo, offset, txHasSpec,
                                  outcome, runs, tgtHasSpec, tgtSpeed>>
    /\ UNCHANGED <<srcVars, histVars>>

\* One iteration of "for row in spectra_rows": skip a row the target has,
\* otherwise INSERT it; an INSERT that raises rolls back and exits.
InsertSpectrum ==
    /\ pc = "spectra"
    /\ \E s \in spectraTodo :
         /\ IsFirst(s, spectraTodo)
         /\ IF s \notin txSpectra /\ s \in srcBad
              THEN Exit("failed") /\ UNCHANGED runs
              ELSE /\ spectraTodo' = spectraTodo \ {s}
                   /\ txSpectra' = txSpectra \cup {s}
                   /\ UNCHANGED <<pc, afterFlags, flagTodo,
                                  offset, txHasSpec, outcome, runs>>
    /\ UNCHANGED <<srcVars, histVars, tgtVars>>

\* pg_conn.commit() of the spectra phase, then BEGIN of the flag phase.
CommitSpectra ==
    /\ pc = "spectra"
    /\ spectraTodo = {}
    /\ tgtSpectra' = txSpectra
    /\ pc' = "flags"
    /\ flagTodo' = FlagMarkerIds
    /\ txHasSpec' = tgtHasSpec
    /\ UNCHANGED <<srcVars, histVars, tgtHasSpec, tgtSpeed, afterFlags,
                   spectraTodo, offset, txSpectra, outcome, runs>>

\* UPDATE markers SET has_spectrum = true WHERE id = %s AND has_spectrum = false
UpdateFlag ==
    /\ pc = "flags"
    /\ \E m \in flagTodo :
         /\ IsFirst(m, flagTodo)
         /\ flagTodo' = flagTodo \ {m}
         /\ txHasSpec' = IF ~txHasSpec[m] THEN [txHasSpec EXCEPT ![m] = TRUE]
                                          ELSE txHasSpec
    /\ UNCHANGED <<srcVars, histVars, tgtVars, pc, afterFlags,
                   spectraTodo, offset, txSpectra, outcome, runs>>

\* pg_conn.commit() of the flag phase; the speed phase runs only if
\* speed_to_migrate > 0.
CommitFlags ==
    /\ pc = "flags"
    /\ flagTodo = {}
    /\ tgtHasSpec' = txHasSpec
    /\ pc' = afterFlags
    /\ offset' = 0
    /\ UNCHANGED <<srcVars, histVars, tgtSpectra, tgtSpeed, afterFlags,
                   spectraTodo, flagTodo, txSpectra, txHasSpec,
                   outcome, runs>>

\* Mutant: "if not batch: break" dropped, the loop pages on past the end.
SpeedBatchNoBreak ==
    /\ pc = "speed"
    /\ tgtSpeed' = ApplySpeeds(tgtSpeed, Batch(offset))
    /\ offset' = NextOffset(offset)
    /\ UNCHANGED <<srcVars, histVars, tgtSpectra, tgtHasSpec, pc, afterFlags,
                   spectraTodo, flagTodo, txSpectra, txHasSpec,
                   outcome, runs>>

\* One iteration of the speed loop with a non-empty batch: BEGIN, the bulk
\* conditional UPDATE, commit, offset += BATCH_SIZE.
SpeedBatch ==
    /\ pc = "speed"
    /\ Batch(offset) # {}
    /\ tgtSpeed' = ApplySpeeds(tgtSpeed, Batch(offset))
    /\ offset' = NextOffset(offset)
    /\ UNCHANGED <<srcVars, histVars, tgtSpectra, tgtHasSpec, pc, afterFlags,
                   spectraTodo, flagTodo, txSpectra, txHasSpec,
                   outcome, runs>>

\* "if not batch: break"
SpeedDone ==
    /\ pc = "speed"
    /\ Batch(offset) = {}
    /\ pc' = "verify"
    /\ UNCHANGED <<srcVars, histVars, tgtVars, afterFlags,
                   spectraTodo, flagTodo, offset, txSpectra, txHasSpec,
                   outcome, runs>>

\* Final counts against the source counts taken before the run; the speed
\* count may fall short by 1% (final < src * 0.99, in integers).
Verify ==
    LET spectraOk == Cardinality(tgtSpectra) >= Cardinality(srcSpectra)
        speedOk   == ~(100 * Cardinality(PosSpeedIds(tgtSpeed))
                         < 99 * Cardinality(PosSpeedIds(srcSpeed)))
    IN
    /\ pc = "verify"
    /\ Exit(IF spectraOk /\ speedOk THEN "success" ELSE "warning")
    /\ UNCHANGED <<srcVars, histVars, tgtVars, runs>>

\* An exception (connection refused, a failed statement) or the process
\* being killed: the open transaction is rolled back, exit code 1.
Crash ==
    /\ pc \in {"start"} \cup Working
    /\ Exit("failed")
    /\ UNCHANGED <<srcVars, histVars, tgtVars, runs>>

\* The operator runs the script again.
Restart ==
    /\ pc = "exited"
    /\ runs < MaxRuns
    /\ pc' = "start"
    /\ outcome' = "none"
    /\ runs' = runs + 1
    /\ UNCHANGED <<srcVars, histVars, tgtVars, afterFlags,
                   spectraTodo, flagTodo, offset, txSpectra, txHasSpec>>

\* The steps the script takes by itself once the user has confirmed.
ScriptStep ==
    \/ InsertSpectrum \/ CommitSpectra \/ UpdateFlag \/ CommitFlags
    \/ SpeedBatch \/ SpeedDone \/ Verify

Next == Analyze \/ ScriptStep \/ Crash \/ Restart

Spec == Init /\ [][Next]_vars

\* The single-threaded script keeps running while it can; the user, the
\* operator and failures are not fair.
FairSpec == Spec /\ WF_vars(ScriptStep)

-----------------------------------------------------------------------------
(* Properties *)

TypeOK ==
    /\ srcSpectra \subseteq SpectrumId /\ srcBad \subseteq srcSpectra
    /\ srcHasSpec \in [MarkerId -> BOOLEAN] /\ srcSpeed \in [MarkerId -> SpeedVal]
    /\ tgtSpectra \subseteq SpectrumId /\ tgtSpectra0 \subseteq SpectrumId
    /\ tgtHasSpec \in [MarkerId -> BOOLEAN] /\ tgtHasSpec0 \in [MarkerId -> BOOLEAN]
    /\ tgtSpeed \in [MarkerId -> SpeedVal] /\ tgtSpeed0 \in [MarkerId -> SpeedVal]
    /\ txSpectra \subseteq SpectrumId /\ txHasSpec \in [MarkerId -> BOOLEAN]
    /\ pc \in {"start", "exited"} \cup Working
    /\ afterFlags \in {"speed", "verify"}
    /\ spectraTodo \subseteq SpectrumId /\ flagTodo \subseteq MarkerId
    /\ offset \in Nat
    /\ outcome \in Outcome
    /\ runs \in 1..MaxRuns

\* Speeds, across any number of crashed and repeated runs: a marker whose
\* target speed was set before the first run keeps it, and one that was
\* NULL/0 holds either NULL/0 or exactly its source speed (the guard
\* "m.speed IS NULL OR m.speed = 0" of the batched UPDATE).
SpeedValueFaithful ==
    \A m \in MarkerId :
        IF tgtSpeed0[m] # 0 THEN tgtSpeed[m] = tgtSpeed0[m]
                            ELSE tgtSpeed[m] \in {0, srcSpeed[m]}

\* The spectra phase is one transaction: whatever crashes, exceptions and
\* re-runs happen, the committed target holds either the spectra it had
\* before, or those plus every source spectrum, never a part of them.
SpectraAllOrNothing ==
    tgtSpectra \in {tgtSpectra0, tgtSpectra0 \cup srcSpectra}

\* The flag phase is one transaction, and it only ever sets a flag that is
\* set in the source: the committed flags are either those before the first
\* run, or those joined with every source flag.
FlagsAllOrNothing ==
    tgtHasSpec \in {tgtHasSpec0, [m \in MarkerId |-> tgtHasSpec0[m] \/ srcHasSpec[m]]}

\* Pagination of the speed loop: while it runs at offset o, every source
\* marker with a positive speed among the first o of ORDER BY id has a
\* committed positive speed in the target; so when the loop breaks on an
\* empty batch, every one of them has.
SpeedBatchesCover ==
    pc = "speed" =>
        \A m \in PosSpeedIds(srcSpeed) : Rank(m) <= offset => tgtSpeed[m] # 0

\* The speed loop never pages past the end of the source: while it runs,
\* the offset is below the number of source markers with a positive speed
\* plus one BATCH_SIZE, because it only advances after a non-empty batch.
OffsetBounded ==
    pc = "speed" => offset < Cardinality(PosSpeedIds(srcSpeed)) + BatchSize

\* The lists "SELECT id ... ORDER BY id" may return for a set of ids S:
\* every id of S exactly once, in ascending order.
OrderedLists(S) ==
    {s \in [1..Cardinality(S) -> S] :
        /\ {s[i] : i \in 1..Cardinality(S)} = S
        /\ \A i, j \in 1..Cardinality(S) : i < j => s[i] < s[j]}

\* "LIMIT BatchSize OFFSET o" applied to the list s: its entries at
\* positions o+1 .. o+BatchSize.
LimitOffsetPage(s, o) ==
    {s[i] : i \in {j \in DOMAIN s : o < j /\ j <= o + BatchSize}}

\* The open transactions during the two row loops: the spectra transaction
\* holds the committed spectra plus every source row visited so far, the
\* flag transaction the committed flags plus every source flag visited so
\* far.  With the three invariants above this is inductive: it is what a
\* commit at the end of a loop relies on.
TxSpectraInv ==
    pc = "spectra" =>
        /\ spectraTodo \subseteq srcSpectra
        /\ txSpectra = tgtSpectra \cup (srcSpectra \ spectraTodo)

TxFlagsInv ==
    pc = "flags" =>
        /\ flagTodo \subseteq FlagMarkerIds
        /\ txHasSpec = [m \in MarkerId |->
                           tgtHasSpec[m] \/ m \in FlagMarkerIds \ flagTodo]

IInv ==
    /\ TypeOK
    /\ SpeedValueFaithful
    /\ SpectraAllOrNothing
    /\ FlagsAllOrNothing
    /\ TxSpectraInv
    /\ TxFlagsInv

\* Every run that the user confirmed comes to an end: the row loops and the
\* LIMIT/OFFSET loop terminate.
RunTerminates == (pc \in Working) ~> (pc = "exited")

\* The work left in the current run: the rows the open loop still has to
\* visit, plus a bound on what every later phase of the run can take.  In
\* the speed loop it is what the offset may still advance by before the
\* loop must meet an empty batch.
ScriptVariant ==
    LET speedMax == Cardinality(PosSpeedIds(srcSpeed)) + BatchSize
    IN  CASE pc = "spectra" -> Cardinality(spectraTodo) + Cardinality(MarkerId) + 3 + speedMax
          [] pc = "flags"   -> Cardinality(flagTodo) + 2 + speedMax
          [] pc = "speed"   -> 1 + speedMax - offset
          [] pc = "verify"  -> 1
          [] OTHER          -> 0

\* Every step the script takes by itself (a row of either loop, a commit, a
\* LIMIT/OFFSET batch, the break, the verification) strictly lowers a
\* natural-number measure of the work left: no loop of migrate_all_data.py
\* can run forever, whatever the sizes, as long as the speed loop breaks on
\* its first empty batch.
ScriptStepsTerminate ==
    [][ScriptStep => ScriptVariant' \in Nat /\ ScriptVariant' < ScriptVariant]_vars

-----------------------------------------------------------------------------
(* The copier contract of spec.md section 4.1 *)

Copier == INSTANCE Reconciler

\* migrate_all_data.py implements the reconciling copier: seen from the
\* committed target, the spectra commit is one copy_missing of every source
\* row, the flag commit sets every source flag, each speed batch commit is
\* one guarded update, and every other step (row loops, crashes, exits,
\* re-runs) leaves the target alone.
CopierRefinement == Copier!Spec

\* A step that keeps every committed spectrum, every committed has_spectrum
\* flag that is set, and every non-zero committed speed.
TargetGrows ==
    /\ tgtSpectra \subseteq tgtSpectra'
    /\ \A m \in MarkerId : tgtHasSpec[m] => tgtHasSpec'[m]
    /\ \A m \in MarkerId : tgtSpeed[m] # 0 => tgtSpeed'[m] = tgtSpeed[m]

\* No step of migrate_all_data.py, crash, rollback and re-run included,
\* deletes a target spectrum, clears a target flag or changes a populated
\* target speed: the inserts skip existing ids, the flag UPDATE only sets
\* true, the speed UPDATE is guarded by "speed IS NULL OR speed = 0".
TargetNeverShrinks == [][TargetGrows]_vars

-----------------------------------------------------------------------------
(* What the spec says of a finished run, checked against the code *)

\* spec.md section 8: for all spectra present in the source, after the
\* migration the target has a row with the same key.  The script reports
\* "Migration Completed Successfully!" only then.
SuccessMeansSpectraCopied ==
    outcome = "success" => srcSpectra \subseteq tgtSpectra

\* spec.md section 8: every marker with a positive source speed whose target
\* speed was NULL/0 has it after a run that went through all its phases
\* (also when the run resumes after an interrupted one).
CompletedRunCopiesSpeeds ==
    outcome \in {"success", "warning"} =>
        \A m \in PosSpeedIds(srcSpeed) : tgtSpeed[m] # 0

=============================================================================
