# Formal models of the Safecast SQLite → PostgreSQL migration scripts

This directory holds TLA+ models of the data-migration scripts in `src/`. It has:
- the TLC configurations that model-check the models on small instances;
- an abstract specification of the copier contract (`Reconciler`) that two of the scripts are shown to implement;
- TLAPS proofs, for every value of the constants, of every safety invariant and action property the passing runs check, of all three refinements, and of a lemma that the model's speed batch is the SQL LIMIT/OFFSET page.

## 1. The system (inventory)

The repository has three sequential, single-process Python scripts. Each one:
1. copies data from a SQLite file (the *source*) into a PostgreSQL database (the *target*);
2. asks the operator for confirmation on the console;
3. is re-run by hand after a failure.

Nothing runs concurrently. The hard behaviours are:
- crashes or exceptions between and inside transactions;
- re-runs over a partly migrated target;
- decisions made on counts taken before the run;
- pagination.

| Component | Source | State it touches | Operations |
|---|---|---|---|
| Spectral + speed migration | `src/migrate_all_data.py` | source `spectra`, `markers.has_spectrum`, `markers.speed`; the same target tables | pre-flight counts and gates (l. 46–135); spectra insert loop in one transaction (145–210); flag update loop in one transaction (215–242); speed update in LIMIT/OFFSET batches with one commit per batch (247–308); count-based verification (310–360) |
| Spectral migration (older script) | `src/migrate_spectra.py` | source/target `spectra` and `markers.has_spectrum` | gate on the source spectra count (l. 55); spectra inserts and unguarded flag updates in a single transaction (116–183); count-based verification (185–214) |
| Channel back-fill | `src/update_spectra_columns.py` | target `spectra.channels`, `channel_count` | gate on the count of NULL channels; parse the source JSON channels and skip a row on a parse error; UPDATE target rows without a NULL guard; one transaction |
| Configuration / console I/O | all three | environment, prompts | pure I/O. The yes/no answers are modelled as nondeterministic choices. |

The components do not run together. They interact only through the target database: an operator may run any of them, in any order, over the same target.

Properties each component should have, taken from `spec.md` §3, §4.1 and §8:
- no duplicate spectra, and no overwrite of a non-default target value;
- each single-transaction phase commits all or nothing;
- a re-run after a crash completes the work;
- every confirmed run terminates;
- a reported success means the data is in the target.

## 2. Module `MigrateAllData` — `src/migrate_all_data.py`

**Data abstraction.**
- Spectra and markers are ids: the sets `SpectrumId` and `MarkerId`, drawn from `Nat`.
- A spectrum's payload is left out. `srcBad` marks the rows whose insert raises, e.g. when `created_at` is NULL and `datetime.fromtimestamp` fails (l. 177).
- Speeds are drawn from `Speed`. A NULL or 0 speed is the single value `0`, because every query of the script treats the two alike (l. 55, 96, 265, 282).

**State.**
- `src*`: the source. It is fixed during a run.
- `tgt*`: the committed target.
- `txSpectra` and `txHasSpec`: the open transaction's view of the target.
- `tgt*0`: history variables holding the target before the first run.
- `pc`, `spectraTodo`, `flagTodo`, `offset`, `afterFlags`: the script's control state.
- `outcome`: the final banner or exit.
- `runs`: how many times the operator has started the script.

**Actions.** Every action models the whole code block named below, including its commit.

| Action | Code |
|---|---|
| `Analyze` | counts, the "nothing to migrate" exit, the "already migrated / re-check anyway" prompt, the confirmation prompt, and the two gates `spectra_to_migrate > 0` and `speed_to_migrate > 0` (l. 46–145, 247). A skipped spectra phase goes straight to the flags transaction (l. 215–221). |
| `InsertSpectrum` | one iteration of the `ORDER BY id` loop: skip when the id already exists; a bad row raises, rolls back and exits 1 (l. 165–208) |
| `CommitSpectra` | `pg_conn.commit()`, then BEGIN and the fetch of flagged source markers (l. 199–221) |
| `UpdateFlag` | one guarded `UPDATE … WHERE has_spectrum = false` (l. 224–233) |
| `CommitFlags` | commit, then the speed gate (l. 235–248) |
| `SpeedBatch` | fetch `LIMIT BatchSize OFFSET offset`, apply the guarded UPDATE, commit, advance the offset (l. 260–298) |
| `SpeedDone` | the empty batch that ends the loop (l. 271–272) |
| `Verify` | the final count comparison, including the 1 % tolerance computed in integers (l. 318–360) |
| `Crash` | an exception or kill in any working state: the open transaction is discarded and the run exits with failure (l. 204–208, 238–242, 302–306) |
| `Restart` | the operator runs the script again, up to `MaxRuns` runs |

`Batch(o)` is the set of source ids with a positive speed whose rank in id order lies in `(o, o + BatchSize]`. This is exactly the SQL `LIMIT/OFFSET` window.

**Runs** (module `MCMigrateAllData`). The instance has 2 spectrum ids, 2 marker ids, speeds `{1, 2}`, `BatchSize = 1` and `MaxRuns = 2`. `Init` enumerates every source and target over these, which gives about 950 k distinct states.

| Run | Checks | Result |
|---|---|---|
| `all_data_safety` | `TypeOK`; `SpeedValueFaithful` (a pre-existing target speed never changes, a NULL/0 one only becomes the source speed); `SpectraAllOrNothing`; `FlagsAllOrNothing`; `SpeedBatchesCover` (every id before the offset has a target speed); `ScriptStepsTerminate` (every step the script takes by itself lowers `ScriptVariant`, a natural number measuring the work left in the run); `RunTerminates` under `FairSpec` | pass |
| `all_data_refines_copier` | `CopierRefinement`: the script implements `Reconciler` (section 5); `TargetNeverShrinks`: no step deletes a spectrum, clears a flag or changes a populated speed | pass |
| `all_data_paging` | module `MCMigrateAllDataPaging`: `SpeedBatchesCover`, `OffsetBounded` (while the loop runs, the offset is below the number of source speeds plus one batch), `RunTerminates` | pass |
| `all_data_gate_spectra` | `SuccessMeansSpectraCopied` | **violated** |
| `all_data_gate_speed` | `CompletedRunCopiesSpeeds` | **violated** |

**Pagination.** `Batch(o)` is defined by ranks (`Cardinality` of the smaller ids). Theorem `BatchIsLimitOffsetPage` (section 6) proves it equal to a reference definition of `ORDER BY id LIMIT k OFFSET o`, for every batch size and offset. `OrderedLists(S)` is the set of lists that hold every id of `S` once, in ascending order; the sort is specified by what it returns, not by an algorithm. `LimitOffsetPage(s, o)` is the set of entries at positions `o+1 .. o+k` of such a list `s`. The instance has 5 markers, `BatchSize = 2`, every source and target speed over `{1}`, and no spectra or flags, so the other phases stay small. The loop therefore takes up to three batches, the last one partial, and then fetches the empty page that ends it. Its initial states are those of `Init` with no flag set.

**Why the bounds are enough.**
- With two ids of each kind, the target can hold rows the source lacks, and the reverse, at the same time.
- `BatchSize = 1` with two positive speeds gives two batches, so a crash between batch commits happens. Batch sizes above one and partial last batches are covered by `all_data_paging`.
- Two runs give a crash followed by a re-run.

**Findings.**
1. **Spectra gate.** Whether the spectra phase runs is decided by `COUNT(source) - COUNT(target) > 0`, not by which ids are missing. The target may contain spectra that the source lacks. Then source spectra are never copied, and the verification (`final >= source count`) reports "Migration Completed Successfully!". Answering "yes" to "re-check and update anyway" does not change this, because the gate at l. 145 still skips the phase.
2. **Speed gate.** The speed gate behaves the same way. Positive target speeds on markers the source lacks or has no speed for make up the count, so source speeds are never copied onto NULL/0 target speeds. An interrupted earlier run closes the gate only together with such target-only speeds: the batches it committed are counted, but so are the source speeds they copied. `CompletedRunCopiesSpeeds` accepts a 'warning' as well as a success, so it says nothing of the 1 % tolerance of the verification (l. 342). This contradicts the resumability claim in `spec.md` §4.1 and §8.

**Fairness.** Only this model has a liveness property. `FairSpec` assumes weak fairness of `ScriptStep`: once the operator has confirmed, the script runs its own steps without waiting for anything. The prompts (`Analyze`), `Crash` and `Restart` are not fair: the user may cancel, nothing forces a crash, and nobody has to re-run. Its three loops end because each visits a finite set, but the speed loop ends only because its `if not batch: break` fires. The loops of the other two scripts are Python `for` loops over lists fetched before they start, so they end by construction, and those models have no liveness property.

## 3. Module `MigrateSpectra` — `src/migrate_spectra.py`

The state and the data abstraction are those of `MigrateAllData` without speeds. The control differs:
- the only gate is `sqlite_spectra_count == 0` (l. 55), which exits before the target is read;
- the spectra inserts and the flag updates share **one** transaction, and there is a single commit (l. 116–177);
- the flag UPDATE has no guard (l. 167–170), so the flags loop visits every flagged source marker.

| Action | Code |
|---|---|
| `Analyze` | source counts, the "nothing to migrate" exit, target counts, the confirmation prompt, the `ORDER BY id` fetch and `BEGIN` (l. 44–117) |
| `InsertSpectrum` | one iteration of the insert loop: skip an existing id; a bad row raises, rolls back and exits 1 (l. 122–158) |
| `FetchFlags` | the fetch of flagged source markers, in the same transaction (l. 160–163) |
| `UpdateFlag` | one `UPDATE markers SET has_spectrum = true WHERE id = %s` (l. 165–173) |
| `Commit` | `pg_conn.commit()` of both loops (l. 175–177) |
| `Verify` | the final counts and the success/warning banner (l. 185–214) |
| `Crash`, `Restart` | as in `MigrateAllData` (l. 179–183, 216–217) |

**Runs** (module `MCMigrateSpectra`: 3 spectrum ids, 2 marker ids, `MaxRuns = 2`; about 64 k distinct states).

| Run | Checks | Result |
|---|---|---|
| `spectra_safety` | `MigrationAllOrNothing` (spectra and flags are committed together: the target is the original one, or the original joined with every source spectrum and flag); `CompletedRunCopiesAll` (a success or warning means every source spectrum and flag is in the target) | pass |
| `spectra_refines_copier` | `CopierRefinement`; `TargetNeverShrinks` (no step deletes a spectrum or clears a flag) | pass |

Three spectrum ids let the insert loop skip an existing id, insert another and fail on a third in one run.

## 4. Module `UpdateSpectraColumns` — `src/update_spectra_columns.py`

Only the `channels` column is modelled; the other columns of the same UPDATE are written under the same conditions.

**Data abstraction.**
- A channel array is a positive number from `Channels`, and `0` is SQL NULL.
- Two negative codes stand for the source texts that do not give an array: `JsonNull` (the text `"null"`, which `json.loads` turns into `None`) and `Unparseable` (a text on which `json.loads` raises).
- `Parse` models `json.loads` (l. 100–112). `Writes(s)` says whether the row's UPDATE changes the target: the row was fetched, it parsed, and its id exists in the target. `Overlay(c, S)` is the column once the rows of `S` have been visited.

| Action | Code |
|---|---|
| `Analyze` | the NULL-channel count and its exit, the prompt, the fetch `WHERE channels IS NOT NULL ORDER BY id`, `BEGIN` (l. 57–93) |
| `UpdateRow` | one loop iteration: parse or skip, then the UPDATE by id with no condition on the current value (l. 97–133) |
| `CommitUpdate` | `pg_conn.commit()` (l. 135–138) |
| `Verify` | the final counts and the unconditional "Update completed successfully!" (l. 147–167) |
| `Crash`, `Restart` | rollback and exit 1 (l. 140–145); a re-run (l. 169–170) |

**Runs** (module `MCUpdateSpectraColumns`: 2 spectrum ids, `Channels = {1, 2}`, every source value kind, `MaxRuns = 2`; about 16 k distinct states).

| Run | Checks | Result |
|---|---|---|
| `columns_safety` | `TypeOK` (no unparsed text is written); `ChannelsAllOrNothing` (the committed column is the original one or one complete pass over the source, across crashes and re-runs); `BackfillRefinement` (section 5) | pass |
| `columns_overwrite` | `PopulatedChannelsKept` (spec.md §4.1) | **violated** |

**Findings.**
3. **Channels overwritten.** The UPDATE (l. 115) has no `channels IS NULL` guard. Populated target channels are overwritten with the source's, and a source text `"null"` writes NULL over them.

## 5. The copier contract (`Reconciler`) and the refinements

`Reconciler` is the abstract specification of the "reconciling bulk copier" of spec.md §4.1, seen in the committed target. Each step is one atomic commit with up to three effects:
- add every source spectrum;
- OR every source `has_spectrum` flag into the target;
- set the speed of a batch of positive-speed source markers where the target speed is NULL/0.

Nothing else changes the target. Both copying scripts define `Copier == INSTANCE Reconciler`. `MigrateSpectra` substitutes an empty speed set and all-zero speeds. The refinement mapping is the identity on the source and the committed target, and the open transactions and the control state are hidden. `CopierRefinement == Copier!Spec` is checked as a `PROPERTY` by TLC.

The refinement is what makes crashes harmless. An implementation step that commits is one `Copier!Commit` step. Every other step, including every crash, rollback and restart, leaves the target alone and is a stutter. Without the inductive invariants the commit would not map: only `TxSpectraInv` and `TxFlagsInv` (or `TxInv`) say that the published view is "target plus every source row".

`update_spectra_columns.py` does not implement this contract. Finding 3 shows it overwrites populated values. It implements a contract of its own, `ChannelBackfill`. There the channels column changes only by one atomic `Fill` step, which writes the decoded value on every target row whose source row carries decodable channel data; no other row changes and no row is created. `UpdateSpectraColumns` defines `Backfill == INSTANCE ChannelBackfill`, and `BackfillRefinement == Backfill!Spec` is checked by `columns_safety`. A mutant that turns the UPDATE into an upsert, creating rows the target lacks, breaks it.

**Action property.** Both copying scripts are checked against `TargetNeverShrinks == [][TargetGrows]_vars`: no step removes a committed spectrum, clears a committed flag, or (in `migrate_all_data.py`) changes a non-zero speed. This is the "never delete, never overwrite" promise of spec.md §4.1, stated per step. It is proved as a corollary of the refinement, because every `Reconciler` step only grows the target.

## 6. Proofs

Each proof module uses only its module's named constant assumption (`ConstAssumption`, `SpectraConstAssumption`, `ColumnsConstAssumption`):
- ids are natural numbers, and the spectrum and marker ids of `MigrateAllData` form finite sets (the rows of a table; `OffsetNeverPastEnd` and `ScriptStepsDecrease` need them to count rows);
- speeds and channel values are positive;
- `BatchSize` and `MaxRuns` are positive.

| Module | Theorems |
|---|---|
| `MigrateAllDataProofs` | `IInvInvariant`, `TypeCorrect`, `SpeedNeverClobbered`, `SpectraAtomic`, `FlagsAtomic` |
| `MigrateSpectraProofs` | `SpectraIInvInvariant`, `SpectraTypeCorrect`, `SpectraAndFlagsAtomic` (`MigrationAllOrNothing`), `CompletedRunCopiesEverything` (`CompletedRunCopiesAll`) |
| `UpdateSpectraColumnsProofs` | `ColumnsIInvInvariant`, `ColumnsTypeCorrect`, `ChannelsAtomic` (`ChannelsAllOrNothing`) |
| `MigrateAllDataSpeedProofs` | `SpeedPagesCovered` (`SpeedBatchesCover`), `OffsetNeverPastEnd` (`OffsetBounded`) |
| `MigrateAllDataPagingProofs` | `BatchIsLimitOffsetPage` |
| `MigrateAllDataProgressProofs` | `ScriptStepsDecrease` (`ScriptStepsTerminate`) |
| `MigrateAllDataRefinement` | `ImplementsCopier` (`CopierRefinement`), `NoStepShrinksTarget` (`TargetNeverShrinks`) |
| `MigrateSpectraRefinement` | `SpectraImplementsCopier` (`CopierRefinement`), `NoSpectraStepShrinksTarget` (`TargetNeverShrinks`) |
| `UpdateSpectraColumnsProofs` (continued) | `ColumnsImplementsBackfill` (`BackfillRefinement`) |

**Why the invariants need strengthening.** The atomicity invariants are not inductive by themselves. A commit publishes the transaction's view, so the proof must know what that view is. Each `IInv` adds this knowledge:
- `TxSpectraInv` and `TxFlagsInv` in `MigrateAllData`: while a loop runs, the view is the committed data plus the source rows already processed.
- `TxInv` in `MigrateSpectra`: the same for the shared transaction. It also says that the spectra loop is finished before the flags loop starts, and that verification sees the "all" target.
- `TxChanInv` in `UpdateSpectraColumns`: the view is the committed column overlaid with the rows visited. Lemma `OverlayIdempotent` (overlaying the same rows twice is overlaying them once) shows that a re-run's commit lands on the same "all" column.

There is one lemma per action, each proving `IInv'`. `NextIInv` combines them, and each theorem follows by `PTL`. The refinement proofs show that `Init` maps to `Copier!Init`. They then show, from `IInv`, that each commit action is a `Copier!Commit` with the right parameters, and that every other action leaves the mapped variables unchanged.

**The speed loop.** `SpeedBatchesCover` is inductive relative to `IInv`. The loop is entered only by the flag commit, which sets the offset to 0. Lemma `RankPositive` (a marker's rank, the `Cardinality` of the ids at or below it, is a positive natural number, because that set is a finite subset of `0..m` containing `m`) shows that nothing lies at or below offset 0. A batch step moves the offset by `BatchSize`. Any marker now at or below the offset was either covered before, or has its rank in the new window and is therefore in the batch, and lemma `ApplySpeedsCovers` says the guarded UPDATE gives it a non-zero speed. `OffsetBounded` uses lemma `RankBounded` (no rank exceeds the count of the finite set of positive-speed markers): a batch step fires only on a non-empty page, whose markers rank above the old offset and at most at the count.

**LIMIT/OFFSET paging.** `BatchIsLimitOffsetPage` shows that, for every batch size, offset and set of source speeds, `Batch(o)` equals `LimitOffsetPage(s, o)` for every `s` in `OrderedLists`. The argument needs no induction over data; it counts with `FiniteSetTheorems`:
- lemma `OrderedListRank`: in an ascending list, the ids at or below the entry at position `i` are exactly the entries `1..i`. They are the image of `1..i` under the list, which is injective, so the rank of that entry is `i` (`FS_CountingElements`).
- `Batch(o)` collects the ids whose rank is in `(o, o + k]`, which are therefore the entries at those positions.

Lemmas `RankStrictlyMonotone`, `RankInjective` and `RankOnto` show that rank is a bijection from the positive-speed ids onto `1..n`. Rank is an injection into `1..n` from a set of `n` ids, so it is onto (`FS_Injection`). From this:
- `OrderedListExists`: the list that holds the id of rank `i` at position `i` is in `OrderedLists`;
- `OrderedListUnique`: it is the only one.

So the hypothesis of the theorem is always satisfiable, and the page is well defined.

**Progress.** `ScriptStepsDecrease` proves the action property `ScriptStepsTerminate`. `ScriptVariant` is, in each phase, the rows the open loop still has to visit plus a bound on every later phase of the run:
- the marker count bounds the flag loop;
- `NS + BatchSize` bounds the speed loop, where NS is the number of source ids with a positive speed;
- in the speed loop the measure is `1 + NS + BatchSize - offset`.

There is one lemma per script action. A row visit removes one element from a finite set (`FS_RemoveElement`). A commit moves to a phase with a smaller bound. A batch step keeps the measure a natural number only because `OffsetBounded` holds in the state it reaches. That bound rests on the loop's `if not batch: break`, and the mutant without it breaks `ScriptStepsTerminate`.

This is the safety half of `RunTerminates`. The other half, that under `WF_vars(ScriptStep)` a step is eventually taken, involves `ENABLED` and fairness, and stays with TLC.

**The action property.** `NoStepShrinksTarget` needs no invariant of its own. Lemma `CopierStepGrows` shows that `[Copier!Next]_(Copier!vars)` implies `[TargetGrows]_vars`, and PTL lifts this over the refinement theorem.

The inductive invariants (`IInv` in each model) have no run of their own: `IInvInvariant`, `SpectraIInvInvariant` and `ColumnsIInvInvariant` prove them, and the runs check the properties they imply.

Only TLC checks these:
- `RunTerminates` of `migrate_all_data.py`: liveness under fairness, and `ENABLED`, are outside TLAPS's reach. Its safety half (`ScriptStepsTerminate`) is proved;
- the three violations.

## 7. Not modelled

- Console I/O and configuration.
- The SQLite-file existence check, because it has no effect on data.
- Row payloads and the local-time conversion of `created_at` (a time-zone hazard listed in PROJECT.json).
- A NULL `has_spectrum` in the target. The models' flags are Boolean. A NULL would be skipped by `has_spectrum = false` (`migrate_all_data.py` l. 226). Whether the schema allows it is not known from this repository.
- Running the scripts one after another, as a composed module. The scripts never run concurrently, and each model's `Init` allows any target. So the target one script leaves is an initial state of the next, and every property above holds for each script's own runs, whatever target earlier runs of other scripts left. Both copying scripts implement the same `Reconciler`, so any sequence of their runs is a `Reconciler` behaviour. A composed module would add no interleavings.
