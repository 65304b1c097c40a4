------------------------- MODULE UpdateSpectraColumns -------------------------
(***************************************************************************)
(* src/update_spectra_columns.py: if the target has spectra with NULL      *)
(* channels, one run copies the channel data of every source spectrum that *)
(* has some onto the target row with the same id, in one transaction.  A   *)
(* text value is parsed as JSON: the text "null" parses to None (written   *)
(* as NULL) and text that does not parse is skipped.  The operator may run *)
(* it again after it exits.                                                *)
(*                                                                         *)
(* Only the channels column is modelled: the other columns of the UPDATE   *)
(* (channel_count, energies, times) are written under the same conditions. *)
(* Channel arrays are the positive numbers of Channels; 0 is NULL and two  *)
(* negative codes stand for the source texts that do not give an array.   *)
(***************************************************************************)
EXTENDS Integers, FiniteSets

CONSTANTS
    SpectrumId,   \* primary keys of spectra rows (ORDER BY id)
    Channels,     \* channel arrays
    MaxRuns       \* how many times the operator starts the script

ASSUME ColumnsConstAssumption ==
    /\ SpectrumId \subseteq Nat
    /\ Channels \subseteq Nat \ {0}
    /\ MaxRuns \in Nat \ {0}

NullChan == 0        \* SQL NULL
JsonNull == -1       \* the text "null": json.loads gives None
Unparseable == -2    \* a text json.loads raises on

ChanVal == {NullChan} \cup Channels
SrcChanVal == {NullChan, JsonNull, Unparseable} \cup Channels

VARIABLES
    srcSpectra,   \* ids of the source rows of spectra
    srcChan,      \* their channels column
    tgtSpectra,   \* ids of the target rows of spectra (the script adds none)
    tgtChan,      \* the target channels column, committed
    txChan,       \* the open transaction's view of it
    tgtChan0,     \* the column before the first run
    pc,           \* "start", "update", "verify", "exited"
    todo,         \* rows of spectra_rows not yet visited
    outcome,      \* how the last run ended
    runs          \* runs started so far

srcVars == <<srcSpectra, srcChan, tgtSpectra>>
vars == <<srcVars, tgtChan, txChan, tgtChan0, pc, todo, outcome, runs>>

Outcome == {"none", "nothing", "cancelled", "failed", "success"}
Working == {"update", "verify"}

IsFirst(x, S) == x \in S /\ \A y \in S : x <= y

\* SELECT COUNT(*) FROM spectra WHERE channels IS NULL
NullCount == Cardinality({s \in tgtSpectra : tgtChan[s] = NullChan})

\* SELECT id, channels, ... FROM spectra WHERE channels IS NOT NULL
Fetched == {s \in srcSpectra : srcChan[s] # NullChan}

\* Mutant: the raw text passed through unparsed.
ParseRaw(c) == c

\* json.loads of a text (None for "null"); a native value is passed as is.
Parse(c) == IF c = JsonNull THEN NullChan ELSE c

\* Mutant: the UPDATE done as an upsert that creates missing rows.
WritesAnyId(s) == srcChan[s] \notin {NullChan, Unparseable}

\* The row's UPDATE changes the target: it was fetched, it parsed, and its
\* id is in the target (otherwise WHERE id = %s matches no row).
Writes(s) == s \in tgtSpectra /\ srcChan[s] \notin {NullChan, Unparseable}

\* The channels column once the rows of S have been visited.
Overlay(c, S) ==
    [s \in SpectrumId |-> IF s \in S /\ Writes(s) THEN Parse(srcChan[s]) ELSE c[s]]

Exit(result) ==
    /\ pc' = "exited"
    /\ outcome' = result
    /\ todo' = {}
    /\ txChan' = [s \in SpectrumId |-> NullChan]

Init ==
    /\ srcSpectra \in SUBSET SpectrumId
    /\ srcChan \in [SpectrumId -> SrcChanVal]
    /\ tgtSpectra \in SUBSET SpectrumId
    /\ tgtChan \in [SpectrumId -> ChanVal]
    /\ \A s \in SpectrumId \ tgtSpectra : tgtChan[s] = NullChan
    /\ tgtChan0 = tgtChan
    /\ pc = "start" /\ outcome = "none" /\ runs = 1
    /\ todo = {} /\ txChan = [s \in SpectrumId |-> NullChan]

(***************************************************************************)
(* Pre-flight: exit if no target row has NULL channels, ask the user,      *)
(* fetch the source rows that have channels and BEGIN.                     *)
(***************************************************************************)
Analyze ==
    /\ pc = "start"
    /\ IF NullCount = 0
         THEN Exit("nothing") /\ UNCHANGED runs
         ELSE \E proceed \in BOOLEAN :
                IF ~proceed
                  THEN Exit("cancelled") /\ UNCHANGED runs
                  ELSE /\ pc' = "update"
                       /\ todo' = Fetched
                       /\ txChan' = tgtChan
                       /\ UNCHANGED <<outcome, runs>>
    /\ UNCHANGED <<srcVars, tgtChan, tgtChan0>>

\* Mutant: every row's UPDATE committed at once.
UpdateRowCommitEach ==
    /\ pc = "update"
    /\ \E s \in todo :
         /\ IsFirst(s, todo)
         /\ todo' = todo \ {s}
         /\ txChan' = Overlay(txChan, {s})
         /\ tgtChan' = Overlay(txChan, {s})
    /\ UNCHANGED <<srcVars, tgtChan0, pc, outcome, runs>>

\* One iteration of "for row in spectra_rows": parse the channels (skip the
\* row if json.loads raises), then UPDATE spectra SET channels = ... WHERE
\* id = %s, with no condition on the target's current channels.
UpdateRow ==
    /\ pc = "update"
    /\ \E s \in todo :
         /\ IsFirst(s, todo)
         /\ todo' = todo \ {s}
         /\ txChan' = Overlay(txChan, {s})
    /\ UNCHANGED <<srcVars, tgtChan, tgtChan0, pc, outcome, runs>>

\* pg_conn.commit()
CommitUpdate ==
    /\ pc = "update"
    /\ todo = {}
    /\ tgtChan' = txChan
    /\ pc' = "verify"
    /\ UNCHANGED <<srcVars, txChan, tgtChan0, todo, outcome, runs>>

\* The remaining NULL count is printed, and so is "Update completed
\* successfully!", whatever it is.
Verify ==
    /\ pc = "verify"
    /\ Exit("success")
    /\ UNCHANGED <<srcVars, tgtChan, tgtChan0, runs>>

\* An exception (a failing UPDATE, a lost connection) or the process being
\* killed: rollback, exit 1.
Crash ==
    /\ pc \in {"start"} \cup Working
    /\ Exit("failed")
    /\ UNCHANGED <<srcVars, tgtChan, tgtChan0, runs>>

\* The operator runs the script again.
Restart ==
    /\ pc = "exited"
    /\ runs < MaxRuns
    /\ pc' = "start"
    /\ outcome' = "none"
    /\ runs' = runs + 1
    /\ UNCHANGED <<srcVars, tgtChan, txChan, tgtChan0, todo>>

ScriptStep == UpdateRow \/ CommitUpdate \/ Verify

Next == Analyze \/ ScriptStep \/ Crash \/ Restart

Spec == Init /\ [][Next]_vars

-----------------------------------------------------------------------------
(* The back-fill contract *)

Backfill == INSTANCE ChannelBackfill

\* update_spectra_columns.py implements the back-fill contract: with any
\* number of crashes and re-runs, the committed channels change only at the
\* commit, which writes every decodable source value onto the target row of
\* the same id at once; the row loop, rollbacks and re-runs change nothing.
BackfillRefinement == Backfill!Spec

-----------------------------------------------------------------------------
(* Properties *)

TypeOK ==
    /\ srcSpectra \subseteq SpectrumId /\ srcChan \in [SpectrumId -> SrcChanVal]
    /\ tgtSpectra \subseteq SpectrumId
    /\ tgtChan \in [SpectrumId -> ChanVal] /\ tgtChan0 \in [SpectrumId -> ChanVal]
    /\ txChan \in [SpectrumId -> ChanVal]
    /\ pc \in {"start", "exited"} \cup Working
    /\ todo \subseteq SpectrumId
    /\ outcome \in Outcome
    /\ runs \in 1..MaxRuns

\* The updates share one transaction, and a re-run writes the same values
\* again: across crashes and re-runs the committed column is the one before
\* the first run, or that with every parseable source value written onto
\* the target row of the same id (rows that did not parse keep theirs).
ChannelsAllOrNothing ==
    tgtChan \in {tgtChan0, Overlay(tgtChan0, srcSpectra)}

\* The open transaction during the loop: the committed column with the
\* rows visited so far written.
TxChanInv ==
    pc = "update" =>
        /\ todo \subseteq Fetched
        /\ txChan = Overlay(tgtChan, srcSpectra \ todo)

IInv == TypeOK /\ ChannelsAllOrNothing /\ TxChanInv

-----------------------------------------------------------------------------
(* What the spec says of the script, checked against the code *)

\* spec.md section 4.1: the copier updates fields of existing target rows
\* only where the target value is NULL, and never overwrites a target value
\* that already looks populated.
PopulatedChannelsKept ==
    \A s \in tgtSpectra : tgtChan0[s] # NullChan => tgtChan[s] = tgtChan0[s]

=============================================================================
