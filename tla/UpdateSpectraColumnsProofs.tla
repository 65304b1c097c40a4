---------------------- MODULE UpdateSpectraColumnsProofs ----------------------
(***************************************************************************)
(* Proofs, for every value of the constants, that update_spectra_columns.py *)
(* keeps the channels column well typed and commits its updates all or     *)
(* nothing across crashes and re-runs.  The argument: the open transaction *)
(* is the committed column overlaid with the rows visited (TxChanInv), and *)
(* overlaying the same source rows twice is overlaying them once.          *)
(***************************************************************************)
EXTENDS UpdateSpectraColumns, TLAPS

USE ColumnsConstAssumption

\* Overlay keeps the column's type: a written value is a parsed source value.
LEMMA OverlayType ==
    ASSUME NEW c \in [SpectrumId -> ChanVal], NEW S,
           srcChan \in [SpectrumId -> SrcChanVal]
    PROVE  Overlay(c, S) \in [SpectrumId -> ChanVal]
BY DEF Overlay, Writes, Parse, ChanVal, SrcChanVal, NullChan, JsonNull, Unparseable

\* Visiting one more row extends the overlay by that row.
LEMMA OverlayStep ==
    ASSUME NEW c \in [SpectrumId -> ChanVal], NEW S, NEW s
    PROVE  Overlay(Overlay(c, S), {s}) = Overlay(c, S \cup {s})
BY DEF Overlay

\* Writing the same source rows a second time changes nothing: a re-run of
\* the script over its own committed result commits the same column.
LEMMA OverlayIdempotent ==
    ASSUME NEW c \in [SpectrumId -> ChanVal], NEW S
    PROVE  Overlay(Overlay(c, S), S) = Overlay(c, S)
BY DEF Overlay

LEMMA ExitIInv ==
    ASSUME IInv, NEW r \in Outcome, Exit(r),
           UNCHANGED <<srcVars, tgtChan, tgtChan0, runs>>
    PROVE  IInv'
BY DEF IInv, TypeOK, Exit, ChannelsAllOrNothing, TxChanInv, Overlay, Writes,
       srcVars, Outcome, Working, ChanVal

LEMMA InitIInv == Init => IInv
BY DEF Init, IInv, TypeOK, ChannelsAllOrNothing, TxChanInv, Outcome, ChanVal

LEMMA AnalyzeIInv == IInv /\ Analyze => IInv'
<1> SUFFICES ASSUME IInv, Analyze PROVE IInv'
  OBVIOUS
<1>1. UNCHANGED <<srcVars, tgtChan, tgtChan0>>
  BY DEF Analyze
<1>2. CASE NullCount = 0
  BY <1>1, <1>2, ExitIInv DEF Analyze, Outcome
<1>3. CASE NullCount # 0
  <2>1. PICK proceed \in BOOLEAN :
          IF ~proceed
            THEN Exit("cancelled") /\ UNCHANGED runs
            ELSE /\ pc' = "update" /\ todo' = Fetched /\ txChan' = tgtChan
                 /\ UNCHANGED <<outcome, runs>>
    BY <1>3 DEF Analyze
  <2>2. CASE ~proceed
    BY <1>1, <2>1, <2>2, ExitIInv DEF Outcome
  <2>3. CASE proceed
    <3>1. pc' = "update" /\ todo' = Fetched /\ txChan' = tgtChan
          /\ UNCHANGED <<outcome, runs>>
      BY <2>1, <2>3
    <3>2. Fetched' = Fetched /\ Fetched \subseteq srcSpectra
      BY <1>1 DEF Fetched, srcVars
    <3>3. TypeOK'
      BY <1>1, <3>1, <3>2 DEF IInv, TypeOK, srcVars, Working
    <3>4. ChannelsAllOrNothing'
      BY <1>1 DEF IInv, ChannelsAllOrNothing, Overlay, Writes, Parse, srcVars
    <3>5. txChan' = Overlay(tgtChan, srcSpectra \ Fetched)'
      BY <1>1, <3>1, <3>2 DEF IInv, TypeOK, Overlay, Writes, Fetched, srcVars
    <3>6. TxChanInv'
      BY <3>1, <3>2, <3>5 DEF TxChanInv
    <3>. QED BY <3>3, <3>4, <3>6 DEF IInv
  <2>. QED BY <2>2, <2>3
<1>. QED BY <1>2, <1>3

LEMMA UpdateRowIInv == IInv /\ UpdateRow => IInv'
<1> SUFFICES ASSUME IInv, UpdateRow PROVE IInv'
  OBVIOUS
<1>1. PICK s \in todo : todo' = todo \ {s} /\ txChan' = Overlay(txChan, {s})
  BY DEF UpdateRow
<1>2. UNCHANGED <<srcVars, tgtChan, tgtChan0, pc, outcome, runs>> /\ pc = "update"
  BY DEF UpdateRow
<1>3. todo \subseteq Fetched /\ txChan = Overlay(tgtChan, srcSpectra \ todo)
  BY <1>2 DEF IInv, TxChanInv
<1>4. TypeOK'
  BY <1>1, <1>2, OverlayType DEF IInv, TypeOK, srcVars
<1>5. ChannelsAllOrNothing'
  BY <1>2 DEF IInv, ChannelsAllOrNothing, Overlay, Writes, srcVars
<1>6. s \in srcSpectra
  BY <1>1, <1>3 DEF Fetched
<1>7. (srcSpectra \ todo) \cup {s} = srcSpectra \ todo'
  BY <1>1, <1>6
<1>8. txChan' = Overlay(tgtChan, srcSpectra \ todo')
  <2>1. tgtChan \in [SpectrumId -> ChanVal]
    BY DEF IInv, TypeOK
  <2>2. Overlay(Overlay(tgtChan, srcSpectra \ todo), {s})
          = Overlay(tgtChan, (srcSpectra \ todo) \cup {s})
    BY <2>1, OverlayStep
  <2>. QED BY <1>1, <1>3, <1>7, <2>2
<1>9. TxChanInv'
  <2>1. (Overlay(tgtChan, srcSpectra \ todo))' = Overlay(tgtChan, srcSpectra \ todo')
    BY <1>2 DEF Overlay, Writes, Parse, srcVars
  <2>2. todo' \subseteq Fetched'
    BY <1>1, <1>2, <1>3 DEF Fetched, srcVars
  <2>. QED BY <1>2, <1>8, <2>1, <2>2 DEF TxChanInv
<1>. QED BY <1>4, <1>5, <1>9 DEF IInv

\* The commit publishes the overlay of every source row; by
\* OverlayIdempotent that is the same column in the first run and in any
\* later one.
LEMMA CommitUpdateIInv == IInv /\ CommitUpdate => IInv'
<1> SUFFICES ASSUME IInv, CommitUpdate PROVE IInv'
  OBVIOUS
<1>1. /\ pc = "update" /\ todo = {} /\ tgtChan' = txChan /\ pc' = "verify"
      /\ UNCHANGED <<srcVars, txChan, tgtChan0, todo, outcome, runs>>
  BY DEF CommitUpdate
<1>2. tgtChan' = Overlay(tgtChan, srcSpectra)
  BY <1>1 DEF IInv, TxChanInv
<1>3. Overlay(tgtChan, srcSpectra) = Overlay(tgtChan0, srcSpectra)
  <2>1. tgtChan0 \in [SpectrumId -> ChanVal]
    BY DEF IInv, TypeOK
  <2>2. CASE tgtChan = tgtChan0
    BY <2>2
  <2>3. CASE tgtChan = Overlay(tgtChan0, srcSpectra)
    BY <2>1, <2>3, OverlayIdempotent
  <2>. QED BY <2>2, <2>3 DEF IInv, ChannelsAllOrNothing
<1>4. Overlay(tgtChan0, srcSpectra)' = Overlay(tgtChan0, srcSpectra)
  BY <1>1 DEF Overlay, Writes, Parse, srcVars
<1>5. TypeOK'
  BY <1>1 DEF IInv, TypeOK, srcVars, Working
<1>6. ChannelsAllOrNothing'
  BY <1>1, <1>2, <1>3, <1>4 DEF ChannelsAllOrNothing
<1>7. TxChanInv'
  BY <1>1 DEF TxChanInv
<1>. QED BY <1>5, <1>6, <1>7 DEF IInv

LEMMA VerifyIInv == IInv /\ Verify => IInv'
BY ExitIInv DEF Verify, Outcome

LEMMA CrashIInv == IInv /\ Crash => IInv'
BY ExitIInv DEF Crash, Outcome

LEMMA RestartIInv == IInv /\ Restart => IInv'
<1> SUFFICES ASSUME IInv, Restart PROVE IInv'
  OBVIOUS
<1>1. /\ pc = "exited" /\ runs < MaxRuns /\ pc' = "start"
      /\ outcome' = "none" /\ runs' = runs + 1
      /\ UNCHANGED <<srcVars, tgtChan, txChan, tgtChan0, todo>>
  BY DEF Restart
<1>2. TypeOK'
  BY <1>1 DEF IInv, TypeOK, srcVars, Outcome
<1>3. ChannelsAllOrNothing' /\ TxChanInv'
  BY <1>1 DEF IInv, ChannelsAllOrNothing, TxChanInv, Overlay, Writes, Parse, srcVars
<1>. QED BY <1>2, <1>3 DEF IInv

LEMMA StutterIInv == IInv /\ UNCHANGED vars => IInv'
BY DEF IInv, TypeOK, ChannelsAllOrNothing, TxChanInv, Overlay, Writes, Parse,
       Fetched, vars, srcVars

LEMMA NextIInv == IInv /\ [Next]_vars => IInv'
BY AnalyzeIInv, UpdateRowIInv, CommitUpdateIInv, VerifyIInv, CrashIInv,
   RestartIInv, StutterIInv
DEF Next, ScriptStep

\* IInv holds in every state of every behaviour of the script.
THEOREM ColumnsIInvInvariant == Spec => []IInv
BY InitIInv, NextIInv, PTL DEF Spec

\* Every reachable state of update_spectra_columns.py runs is well typed:
\* in particular no unparsed text ever reaches the channels column.
THEOREM ColumnsTypeCorrect == Spec => []TypeOK
BY ColumnsIInvInvariant, PTL DEF IInv

\* The single transaction of update_spectra_columns.py, with any number of
\* crashes and re-runs: the committed channels are the original ones or the
\* result of one complete pass over the source, never a part of a pass.
THEOREM ChannelsAtomic == Spec => []ChannelsAllOrNothing
BY ColumnsIInvInvariant, PTL DEF IInv
-----------------------------------------------------------------------------
(* Refinement of the back-fill contract *)

LEMMA BackfillInit == Init => Backfill!Init
BY DEF Init, Backfill!Init, SrcChanVal, ChanVal, NullChan, JsonNull, Unparseable

\* One complete pass over the source, as the code computes it, is the
\* contract's Fill: a row is written iff it is in the target and its source
\* value is neither NULL (not fetched) nor text that does not parse.
LEMMA OverlayIsFill ==
    ASSUME NEW c \in [SpectrumId -> ChanVal],
           srcChan \in [SpectrumId -> SrcChanVal]
    PROVE  Overlay(c, srcSpectra) =
             [s \in SpectrumId |-> IF s \in Backfill!Loaded
                                    THEN Backfill!Decode(srcChan[s]) ELSE c[s]]
BY DEF Overlay, Writes, Parse, Backfill!Loaded, Backfill!Decodable, Backfill!Decode,
       SrcChanVal, NullChan, JsonNull, Unparseable

\* The commit publishes the overlay of every source row: a Fill step.
LEMMA CommitUpdateRefines == IInv /\ CommitUpdate => Backfill!Fill
<1> SUFFICES ASSUME IInv, CommitUpdate PROVE Backfill!Fill
  OBVIOUS
<1>1. /\ tgtChan' = txChan
      /\ UNCHANGED srcVars
      /\ txChan = Overlay(tgtChan, srcSpectra)
  BY DEF CommitUpdate, IInv, TxChanInv
<1>2. /\ tgtChan \in [SpectrumId -> ChanVal]
      /\ srcChan \in [SpectrumId -> SrcChanVal]
  BY DEF IInv, TypeOK
<1>3. Overlay(tgtChan, srcSpectra) =
        [s \in SpectrumId |-> IF s \in Backfill!Loaded
                               THEN Backfill!Decode(srcChan[s]) ELSE tgtChan[s]]
  BY <1>2, OverlayIsFill
<1>. QED BY <1>1, <1>3 DEF Backfill!Fill, srcVars

LEMMA BackfillNext == IInv /\ [Next]_vars => [Backfill!Fill]_(Backfill!vars)
<1> SUFFICES ASSUME IInv, [Next]_vars PROVE [Backfill!Fill]_(Backfill!vars)
  OBVIOUS
<1>1. CASE CommitUpdate
  BY <1>1, CommitUpdateRefines
<1>2. CASE Analyze \/ UpdateRow \/ Verify \/ Crash \/ Restart \/ UNCHANGED vars
  BY <1>2 DEF Analyze, UpdateRow, Verify, Crash, Restart, vars, srcVars,
              Backfill!vars
<1>. QED BY <1>1, <1>2 DEF Next, ScriptStep

\* update_spectra_columns.py, with any number of crashes and re-runs,
\* implements the back-fill contract: the committed channels change only by
\* one step that writes every decodable source value at once.
THEOREM ColumnsImplementsBackfill == Spec => BackfillRefinement
BY BackfillInit, BackfillNext, ColumnsIInvInvariant, PTL
DEF Spec, BackfillRefinement, Backfill!Spec
=====
