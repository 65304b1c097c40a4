---------------------------- MODULE ChannelBackfill ----------------------------
(***************************************************************************)
(* What the channel back-fill promises, seen in the committed target: the  *)
(* channels column changes only by one atomic step that writes, on every   *)
(* target row whose source row carries channel data that decodes, the     *)
(* decoded value (the JSON text null decodes to NULL).  A row of the       *)
(* source with no target row, a source row without channel data and one   *)
(* whose text does not decode change nothing, and no row is ever created.  *)
(* Channel data are encoded as in UpdateSpectraColumns: 0 is NULL, a       *)
(* positive number an array, -1 the text null, -2 text that does not      *)
(* decode.                                                                 *)
(***************************************************************************)
EXTENDS Integers

CONSTANTS SpectrumId, Channels

VARIABLES srcSpectra, srcChan, tgtSpectra, tgtChan

vars == <<srcSpectra, srcChan, tgtSpectra, tgtChan>>

Decodable == Channels \cup {-1}

Decode(c) == IF c = -1 THEN 0 ELSE c

\* The target rows the back-fill writes.
Loaded == {s \in srcSpectra \cap tgtSpectra : srcChan[s] \in Decodable}

Init ==
    /\ srcSpectra \in SUBSET SpectrumId
    /\ srcChan \in [SpectrumId -> {0, -1, -2} \cup Channels]
    /\ tgtSpectra \in SUBSET SpectrumId
    /\ tgtChan \in [SpectrumId -> {0} \cup Channels]
    /\ \A s \in SpectrumId \ tgtSpectra : tgtChan[s] = 0

Fill ==
    /\ tgtChan' = [s \in SpectrumId |-> IF s \in Loaded THEN Decode(srcChan[s])
                                                         ELSE tgtChan[s]]
    /\ UNCHANGED <<srcSpectra, srcChan, tgtSpectra>>

Spec == Init /\ [][Fill]_vars

=============================================================================
