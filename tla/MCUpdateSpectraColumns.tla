----------------------- MODULE MCUpdateSpectraColumns -----------------------
(* Small instances of UpdateSpectraColumns for TLC. *)
EXTENDS UpdateSpectraColumns

\* Two spectra (one NULL in the target to open the gate, one populated) and
\* two channel arrays (so a source value can differ from the target's).
MCSpectrumId == 1..2
MCChannels == {1, 2}
=============================================================================
