------------------------- MODULE MCMigrateAllData -------------------------
(* Small instances of MigrateAllData for TLC. *)
EXTENDS MigrateAllData

\* Two spectra, two markers, two distinct speeds (so that a source speed can
\* differ from a speed the target already holds).
MCSpectrumId == 1..2
MCMarkerId == 1..2
MCSpeed == {1, 2}
=============================================================================
