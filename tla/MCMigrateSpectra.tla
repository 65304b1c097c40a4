------------------------- MODULE MCMigrateSpectra -------------------------
(* Small instances of MigrateSpectra for TLC. *)
EXTENDS MigrateSpectra

\* Three spectra (so a target can hold rows the source lacks while the source
\* has more than one row to insert) and two markers.
MCSpectrumId == 1..3
MCMarkerId == 1..2
=============================================================================
