---------------------- MODULE MCMigrateAllDataPaging ----------------------
(***************************************************************************)
(* The speed phase of MigrateAllData on more markers and a batch size      *)
(* above one, so that the loop takes several batches and its last batch is *)
(* partial.  The spectra and flags phases are kept small: no spectrum ids  *)
(* and one speed value.                                                    *)
(***************************************************************************)
EXTENDS MigrateAllData

MCSpectrumId == {}
MCMarkerId == 1..5
MCSpeed == {1}

\* Initial states of the run: any speeds in source and target, no
\* has_spectrum flag set on either side (the flag phase is checked by the
\* other runs).
PagingInit ==
    /\ Init
    /\ \A m \in MarkerId : ~srcHasSpec[m] /\ ~tgtHasSpec[m]

PagingSpec == PagingInit /\ [][Next]_vars /\ WF_vars(ScriptStep)

=============================================================================
