---------------------------- MODULE MCAppTrigger ----------------------------
(***************************************************************************)
(* Small instances of AppTrigger for TLC.                                  *)
(***************************************************************************)
EXTENDS AppTrigger, TLC

\* The switches of the nine copies.
AllModes == {<<TRUE, TRUE>>, <<FALSE, TRUE>>, <<FALSE, FALSE>>}

\* The copy that is set for a user.
Attended == {<<Apache21287.INTERACTIVE, Apache21287.KillGuard>>}
=============================================================================
