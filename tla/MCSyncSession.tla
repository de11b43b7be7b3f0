---------------------------- MODULE MCSyncSession ----------------------------
(***************************************************************************)
(* Small instances of SyncSession.  The configurations choose the size of  *)
(* the machines; the ids are chosen here.                                  *)
(***************************************************************************)
EXTENDS SyncSessionInv

(* Two machines may draw the same id, and 0 is also what the partner of a   *)
(* machine that is not linked yet reads as.                                *)
TwoIds == {0, 1}

OneId == {1}
=============================================================================
