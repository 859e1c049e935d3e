---- MODULE MCBackups ----
(***************************************************************************)
(* Two workers, a backup that is there and one that can be taken, one      *)
(* restore.                                                                *)
(***************************************************************************)
EXTENDS Backups
CONSTANTS w1, w2, r1
====
