------------------------------ MODULE MCBackup ------------------------------
(* The sets of options that the runs of Backup use.                        *)
EXTENDS Backup

EveryOption == [reset : BOOLEAN, remove : BOOLEAN]
=============================================================================
