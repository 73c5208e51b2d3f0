-------------------------- MODULE MC_DynamicDialog --------------------------
(* Model-checking instance of DynamicDialog: two revision-history dialogs  *)
(* (so that two deferred opens can race), one note dialog, and up to two   *)
(* pending showDlg timers per dialog (a double click).                     *)
EXTENDS DynamicDialog
=============================================================================
