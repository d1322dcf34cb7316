-------------------------- MODULE MCPopupLifecycle --------------------------
(***************************************************************************)
(* Instances of PopupLifecycle for TLC; its constants are plain values.    *)
(***************************************************************************)
EXTENDS PopupLifecycle
=============================================================================
