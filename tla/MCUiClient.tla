----------------------------- MODULE MCUiClient -----------------------------
(* An instance of UiClient for TLC; the constants are in the .cfg files. *)
EXTENDS UiClient

=============================================================================
