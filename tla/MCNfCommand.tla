---------------------------- MODULE MCNfCommand -----------------------------
(* Constants for model checking NfCommand. *)
EXTENDS NfCommand

\* Everything the grammar accepts.
AllCommands == Operations \X Types
=============================================================================
