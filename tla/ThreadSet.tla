----------------------------- MODULE ThreadSet -----------------------------
(***************************************************************************)
(* The user threads of the process, shared by the modules that are         *)
(* composed: one declaration, so that they speak of the same threads.      *)
(***************************************************************************)
CONSTANT Threads
=============================================================================
