------------------------ MODULE MCOpenflowConnection ------------------------
(***************************************************************************)
(* OpenflowConnection with a handful of messages, completions and          *)
(* connections; the kinds of object are all initial states of one run.     *)
(***************************************************************************)
EXTENDS OpenflowConnection
=============================================================================
