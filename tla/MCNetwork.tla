------------------------------ MODULE MCNetwork -----------------------------
(* One operator and one observer, and one descriptor more than suffices. *)
EXTENDS Network
=============================================================================
