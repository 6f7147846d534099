----------------------------- MODULE MCLogSync -----------------------------
(* Bounds for checking LogSync: contacts are numbers, in the order they end. *)
EXTENDS LogSync

MCContact == 1 .. MaxTotal
=============================================================================
