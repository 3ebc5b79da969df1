--------------------------- MODULE MCRegistration ---------------------------
(* Registration for TLC: threads, and Telegram users, are interchangeable. *)
EXTENDS Registration, TLC

Symmetry == Permutations(Requests) \cup Permutations(TgIds)
=============================================================================
