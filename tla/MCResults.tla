----------------------------- MODULE MCResults ------------------------------
(* An instance of Results for TLC. *)
EXTENDS Results

TwoAndOne == <<2, 1>>
=============================================================================
