---------------------------- MODULE MCRunTestsV3 ----------------------------
(* An instance of RunTestsV3 for TLC. *)
EXTENDS RunTestsV3

Two == <<2>>
=============================================================================
