---------------------------- MODULE MCEchoServer ----------------------------
(* Instances of EchoServer for TLC. *)
EXTENDS EchoServerProofs, TLC

\* The threads of the pool are interchangeable.
Symmetry == Permutations(Thread)
=============================================================================
