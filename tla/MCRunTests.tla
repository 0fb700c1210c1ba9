----------------------------- MODULE MCRunTests -----------------------------
(* Instances of RunTests for TLC. *)
EXTENDS RunTests

\* One client and one message, with the minimal timeout of 120 s; ten clients and
\* 500 messages, whose timeout of 600 s exceeds the life of a finished Job.
ShortAndLong == <<[c |-> 1, m |-> 1], [c |-> 10, m |-> 500]>>
Short == <<[c |-> 1, m |-> 1]>>

Two == <<2>>
One == <<1>>
FourThenTwo == <<4, 2>>
=============================================================================
