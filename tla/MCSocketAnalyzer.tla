-------------------------- MODULE MCSocketAnalyzer --------------------------
(* Instances of SocketAnalyzer for TLC. *)
EXTENDS SocketAnalyzer, TLC

\* Nothing tells two sockets apart.
SocketSymmetry == Permutations(Socket)

=============================================================================
