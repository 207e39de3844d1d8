-------------------------- MODULE MCServiceServer --------------------------
(* Instances of ServiceServer for TLC: addresses of either kind are        *)
(* interchangeable.                                                        *)
EXTENDS ServiceServer

AddressSymmetry == Permutations(Sockets) \cup Permutations(Memory)
=============================================================================
