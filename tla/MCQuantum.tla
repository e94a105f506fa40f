------------------------------- MODULE MCQuantum -------------------------------
(* Values for the constants of Quantum.                                    *)
EXTENDS PropiedadesQuantum

RRyVRR == {[algoritmo |-> "RR", lineas |-> 1], [algoritmo |-> "VRR", lineas |-> 0]}
SoloVRR == {[algoritmo |-> "VRR", lineas |-> 0]}
UnaLinea == {[algoritmo |-> "RR", lineas |-> 1]}

UnaUnidad == {1}
=============================================================================
