--------------------------- MODULE MCPlanificacion ---------------------------
(* Values for the constants of Planificacion.                              *)
EXTENDS PropiedadesPlanificacion, TLC

UnaInstancia == [r \in Recursos |-> 1]
DosInstancias == [r \in Recursos |-> 2]

SimetriaHilos == Permutations(Hilos)
=============================================================================
