------------------------------ MODULE MCMemoria ------------------------------
(* Values for the constants of Memoria.                                    *)
EXTENDS PropiedadesMemoria, TLC

SimetriaPids == Permutations(Pids)
=============================================================================
