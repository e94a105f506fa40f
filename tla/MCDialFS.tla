------------------------------- MODULE MCDialFS -------------------------------
(* Values for the constants of DialFS.                                     *)
EXTENDS PropiedadesDialFS, TLC

SimetriaNombres == Permutations(Nombres)

(* The answer to the last request is read by no guard and by no property   *)
(* but the types: states that differ in it alone are the same.             *)
SinRespuesta == <<fs, meta, lista, activo, desvios>>
=============================================================================
