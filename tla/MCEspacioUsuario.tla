--------------------------- MODULE MCEspacioUsuario ---------------------------
(* Values for the constants of EspacioUsuario.                             *)
EXTENDS PropiedadesEspacioUsuario

TextoError == <<1, 1>>
SinTexto   == <<3>>           \* a text no memory of the instance holds
SimetriaPids == Permutations(Pids)
=============================================================================
