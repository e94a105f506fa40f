-------------------------------- MODULE Marcos --------------------------------
(***************************************************************************)
(* What MEMORIA promises about its frames, seen from outside: a frame has  *)
(* one owner or none, and passes from one process to another only by being *)
(* free in between.                                                        *)
(***************************************************************************)
CONSTANTS Cuadros,          \* the frames: 0 .. CANT_FRAMES - 1
          Procesos,
          NADIE

VARIABLE duenio             \* duenio[f]: the process that has frame f

TypeOK == duenio \in [Cuadros -> Procesos \cup {NADIE}]

Init == duenio = [f \in Cuadros |-> NADIE]

Tomar(p, f) == /\ duenio[f] = NADIE
               /\ duenio' = [duenio EXCEPT ![f] = p]

Soltar(f) == duenio' = [duenio EXCEPT ![f] = NADIE]

Next == \E f \in Cuadros : Soltar(f) \/ \E p \in Procesos : Tomar(p, f)

Spec == Init /\ [][Next]_duenio
=============================================================================
