-------------------------------- MODULE Turnos --------------------------------
(***************************************************************************)
(* What the KERNEL promises about an interface: the processes that ask for *)
(* it wait in the order they came, it serves the first one only, and that  *)
(* process leaves when it has been served.                                 *)
(***************************************************************************)
EXTENDS Sequences

CONSTANTS Pids, Interfaces, NADA

VARIABLES
  fila,             \* [Interfaces -> the processes that wait, in order]
  turno             \* [Interfaces -> who is served and how far it is]

turnos == <<fila, turno>>

Libre == [pid |-> NADA, fase |-> "nadie"]

Espera(p) == \E i \in Interfaces : \E k \in DOMAIN fila[i] : fila[i][k] = p

Init ==
  /\ fila = [i \in Interfaces |-> <<>>]
  /\ turno = [i \in Interfaces |-> Libre]

Llegar(i, p) ==
  /\ ~Espera(p)
  /\ fila' = [fila EXCEPT ![i] = Append(@, p)]
  /\ UNCHANGED turno

Atender(i) ==
  /\ turno[i] = Libre
  /\ fila[i] # <<>>
  /\ turno' = [turno EXCEPT ![i] = [pid |-> Head(fila[i]), fase |-> "atendido"]]
  /\ UNCHANGED fila

Terminar(i) ==
  /\ turno[i].fase = "atendido"
  /\ turno' = [turno EXCEPT ![i].fase = "hecho"]
  /\ UNCHANGED fila

Volver(i) ==
  /\ turno[i].fase = "hecho"
  /\ fila' = [fila EXCEPT ![i] = Tail(@)]
  /\ turno' = [turno EXCEPT ![i] = Libre]

Next == \E i \in Interfaces :
  (\E p \in Pids : Llegar(i, p)) \/ Atender(i) \/ Terminar(i) \/ Volver(i)

Spec == Init /\ [][Next]_turnos
=============================================================================
