------------------------- MODULE PropiedadesInterfaces -------------------------
(***************************************************************************)
(* What has to be true of the interfaces modelled in Interfaces, and after *)
(* which detours it is not:                                                *)
(*   tipo_ajeno   a request for an interface that is not in the list of    *)
(*                its type (of another type, or gone) is accepted          *)
(*   M_EXIT       an interface answers that the request failed             *)
(*   desconexion  an IO program ends                                       *)
(*   finalizar    FINALIZAR_PROCESO of a process in READY or blocked by an *)
(*                interface                                                *)
(*   repetida     a connection under a name that is still taken: the model *)
(*                goes no further, and nothing here speaks of what follows *)
(***************************************************************************)
EXTENDS Interfaces

PcDesalojo == {"recibe", "invalida", "encola", "toma", "espera", "envia", "fin"}
PcHilo == {"ninguno", "recibe", "mira", "saca", "sale", "ingresa", "avisa",
           "elimina", "quita"}
Punteros == [nombre : Nombres, con : 1 .. MAX_CONEXIONES]
Codigos  == Tipos \cup {"M_EXIT"}
Pcb      == Pids \cup {NADA}

(* Types of every variable.                                                *)
TipoPlanif ==
  planif \in [ready : Seq(Pids), corto : Nat, exec : 0 .. 1, cpu : Pcb, retenidas : BOOLEAN]

TipoDesalojo ==
  /\ desalojo \in [pc : PcDesalojo, pid : Pcb, ins : DOMAIN TipoDe \cup {NADA},
                  nombre : Nombres \cup Desconocidos \cup {NADA},
                  interfaz : Punteros \cup {NADA}, sem : 0 .. MAX_CONEXIONES]
  /\ existe_tipo \in BOOLEAN

TipoInterfaces ==
  /\ cola \in [Nombres -> Seq(Pids) \cup {NADA}]
  /\ sems \in [Nombres -> Seq(0 .. 1)]
  /\ lista \in [Tipos -> Seq(Punteros)]
  /\ hilo \in [Nombres -> [pc : PcHilo, pcb : Pcb, codigo : Codigos \cup {NADA},
                        k : Nat \ {0}]]

TipoIo ==
  /\ io \in [Nombres -> [pc : {"ausente", "espera", "sirve"}, pid : Pcb]]
  /\ pedidos \in [Nombres -> Seq(Pids)]
  /\ avisos \in [Nombres -> Seq(Codigos)]

TipoProcesos ==
  /\ finaliza \in [pc : {"listo", "busca", "sale", "hecho"}, pid : Pcb]
  /\ restan \in [Pids -> 0 .. MAX_PEDIDOS]
  /\ salidos \subseteq Pcb
  /\ kernel \in {"activo", "abortado", "sin_seguir"}
  /\ desvios \subseteq Desvios

TypeOK == TipoPlanif /\ TipoDesalojo /\ TipoInterfaces /\ TipoIo /\ TipoProcesos

-----------------------------------------------------------------------------
EnCola(i) == IF cola[i] = NADA THEN <<>> ELSE cola[i]

EnMano(i) == IF hilo[i].pcb = NADA THEN <<>> ELSE <<hilo[i].pcb>>

Uno(condicion) == IF condicion THEN 1 ELSE 0

Retiene(pc) == pc \in {"mira", "saca", "sale", "ingresa"}

(* An interface has one permit: it is in its semaphore, or with a request  *)
(* on its way, being served, answered, or being given back.  The eviction  *)
(* thread then never sends a request to a busy interface, and one that     *)
(* ends always lets the next one in.                                       *)
PermisoUnico == desvios = {} =>
  \A i \in Nombres : Actual(i) > 0 =>
    sems[i][Actual(i)]
      + Uno(desalojo.pc = "envia" /\ desalojo.nombre = i)
      + Len(pedidos[i]) + Uno(io[i].pc = "sirve") + Len(avisos[i])
      + Uno(hilo[i].pc = "avisa" \/ Retiene(hilo[i].pc)) = 1

Filas == [i \in Nombres |-> EnMano(i) \o EnCola(i)]

TurnoDe(i) ==
  CASE pedidos[i] # <<>> -> [pid |-> Head(pedidos[i]), fase |-> "atendido"]
    [] io[i].pc = "sirve" -> [pid |-> io[i].pid, fase |-> "atendido"]
    [] avisos[i] # <<>> \/ Retiene(hilo[i].pc) -> [pid |-> Head(Filas[i]), fase |-> "hecho"]
    [] OTHER -> [pid |-> NADA, fase |-> "nadie"]

Promesa == INSTANCE Turnos WITH
  Interfaces <- Nombres, fila <- Filas, turno <- [i \in Nombres |-> TurnoDe(i)]

(* Each interface serves the processes in the order they came, one at a    *)
(* time, and the one that goes back to READY is the one it has served,     *)
(* although its answer only carries the name of the interface.             *)
TurnosCumplidos ==
  Promesa!Init
  /\ [][desvios' = {} => Promesa!Next \/ UNCHANGED Promesa!turnos]_<<Promesa!turnos, desvios>>

Veces(p, s) == Cardinality({k \in DOMAIN s : s[k] = p})

(* The places of a PCB that are not the queue of an interface.             *)
Fuera(p) ==
  Veces(p, planif.ready) + Uno(planif.cpu = p)
    + Uno(desalojo.pid = p /\ desalojo.pc \in {"invalida", "encola"} /\ p \notin salidos)
    + Uno(finaliza.pid = p /\ finaliza.pc = "sale")

(* Every PCB is in one place until manejar_exit frees it, and then in      *)
(* none: not lost between two queues, nor twice in them, also when the     *)
(* interface fails or the process is finalized while it waits.  The types  *)
(* go with it.                                                             *)
EnUnLugar ==
  /\ TypeOK
  /\ kernel = "activo" /\ desvios \cap {"desconexion"} = {} => \A p \in Pids :
       /\ \A i \in Nombres : Veces(p, Filas[i]) <= 1
       /\ Fuera(p) + Cardinality({i \in Nombres : p \in ToSet(Filas[i])}) = Uno(p \notin salidos)

(* The requests on their way or being served.                              *)
EnVuelo == UNION {ToSet(pedidos[i]) \cup {io[i].pid} : i \in Nombres}

(* A process that can run has no request left to be served.                *)
VuelveServido == desvios \subseteq {"M_EXIT"} =>
  EnVuelo \cap (ToSet(planif.ready) \cup {planif.cpu}) \subseteq {NADA}

(* Whatever fails, disconnects or is finalized, a PCB that was freed is    *)
(* never scheduled, also when an interface comes back after the thread of  *)
(* its last connection has ended.  One that connects under a name still    *)
(* taken is left out (repetida): the older thread then frees PCBs of a     *)
(* queue from which the newer one takes them to READY.                     *)
SinFantasmas == kernel = "activo" =>
  salidos \cap (ToSet(planif.ready) \cup {planif.cpu}) = {}

(* A process blocked by an interface that serves comes back.               *)
BloqueadoVuelve == \A p \in Pids, i \in Nombres :
  p \in ToSet(EnCola(i)) ~> p \notin ToSet(EnCola(i)) \/ desvios # {}

-----------------------------------------------------------------------------
(* The eviction thread always comes back to receive the next reason, while *)
(* no interface fails, goes away or is asked for what is not of its type,  *)
(* and nobody is finalized: nobody keeps the permit it waits for.          *)
DesalojoVuelve ==
  desalojo.pc # "recibe" ~> desalojo.pc = "recibe" \/ desvios # {}

(* desalojo.c:10, at the top of its loop: "Espero a recibir el motivo de   *)
(* desalojo": the same, whatever happens to the interfaces.  It does not   *)
(* hold: after an M_EXIT nobody gives the permit back (trabado.cfg).       *)
DesalojoVuelveSiempre ==
  desalojo.pc # "recibe" ~> desalojo.pc = "recibe" \/ kernel # "activo"

(* desalojo.c:185: "Finaliza el proceso %d - Motivo: INVALID_INTERFACE": a *)
(* process does not wait for an interface its instruction is not for.      *)
InterfazValida ==
  \A i \in Nombres : desalojo.pc \in {"toma", "espera", "envia"} /\ desalojo.nombre = i =>
    TipoDe[desalojo.ins] = TIPO[i]

(* desalojo.c:260: "PCB liberado dentro": interfaz_valida has freed the    *)
(* PCB, so nobody has to, and the kernel goes on.                          *)
KernelSigueActivo == kernel = "activo"
=============================================================================
