------------------------------ MODULE Interfaces ------------------------------
(***************************************************************************)
(* The interfaces of the KERNEL: the thread that handles evictions         *)
(* (motivo_desalojo), one thread per connected interface (esperar_fin_io), *)
(* the console thread of a FINALIZAR_PROCESO, and the IO programs, which   *)
(* serve one request at a time, fail, or end.                              *)
(*                                                                         *)
(* A pointer to an interface is its name and the number of its connection; *)
(* it is freed when it is no longer in its list.                           *)
(***************************************************************************)
EXTENDS Integers, SequencesExt, FiniteSetsExt

CONSTANTS
  Pids,
  Nombres,          \* the interfaces that may connect
  TIPO,             \* [Nombres -> the type each one has]
  Desconocidos,     \* names that no interface has
  Pedidos,          \* what a program may ask for, as <<instruction, name>>
  MAX_PEDIDOS,      \* bound: requests per process
  MAX_CONEXIONES,   \* bound: times an interface connects
  DESVIOS,          \* bound: sets of detours (below) a behaviour may take
  NADA

Tipos == {"T_IO_GEN", "T_IO_STDIN", "T_IO_STDOUT", "T_IO_DIALFS"}

(* The instructions of each type; the last two have handlers of their own. *)
TipoDe == [IO_GEN_SLEEP |-> "T_IO_GEN", IO_STDIN_READ |-> "T_IO_STDIN",
           IO_STDOUT_WRITE |-> "T_IO_STDOUT", IO_FS |-> "T_IO_DIALFS",
           IO_FS_RW |-> "T_IO_DIALFS"]

ASSUME ConstantesAssumption ==
  /\ TIPO \in [Nombres -> Tipos]
  /\ Pedidos \subseteq (DOMAIN TipoDe) \X (Nombres \cup Desconocidos)
  /\ MAX_PEDIDOS \in Nat /\ MAX_CONEXIONES \in Nat
  /\ IsFiniteSet(Pids)
  /\ NADA \notin Pids \cup Nombres \cup Seq(Pids)

VARIABLES
  planif,           \* READY, its posts, the posts of sem_exec, the PCB in the
                    \* CPU, and whether the queues are held (DETENER)
  cola,             \* diccionario_colas: [Nombres -> a queue, or NADA]
  sems,             \* every "sem_block" created for a name; the last one is
                    \* the one in diccionario_sem
  lista,            \* interfaces_gen, interfaces_stdin, ...: pointers
  io,               \* the IO programs and what each one serves
  pedidos, avisos,  \* the two directions of each connection
  hilo,             \* esperar_fin_io of each interface
  desalojo,         \* motivo_desalojo
  existe_tipo,      \* the global of desalojo.c
  finaliza,         \* the thread of FINALIZAR_PROCESO
  restan,           \* [Pids -> requests a process may still make]
  salidos,          \* the PCBs that manejar_exit has freed
  kernel,
  desvios           \* auxiliary: which of the paths that break the promises
                    \* have been taken (see PropiedadesInterfaces)

conexiones == <<lista, io, pedidos, avisos>>
kernelVars == <<planif, cola, sems, hilo, desalojo, existe_tipo, finaliza>>
vars == <<kernelVars, conexiones, restan, salidos, kernel, desvios>>

Desvios == {"tipo_ajeno", "M_EXIT", "desconexion", "finalizar", "repetida"}

-----------------------------------------------------------------------------
(* Every step needs the kernel, and leaves it as it is, frees a PCB with   *)
(* manejar_exit, or ends it ("abortado").  The second time a PCB is freed  *)
(* MEMORIA does not know its PID, or free ends the program.                *)
Vivo == kernel = "activo" /\ UNCHANGED <<salidos, kernel>>

ManejarExit(p) ==
  /\ kernel = "activo"
  /\ salidos' = salidos \cup {p}
  /\ kernel' = IF p \in salidos \cup {NADA} THEN "abortado" ELSE kernel

Abortar == kernel = "activo" /\ kernel' = "abortado" /\ UNCHANGED salidos

Desviar(d) ==
  /\ desvios' = desvios \cup d
  /\ \E D \in DESVIOS : desvios' \subseteq D

Actual(i) == Len(sems[i])

ColaDe(n) == IF n \in Nombres THEN cola[n] ELSE NADA

-----------------------------------------------------------------------------
(* The short-term planner and the CPU, as the interfaces see them.         *)

(* The wait of sem_exec that follows a dispatch is put before the next.    *)
Despachar ==
  /\ planif.corto > 0 /\ planif.exec > 0 /\ ~planif.retenidas
  /\ IF planif.ready = <<>>
     THEN Abortar /\ UNCHANGED planif
     ELSE /\ planif' = [planif EXCEPT !.corto = @ - 1, !.exec = @ - 1,
                          !.cpu = Head(planif.ready), !.ready = Tail(@)]
          /\ Vivo
  /\ UNCHANGED <<cola, sems, hilo, desalojo, existe_tipo, finaliza, conexiones, restan, desvios>>

(* The process asks for something and the eviction thread looks for the    *)
(* interface in the list of its type.  The three handlers that are not of  *)
(* DIALFS leave in the global what the last one found.                     *)
ConGlobal(ins) == TipoDe[ins] # "T_IO_DIALFS"

Halladas(ins, n) == {e \in ToSet(lista[TipoDe[ins]]) : e.nombre = n}

Apuntada(ins, n) ==
  LET l == lista[TipoDe[ins]]
  IN  IF Halladas(ins, n) # {} THEN CHOOSE e \in Halladas(ins, n) : TRUE
      ELSE IF l = <<>> THEN NADA ELSE Last(l)

Existe(ins, n) == Halladas(ins, n) # {} \/ (ConGlobal(ins) /\ existe_tipo)

Pedir(ins, n) ==
  /\ planif.cpu # NADA /\ restan[planif.cpu] > 0
  /\ desalojo.pc = "recibe"
  /\ restan' = [restan EXCEPT ![planif.cpu] = @ - 1]
  /\ existe_tipo' = IF ConGlobal(ins) THEN Existe(ins, n) ELSE existe_tipo
  /\ desalojo' = [pc |-> IF Existe(ins, n) THEN "encola" ELSE "invalida",
                  pid |-> planif.cpu, ins |-> ins, nombre |-> n,
                  interfaz |-> Apuntada(ins, n), sem |-> 0]
  /\ planif' = [planif EXCEPT !.cpu = NADA]
  /\ Desviar(IF Existe(ins, n) /\ Halladas(ins, n) = {} /\ n \in Nombres
             THEN {"tipo_ajeno"} ELSE {})
  /\ Vivo /\ UNCHANGED <<cola, sems, hilo, finaliza, conexiones>>

Terminar ==
  /\ planif.cpu # NADA
  /\ desalojo.pc = "recibe"
  /\ desalojo' = [desalojo EXCEPT !.pc = "fin"]
  /\ ManejarExit(planif.cpu)
  /\ planif' = [planif EXCEPT !.cpu = NADA]
  /\ UNCHANGED <<cola, sems, hilo, existe_tipo, finaliza, conexiones, restan, desvios>>

-----------------------------------------------------------------------------
(* The eviction thread.                                                    *)

DesalojoA(pc) == desalojo' = [desalojo EXCEPT !.pc = pc]

(* manejar_fs_rw calls manejar_exit once more.                             *)
DesalojoInvalida ==
  /\ desalojo.pc = "invalida"
  /\ DesalojoA(IF desalojo.ins = "IO_FS_RW" /\ desalojo.pid \notin salidos
               THEN "invalida" ELSE "fin")
  /\ ManejarExit(desalojo.pid)
  /\ UNCHANGED <<planif, cola, sems, hilo, existe_tipo, finaliza, conexiones, restan, desvios>>

DesalojoSinCola ==
  /\ desalojo.pc = "encola" /\ ColaDe(desalojo.nombre) = NADA
  /\ DesalojoA("invalida")
  /\ Vivo
  /\ UNCHANGED <<planif, cola, sems, hilo, existe_tipo, finaliza, conexiones, restan, desvios>>

Encolada == [cola EXCEPT ![desalojo.nombre] = Append(@, desalojo.pid)]

(* The queue is looked up and then its mutex is taken: between the two the *)
(* thread of an interface that has gone may destroy the queue.  Here they  *)
(* are one step, so a PCB added to a destroyed queue is not seen.          *)
DesalojoEncola_M ==                     \* in front of the others
  /\ desalojo.pc = "encola" /\ ColaDe(desalojo.nombre) # NADA /\ ~planif.retenidas
  /\ cola' = [cola EXCEPT ![desalojo.nombre] = <<desalojo.pid>> \o @]
  /\ DesalojoA("toma")
  /\ Vivo
  /\ UNCHANGED <<planif, sems, hilo, existe_tipo, finaliza, conexiones, restan, desvios>>

DesalojoEncola ==
  /\ desalojo.pc = "encola" /\ ColaDe(desalojo.nombre) # NADA /\ ~planif.retenidas
  /\ cola' = Encolada
  /\ DesalojoA("toma")
  /\ Vivo
  /\ UNCHANGED <<planif, sems, hilo, existe_tipo, finaliza, conexiones, restan, desvios>>

DesalojoToma ==
  /\ desalojo.pc = "toma"
  /\ desalojo' = [desalojo EXCEPT !.pc = "espera", !.sem = Actual(desalojo.nombre)]
  /\ Vivo
  /\ UNCHANGED <<planif, cola, sems, hilo, existe_tipo, finaliza, conexiones, restan, desvios>>

DesalojoEspera_M ==                     \* the wait does not take the permit
  /\ desalojo.pc = "espera" /\ sems[desalojo.nombre][desalojo.sem] > 0
  /\ DesalojoA("envia")
  /\ Vivo
  /\ UNCHANGED <<planif, cola, sems, hilo, existe_tipo, finaliza, conexiones, restan, desvios>>

DesalojoEspera ==
  /\ desalojo.pc = "espera" /\ sems[desalojo.nombre][desalojo.sem] > 0
  /\ sems' = [sems EXCEPT ![desalojo.nombre][desalojo.sem] = @ - 1]
  /\ DesalojoA("envia")
  /\ Vivo
  /\ UNCHANGED <<planif, cola, hilo, existe_tipo, finaliza, conexiones, restan, desvios>>

Conectada(i) == io[i].pc # "ausente"

Llega(i) ==
  /\ Conectada(i)
  /\ pedidos' = [pedidos EXCEPT ![i] = Append(@, desalojo.pid)]
  /\ Vivo

SePierde == UNCHANGED pedidos /\ Vivo

(* A pointer not set, or freed, may end the kernel, name a closed socket,  *)
(* or the one that has taken its number.                                   *)
DesalojoEnvia ==
  /\ desalojo.pc = "envia"
  /\ LET e == desalojo.interfaz
         valida == e \in ToSet(lista[TipoDe[desalojo.ins]])
     IN  \/ valida /\ Llega(e.nombre)
         \/ valida /\ ~Conectada(e.nombre) /\ SePierde
         \/ ~valida /\ UNCHANGED pedidos /\ (Abortar \/ Vivo)
         \/ ~valida /\ \E i \in Nombres : Llega(i)
  /\ DesalojoA("fin")
  /\ UNCHANGED <<planif, cola, sems, hilo, existe_tipo, finaliza, lista, io, avisos, restan, desvios>>

DesalojoFin ==
  /\ desalojo.pc = "fin"
  /\ DesalojoA("recibe")
  /\ planif' = [planif EXCEPT !.exec = @ + 1]
  /\ Vivo
  /\ UNCHANGED <<cola, sems, hilo, existe_tipo, finaliza, conexiones, restan, desvios>>

-----------------------------------------------------------------------------
(* The IO program of interface i, and its registration by the KERNEL.      *)

Puntero(i, n) == [nombre |-> i, con |-> n]

(* The server does not look whether the name is taken: it is, while the    *)
(* interface is connected or the thread of its last connection goes on.    *)
Conectar(i) ==
  /\ ~Conectada(i) /\ hilo[i].pc = "ninguno"
  /\ Actual(i) < MAX_CONEXIONES
  /\ cola' = [cola EXCEPT ![i] = <<>>]
  /\ sems' = [sems EXCEPT ![i] = Append(@, 1)]
  /\ lista' = [lista EXCEPT ![TIPO[i]] = Append(@, Puntero(i, Actual(i) + 1))]
  /\ io' = [io EXCEPT ![i].pc = "espera"]
  /\ hilo' = [hilo EXCEPT ![i].pc = "recibe"]
  /\ pedidos' = [pedidos EXCEPT ![i] = <<>>]
  /\ Vivo
  /\ UNCHANGED <<planif, desalojo, existe_tipo, finaliza, avisos, restan, desvios>>

(* A connection under a name that is taken puts an empty queue in the      *)
(* dictionary in the place of the one that the older thread uses, walks    *)
(* and destroys: two threads share the name from here on, and the model    *)
(* follows the program no further.                                         *)
ConectarRepetida(i) ==
  /\ Conectada(i) \/ hilo[i].pc # "ninguno"
  /\ kernel = "activo" /\ kernel' = "sin_seguir" /\ UNCHANGED salidos
  /\ Desviar({"repetida"})
  /\ UNCHANGED <<kernelVars, conexiones, restan>>

IoToma(i) ==
  /\ io[i].pc = "espera" /\ pedidos[i] # <<>>
  /\ io' = [io EXCEPT ![i] = [pc |-> "sirve", pid |-> Head(pedidos[i])]]
  /\ pedidos' = [pedidos EXCEPT ![i] = Tail(@)]
  /\ Vivo
  /\ UNCHANGED <<kernelVars, lista, avisos, restan, desvios>>

IoContesta(i, codigo, pc) ==
  /\ io[i].pc = "sirve"
  /\ io' = [io EXCEPT ![i] = [pc |-> pc, pid |-> NADA]]
  /\ avisos' = [avisos EXCEPT ![i] = Append(@, codigo)]
  /\ Vivo
  /\ UNCHANGED <<kernelVars, lista, pedidos, restan>>

IoTermina(i) == IoContesta(i, TIPO[i], "espera") /\ UNCHANGED desvios

(* STDIN, and most requests of DIALFS, answer M_EXIT and go on.            *)
IoFalla(i) ==
  /\ TIPO[i] \in {"T_IO_STDIN", "T_IO_DIALFS"}
  /\ IoContesta(i, "M_EXIT", "espera")
  /\ Desviar({"M_EXIT"})

(* STDOUT, and a read out of range of DIALFS, end the program too.         *)
IoFallaYTermina(i) ==
  /\ TIPO[i] \in {"T_IO_STDOUT", "T_IO_DIALFS"}
  /\ IoContesta(i, "M_EXIT", "ausente")
  /\ Desviar({"M_EXIT", "desconexion"})

Desconectar(i) ==
  /\ Conectada(i)
  /\ io' = [io EXCEPT ![i] = [pc |-> "ausente", pid |-> NADA]]
  /\ Desviar({"desconexion"})
  /\ Vivo
  /\ UNCHANGED <<kernelVars, lista, pedidos, avisos, restan>>

-----------------------------------------------------------------------------
(* The thread of interface i: the end of an operation.                     *)

HiloA(i, pc) == hilo' = [hilo EXCEPT ![i].pc = pc]

HiloRecibe(i) ==
  /\ hilo[i].pc = "recibe" /\ avisos[i] # <<>>
  /\ hilo' = [hilo EXCEPT ![i] =
                [@ EXCEPT !.pc = "mira", !.codigo = Head(avisos[i]), !.pcb = NADA]]
  /\ avisos' = [avisos EXCEPT ![i] = Tail(@)]
  /\ Vivo
  /\ UNCHANGED <<planif, cola, sems, desalojo, existe_tipo, finaliza, lista, io, pedidos,
                 restan, desvios>>

Resolver(i) == IF hilo[i].codigo = "M_EXIT" THEN "sale" ELSE "ingresa"

(* list_is_empty is called before the mutex is taken.                      *)
HiloMira(i) ==
  /\ hilo[i].pc = "mira"
  /\ HiloA(i, IF cola[i] = <<>> THEN Resolver(i) ELSE "saca")
  /\ Vivo
  /\ UNCHANGED <<planif, cola, sems, desalojo, existe_tipo, finaliza, conexiones, restan, desvios>>

HiloSaca_M(i) ==                        \* cola_block_get: the PCB stays in the queue
  /\ hilo[i].pc = "saca" /\ ~planif.retenidas /\ cola[i] # <<>>
  /\ hilo' = [hilo EXCEPT ![i] = [@ EXCEPT !.pc = Resolver(i), !.pcb = Head(cola[i])]]
  /\ Vivo
  /\ UNCHANGED <<planif, cola, sems, desalojo, existe_tipo, finaliza, conexiones, restan, desvios>>

HiloSaca(i) ==
  /\ hilo[i].pc = "saca" /\ ~planif.retenidas
  /\ IF cola[i] = <<>>
     THEN Abortar /\ UNCHANGED <<cola, hilo>>
     ELSE /\ hilo' = [hilo EXCEPT ![i] = [@ EXCEPT !.pc = Resolver(i), !.pcb = Head(cola[i])]]
          /\ cola' = [cola EXCEPT ![i] = Tail(@)]
          /\ Vivo
  /\ UNCHANGED <<planif, sems, desalojo, existe_tipo, finaliza, conexiones, restan, desvios>>

HiloSale_M(i) ==                        \* goes on to READY after the exit
  /\ hilo[i].pc = "sale"
  /\ ManejarExit(hilo[i].pcb)
  /\ HiloA(i, "ingresa")
  /\ UNCHANGED <<planif, cola, sems, desalojo, existe_tipo, finaliza, conexiones, restan, desvios>>

(* The permit is not given back.                                           *)
HiloSale(i) ==
  /\ hilo[i].pc = "sale"
  /\ ManejarExit(hilo[i].pcb)
  /\ hilo' = [hilo EXCEPT ![i] = [@ EXCEPT !.pc = "recibe", !.pcb = NADA]]
  /\ UNCHANGED <<planif, cola, sems, desalojo, existe_tipo, finaliza, conexiones, restan, desvios>>

HiloIngresa(i) ==
  /\ hilo[i].pc = "ingresa"
  /\ hilo[i].pcb # NADA => ~planif.retenidas
  /\ planif' = IF hilo[i].pcb = NADA THEN planif
               ELSE [planif EXCEPT !.ready = Append(@, hilo[i].pcb), !.corto = @ + 1]
  /\ hilo' = [hilo EXCEPT ![i] = [@ EXCEPT !.pc = "avisa", !.pcb = NADA]]
  /\ Vivo
  /\ UNCHANGED <<cola, sems, desalojo, existe_tipo, finaliza, conexiones, restan, desvios>>

HiloAvisa_M(i) ==                       \* the semaphore is not posted
  /\ hilo[i].pc = "avisa"
  /\ HiloA(i, "recibe")
  /\ Vivo
  /\ UNCHANGED <<planif, cola, sems, desalojo, existe_tipo, finaliza, conexiones, restan, desvios>>

HiloAvisa(i) ==
  /\ hilo[i].pc = "avisa"
  /\ sems' = [sems EXCEPT ![i][Actual(i)] = 1]
  /\ HiloA(i, "recibe")
  /\ Vivo
  /\ UNCHANGED <<planif, cola, desalojo, existe_tipo, finaliza, conexiones, restan, desvios>>

(* The connection is closed: eliminar_interfaz walks the queue by index,   *)
(* without its mutex, and frees the PCBs it leaves in it.                  *)
HiloCorta(i) ==
  /\ hilo[i].pc = "recibe" /\ avisos[i] = <<>> /\ ~Conectada(i)
  /\ hilo' = [hilo EXCEPT ![i] = [@ EXCEPT !.pc = "elimina", !.k = 1]]
  /\ Vivo
  /\ UNCHANGED <<planif, cola, sems, desalojo, existe_tipo, finaliza, conexiones, restan, desvios>>

HiloElimina(i) ==
  /\ hilo[i].pc = "elimina" /\ hilo[i].k <= Len(cola[i])
  /\ ManejarExit(cola[i][hilo[i].k])
  /\ hilo' = [hilo EXCEPT ![i].k = @ + 1]
  /\ UNCHANGED <<planif, cola, sems, desalojo, existe_tipo, finaliza, conexiones, restan, desvios>>

HiloDestruye(i) ==
  /\ hilo[i].pc = "elimina" /\ hilo[i].k > Len(cola[i])
  /\ cola' = [cola EXCEPT ![i] = NADA]
  /\ HiloA(i, "quita")
  /\ Vivo
  /\ UNCHANGED <<planif, sems, desalojo, existe_tipo, finaliza, conexiones, restan, desvios>>

Suyas(i) == {e \in ToSet(lista[TIPO[i]]) : e.nombre = i}

HiloQuita(i) ==
  /\ hilo[i].pc = "quita"
  /\ lista' = IF Suyas(i) = {} THEN lista
              ELSE [lista EXCEPT ![TIPO[i]] = RemoveFirst(@, CHOOSE e \in Suyas(i) : TRUE)]
  /\ HiloA(i, "ninguno")
  /\ Vivo
  /\ UNCHANGED <<planif, cola, sems, desalojo, existe_tipo, finaliza, io, pedidos, avisos,
                 restan, desvios>>

-----------------------------------------------------------------------------
(* FINALIZAR_PROCESO of a process that is in READY or in the queue of an   *)
(* interface: planning is stopped, the PCB is taken out without the posts  *)
(* that announced it, and then freed; planning is resumed.                 *)
ConSuPcb(p) == {i \in Nombres : /\ cola[i] # NADA /\ p \in ToSet(cola[i])
                                /\ i \in {e.nombre : e \in ToSet(lista[TIPO[i]])}}

Finalizar(p) ==
  /\ finaliza.pc = "listo" /\ ~planif.retenidas
  /\ p \in ToSet(planif.ready) \/ ConSuPcb(p) # {}
  /\ planif' = [planif EXCEPT !.retenidas = TRUE]
  /\ finaliza' = [pc |-> "busca", pid |-> p]
  /\ Desviar({"finalizar"})
  /\ Vivo
  /\ UNCHANGED <<cola, sems, hilo, desalojo, existe_tipo, conexiones, restan>>

FinalizarDeReady ==
  /\ finaliza.pc = "busca" /\ finaliza.pid \in ToSet(planif.ready)
  /\ planif' = [planif EXCEPT !.ready = RemoveFirst(@, finaliza.pid)]
  /\ finaliza' = [finaliza EXCEPT !.pc = "sale"]
  /\ Vivo
  /\ UNCHANGED <<cola, sems, hilo, desalojo, existe_tipo, conexiones, restan, desvios>>

FinalizarDeCola ==
  /\ finaliza.pc = "busca" /\ finaliza.pid \notin ToSet(planif.ready)
  /\ \E i \in ConSuPcb(finaliza.pid) : cola' = [cola EXCEPT ![i] = RemoveFirst(@, finaliza.pid)]
  /\ finaliza' = [finaliza EXCEPT !.pc = "sale"]
  /\ Vivo
  /\ UNCHANGED <<planif, sems, hilo, desalojo, existe_tipo, conexiones, restan, desvios>>

(* It is asked of the CPU, and planning is resumed unless it is there.     *)
FinalizarSinPcb ==
  /\ finaliza.pc = "busca"
  /\ finaliza.pid \notin ToSet(planif.ready) /\ ConSuPcb(finaliza.pid) = {}
  /\ finaliza' = [pc |-> "hecho", pid |-> NADA]
  /\ planif' = [planif EXCEPT !.retenidas = FALSE]
  /\ Vivo
  /\ UNCHANGED <<cola, sems, hilo, desalojo, existe_tipo, conexiones, restan, desvios>>

FinalizarSale ==
  /\ finaliza.pc = "sale"
  /\ ManejarExit(finaliza.pid)
  /\ finaliza' = [pc |-> "hecho", pid |-> NADA]
  /\ planif' = [planif EXCEPT !.retenidas = FALSE]
  /\ UNCHANGED <<cola, sems, hilo, desalojo, existe_tipo, conexiones, restan, desvios>>

-----------------------------------------------------------------------------
Init ==
  /\ planif \in {[ready |-> s, corto |-> Len(s), exec |-> 1, cpu |-> NADA,
                  retenidas |-> FALSE] : s \in SetToSeqs(Pids)}
  /\ cola = [i \in Nombres |-> NADA]
  /\ sems = [i \in Nombres |-> <<>>]
  /\ lista = [t \in Tipos |-> <<>>]
  /\ io = [i \in Nombres |-> [pc |-> "ausente", pid |-> NADA]]
  /\ pedidos = [i \in Nombres |-> <<>>]
  /\ avisos = [i \in Nombres |-> <<>>]
  /\ hilo = [i \in Nombres |-> [pc |-> "ninguno", pcb |-> NADA, codigo |-> NADA, k |-> 1]]
  /\ desalojo = [pc |-> "recibe", pid |-> NADA, ins |-> NADA, nombre |-> NADA,
                 interfaz |-> NADA, sem |-> 0]
  /\ existe_tipo = FALSE
  /\ finaliza = [pc |-> "listo", pid |-> NADA]
  /\ restan = [p \in Pids |-> MAX_PEDIDOS]
  /\ salidos = {}
  /\ kernel = "activo"
  /\ desvios = {}

MotivoDesalojo ==
  \/ (\E q \in Pedidos : Pedir(q[1], q[2])) \/ Terminar
  \/ DesalojoInvalida \/ DesalojoSinCola \/ DesalojoEncola \/ DesalojoToma
  \/ DesalojoEspera \/ DesalojoEnvia \/ DesalojoFin

Averias(i) == IoFalla(i) \/ IoFallaYTermina(i) \/ Desconectar(i)

IO(i) == IoToma(i) \/ IoTermina(i)

EsperarFinIo(i) ==
  \/ HiloRecibe(i) \/ HiloMira(i) \/ HiloSaca(i) \/ HiloSale(i) \/ HiloIngresa(i)
  \/ HiloAvisa(i) \/ HiloCorta(i) \/ HiloElimina(i) \/ HiloDestruye(i) \/ HiloQuita(i)

FinalizarProceso ==
  (\E p \in Pids : Finalizar(p)) \/ FinalizarDeReady \/ FinalizarDeCola \/ FinalizarSinPcb \/ FinalizarSale

Next ==
  \/ Despachar \/ MotivoDesalojo \/ FinalizarProceso
  \/ \E i \in Nombres : \/ Conectar(i) \/ ConectarRepetida(i)
                      \/ IO(i) \/ Averias(i) \/ EsperarFinIo(i)

Spec == Init /\ [][Next]_vars

(* Every thread and every IO program goes on; what the user does (connect, *)
(* disconnect, FINALIZAR_PROCESO) and a failure need not happen.           *)
SpecJusta ==
  /\ Spec
  /\ WF_vars(Despachar) /\ WF_vars(MotivoDesalojo)
  /\ WF_vars(FinalizarDeReady \/ FinalizarDeCola \/ FinalizarSinPcb \/ FinalizarSale)
  /\ \A i \in Nombres : WF_vars(IO(i)) /\ WF_vars(EsperarFinIo(i))
=============================================================================
