---------------------------- MODULE Planificacion ----------------------------
(***************************************************************************)
(* The scheduler of the KERNEL process with ALGORITMO_PLANIFICACION=FIFO:  *)
(* the console threads that admit processes and stop or resume planning,   *)
(* the long-term and short-term planners, the thread that receives the     *)
(* reason a process left the CPU, one manager thread per resource, and the *)
(* two processes they talk to, MEMORIA and CPU, as far as the scheduler    *)
(* can see them.  Every thread is a program counter; a step is what the    *)
(* code does between two points where another thread can matter: a         *)
(* semaphore, a queue mutex, a socket, an unprotected global.              *)
(*                                                                         *)
(* Names are the source's.  "pid" stands for the t_pcb the code passes.    *)
(* A definition whose name ends in _M is no part of the model: it is a     *)
(* faulty variant of the definition after it, and the properties are       *)
(* tested by putting it in that one's place.                               *)
(***************************************************************************)
EXTENDS Integers, SequencesExt, FiniteSets

CONSTANTS
  MAX_PID,                  \* bound: how many times crear_pcb is called
  Recursos,                 \* RECURSOS of the configuration file
  INSTANCIAS_RECURSOS,      \* [Recursos -> Nat], idem
  GRADO_MULTIPROGRAMACION,  \* idem
  Hilos,                    \* console threads: one per line typed
  LINEAS,                   \* bound: lines a thread runs (> 1: EJECUTAR_SCRIPT)
  COMANDOS,                 \* the commands the user types
  GRADOS,                   \* the arguments given to MULTIPROGRAMACION
  RUTAS,                    \* the paths given to INICIAR_PROCESO
  Nombres,                  \* names the programs use in WAIT and SIGNAL
  MAX_INSTR,                \* bound: WAIT/SIGNAL instructions of a program
  EN_ORDEN,                 \* TRUE: the threads blocked in recv on
                            \* conexion_memoria are served in the order in
                            \* which they sent; FALSE: any of them may be
  INTERFACES                \* TRUE: interfaces connect at any time

ASSUME ConstantesAssumption ==
  /\ MAX_PID \in Nat
  /\ IsFiniteSet(Recursos) /\ IsFiniteSet(Hilos)
  /\ INSTANCIAS_RECURSOS \in [Recursos -> Nat]
  /\ GRADO_MULTIPROGRAMACION \in Nat
  /\ LINEAS \in Nat
  /\ GRADOS \subseteq Nat
  /\ MAX_INSTR \in Nat
  /\ EN_ORDEN \in BOOLEAN
  /\ INTERFACES \in BOOLEAN
  /\ "desalojo" \notin Hilos

Pids      == 1 .. MAX_PID
Semaforos == {"sem_multiprogramacion", "sem_pcb_espera_ready",
              "sem_corto_plazo", "sem_exec",
              "planificador_corto", "planificador_largo"}

OK    == 0
ERROR == -1
NADIE == 0                  \* no PCB in hand: PIDs start at 1

VARIABLES
  kernel,          \* "activo", or "abortado" after exit() or abort()
  lastPID,         \* last PID handed out
  cola_new, cola_ready,
  cola_block,      \* [Recursos -> Seq(Pids)]
  sem,             \* the value of each semaphore of init_sem_planificacion
  sem_block,       \* [Recursos -> Nat]: "sem_block_<recurso>"
  sem_instancias,  \* [Recursos -> Nat]: "sem_instancias_<recurso>"
  instancias,      \* [Recursos -> Nat]: recurso_t.instancias
  recs_asoc,       \* [Pids -> [Recursos -> Nat]]: pid_rec.recs_asoc, as a bag
  hilo,            \* console threads: pc, argument in hand, lines left
  largo,           \* planificador_largo_plazo: pc and PCB in hand
  corto,           \* planificador_corto_plazo: pc
  desalojo,        \* motivo_desalojo thread: pc, PCB and resource in hand
  gestor,          \* manejador_recursos threads: pc and PCB in hand
  PLANIFICACION,
  retenidos,       \* of mutex_new and mutex_ready, those that
                   \* detener_planificacion holds
  block_retenidos, \* resources whose queue mutex it holds
  faltan,          \* [Hilos -> SUBSET Recursos]: those that the loop of
                   \* accion_int_rec(SINCRO) has not reached yet
  GRADO,           \* current value of GRADO_MULTIPROGRAMACION
  bajando,         \* bajar_multiprogramacion threads still waiting
  result,          \* the global the console threads receive into
  pedidos, respuestas,   \* the two directions of conexion_memoria
  memoria,         \* PIDs whose structures MEMORIA has created
  despacho, motivos,     \* the two directions of conexion_cpu_dispatch
  cpu,             \* dispatch loop of the CPU: pc and PID
  pasos            \* [Pids -> Nat]: WAIT/SIGNAL instructions executed

alta     == <<cola_new, lastPID, result, pedidos, respuestas>>
grado    == <<GRADO, bajando>>
parada   == <<PLANIFICACION, retenidos, block_retenidos, faltan>>
consola  == <<hilo, lastPID, result, grado, parada>>
recursos == <<sem_block, sem_instancias, instancias, recs_asoc>>
conexion == <<pedidos, respuestas, memoria>>
procesador == <<despacho, motivos, cpu, pasos>>
vars == <<kernel, cola_new, cola_ready, cola_block, sem, recursos, consola,
          largo, corto, desalojo, gestor, conexion, procesador>>

-----------------------------------------------------------------------------
(* Values.                                                                 *)

Pc == [hilo     |-> {"libre", "new", "cupo", "recibe", "evalua", "descarta",
                     "fija", "para_corto", "para_largo", "para_new",
                     "para_ready", "para_block", "abre_new", "abre_ready",
                     "abre_block", "reanuda"},
       largo    |-> {"espera", "toma", "ingresa", "lista", "compuerta",
                     "detenido"},
       corto    |-> {"espera", "toma", "exec", "compuerta", "detenido"},
       desalojo |-> {"espera", "wait", "confirma", "bloquea", "avisa",
                     "signal", "exit", "exit_recibe", "fin"},
       gestor   |-> {"espera", "instancia", "asigna", "saca", "ingresa",
                     "avisa", "muerto"},
       cpu      |-> {"libre", "pide", "ejecuta", "colgada"}]

Motivos  == {"M_EXIT", "M_WAIT", "M_SIGNAL"}

(* A resource name a message carries; DobleFree marks the name that        *)
(* aumentar_instancias_recurso frees and manejar_signal frees again.       *)
NINGUNO   == "ninguno"
DobleFree == "doble_free"
NombresMsg == Nombres \cup Recursos \cup {NINGUNO, DobleFree}

Pedido    == [op : {"CREAR_PROCESO", "ELIMINAR_PROCESO"}, pid : Pids,
              ruta : RUTAS \cup {NINGUNO}, quien : Hilos \cup {"desalojo"}]
Respuesta == [valor : {OK, ERROR}, quien : Hilos \cup {"desalojo"}]
Motivo    == [motivo : Motivos, pid : Pids, recurso : NombresMsg]

-----------------------------------------------------------------------------
(* Helpers.                                                                *)

Activo == kernel = "activo"

SemWait(s) == /\ sem[s] > 0
              /\ sem' = [sem EXCEPT ![s] = @ - 1]

SemPost(s) == sem' = [sem EXCEPT ![s] = @ + 1]

(* signal_bin: post only if the value read is 0.                           *)
SignalBin(valor) == IF valor = 0 THEN 1 ELSE valor

IrHilo(h, pc)         == hilo' = [hilo EXCEPT ![h].pc = pc]
IrHiloCon(h, pc, arg) == hilo' = [hilo EXCEPT ![h].pc = pc, ![h].arg = arg]
IrDesalojo(pc)        == desalojo' = [desalojo EXCEPT !.pc = pc]
IrGestor(r, pc)       == gestor' = [gestor EXCEPT ![r].pc = pc]

-----------------------------------------------------------------------------
Init ==
  /\ kernel = "activo"
  /\ lastPID = 0
  /\ cola_new = <<>> /\ cola_ready = <<>>
  /\ cola_block = [r \in Recursos |-> <<>>]
  /\ sem = [s \in Semaforos |->
              CASE s = "sem_multiprogramacion" -> GRADO_MULTIPROGRAMACION
                [] s \in {"planificador_corto", "planificador_largo"} -> 1
                [] OTHER -> 0]
  /\ sem_block = [r \in Recursos |-> 0]
  /\ sem_instancias = INSTANCIAS_RECURSOS
  /\ instancias = INSTANCIAS_RECURSOS
  /\ recs_asoc = [p \in Pids |-> [r \in Recursos |-> 0]]
  /\ hilo = [h \in Hilos |-> [pc |-> "libre", arg |-> 0, lineas |-> LINEAS]]
  /\ largo = [pc |-> "espera", pid |-> NADIE]
  /\ corto = "espera"
  /\ desalojo = [pc |-> "espera", pid |-> NADIE, recurso |-> NINGUNO]
  /\ gestor = [r \in Recursos |-> [pc |-> "espera", pid |-> NADIE]]
  /\ PLANIFICACION = TRUE
  /\ retenidos = {} /\ block_retenidos = {}
  /\ faltan = [h \in Hilos |-> {}]
  /\ GRADO = GRADO_MULTIPROGRAMACION
  /\ bajando = 0
  /\ result = OK
  /\ pedidos = <<>> /\ respuestas = <<>>
  /\ memoria = {}
  /\ despacho = <<>> /\ motivos = <<>>
  /\ cpu = [pc |-> "libre", pid |-> NADIE]
  /\ pasos = [p \in Pids |-> 0]

-----------------------------------------------------------------------------
(* Console threads.                                                        *)

Comando(h, c) == hilo[h].pc = "libre" /\ hilo[h].lineas > 0 /\ c \in COMANDOS

Ejecutar(h, pc, arg) ==
  hilo' = [hilo EXCEPT ![h] = [pc |-> pc, arg |-> arg, lineas |-> @.lineas - 1]]

(* INICIAR_PROCESO: crear_pcb takes the next PID.                          *)
CrearPcb(h) ==
  /\ Comando(h, "INICIAR_PROCESO")
  /\ lastPID < MAX_PID
  /\ lastPID' = lastPID + 1
  /\ Ejecutar(h, "new", lastPID + 1)
  /\ UNCHANGED <<cola_new, sem, result, pedidos, respuestas, grado, parada>>

IngresarANew(h) ==
  /\ hilo[h].pc = "new"
  /\ "new" \notin retenidos
  /\ cola_new' = Append(cola_new, hilo[h].arg)
  /\ IrHilo(h, "cupo")
  /\ UNCHANGED <<lastPID, sem, result, pedidos, respuestas, grado, parada>>

EnviarProcesoMemoria_M(h) ==            \* does not wait for the reply
  /\ hilo[h].pc = "cupo"
  /\ SemWait("sem_multiprogramacion")
  /\ pedidos' = Append(pedidos, [op |-> "CREAR_PROCESO", pid |-> hilo[h].arg,
                                 ruta |-> "valida", quien |-> h])
  /\ IrHilo(h, "evalua")
  /\ UNCHANGED <<cola_new, lastPID, result, respuestas, grado, parada>>

EnviarProcesoMemoria(h) ==
  /\ hilo[h].pc = "cupo"
  /\ SemWait("sem_multiprogramacion")
  /\ \E ruta \in RUTAS :
       pedidos' = Append(pedidos, [op |-> "CREAR_PROCESO", pid |-> hilo[h].arg,
                                   ruta |-> ruta, quien |-> h])
  /\ IrHilo(h, "recibe")
  /\ UNCHANGED <<cola_new, lastPID, result, respuestas, grado, parada>>

(* Which of the threads blocked in recv on conexion_memoria gets the next  *)
(* reply.  The socket is shared and no lock spans a send and its recv.     *)
PuedeRecibir(t) == /\ respuestas # <<>>
                   /\ EN_ORDEN => Head(respuestas).quien = t

(* recv(conexion_memoria, &result, ...): result is a global.               *)
RecibirResultado(h) ==
  /\ hilo[h].pc = "recibe"
  /\ PuedeRecibir(h)
  /\ result' = Head(respuestas).valor
  /\ respuestas' = Tail(respuestas)
  /\ IrHilo(h, "evalua")
  /\ UNCHANGED <<cola_new, lastPID, sem, pedidos, grado, parada>>

ProcesoCreado(h) ==
  /\ hilo[h].pc = "evalua"
  /\ result = OK
  /\ SemPost("sem_pcb_espera_ready")
  /\ IrHiloCon(h, "libre", 0)
  /\ UNCHANGED <<cola_new, lastPID, result, pedidos, respuestas, grado, parada>>

ErrorAlCrear_M(h) ==                    \* posts before looking at the result
  /\ hilo[h].pc = "evalua" /\ result # OK
  /\ SemPost("sem_pcb_espera_ready")
  /\ IrHilo(h, "descarta")
  /\ UNCHANGED <<alta, grado, parada>>

ErrorAlCrear(h) ==
  /\ hilo[h].pc = "evalua"
  /\ result # OK
  /\ IrHilo(h, "descarta")
  /\ UNCHANGED <<alta, sem, grado, parada>>

(* sacar_pcb_lista; the slot of sem_multiprogramacion is not returned.     *)
DescartarDeNew(h) ==
  /\ hilo[h].pc = "descarta"
  /\ "new" \notin retenidos
  /\ cola_new' = RemoveFirst(cola_new, hilo[h].arg)
  /\ IrHiloCon(h, "libre", 0)
  /\ UNCHANGED <<lastPID, sem, result, pedidos, respuestas, grado, parada>>

Multiprogramacion_M(h) ==               \* one thread too few to lower it
  /\ Comando(h, "MULTIPROGRAMACION")
  /\ \E g \in GRADOS \ {GRADO} :
       /\ Ejecutar(h, "fija", g)
       /\ sem' = [sem EXCEPT !["sem_multiprogramacion"] =
                               @ + (IF g > GRADO THEN g - GRADO ELSE 0)]
       /\ bajando' = bajando + (IF g < GRADO THEN GRADO - g - 1 ELSE 0)
  /\ UNCHANGED <<alta, GRADO, parada>>

(* MULTIPROGRAMACION: the posts, or the threads that will wait ...         *)
Multiprogramacion(h) ==
  /\ Comando(h, "MULTIPROGRAMACION")
  /\ \E g \in GRADOS \ {GRADO} :
       /\ Ejecutar(h, "fija", g)
       /\ sem' = [sem EXCEPT !["sem_multiprogramacion"] =
                               @ + (IF g > GRADO THEN g - GRADO ELSE 0)]
       /\ bajando' = bajando + (IF g < GRADO THEN GRADO - g ELSE 0)
  /\ UNCHANGED <<alta, GRADO, parada>>

(* ... and, later, the new value of the global.                            *)
FijarGrado(h) ==
  /\ hilo[h].pc = "fija"
  /\ GRADO' = hilo[h].arg
  /\ IrHiloCon(h, "libre", 0)
  /\ UNCHANGED <<alta, sem, bajando, parada>>

BajarMultiprogramacion_M ==             \* one thread too many
  /\ SemWait("sem_multiprogramacion")
  /\ bajando' = bajando - 1
  /\ UNCHANGED <<hilo, alta, GRADO, parada>>

BajarMultiprogramacion ==
  /\ bajando > 0
  /\ SemWait("sem_multiprogramacion")
  /\ bajando' = bajando - 1
  /\ UNCHANGED <<hilo, alta, GRADO, parada>>

(* DETENER_PLANIFICACION: nothing if planning is already stopped.          *)
DetenerPlanificacion(h) ==
  /\ Comando(h, "DETENER_PLANIFICACION")
  /\ Ejecutar(h, IF PLANIFICACION THEN "para_corto" ELSE "libre", 0)
  /\ UNCHANGED <<alta, sem, grado, parada>>

DetenerCorto(h) ==
  /\ hilo[h].pc = "para_corto"
  /\ SemWait("planificador_corto")
  /\ IrHilo(h, "para_largo")
  /\ UNCHANGED <<alta, grado, parada>>

DetenerLargo(h) ==
  /\ hilo[h].pc = "para_largo"
  /\ SemWait("planificador_largo")
  /\ IrHilo(h, "para_new")
  /\ UNCHANGED <<alta, grado, parada>>

(* The queue mutexes are locked one by one (mutex_cola_aux_vrr, which only *)
(* VRR uses, is left out).                                                 *)
RetenerNew(h) ==
  /\ hilo[h].pc = "para_new"
  /\ "new" \notin retenidos
  /\ retenidos' = retenidos \cup {"new"}
  /\ IrHilo(h, "para_ready")
  /\ UNCHANGED <<alta, sem, grado, PLANIFICACION, block_retenidos, faltan>>

RetenerReady_M(h) ==                    \* mutex_ready is not locked
  /\ hilo[h].pc = "para_ready"
  /\ faltan' = [faltan EXCEPT ![h] = Recursos]
  /\ IrHilo(h, "para_block")
  /\ UNCHANGED <<alta, sem, grado, PLANIFICACION, retenidos, block_retenidos>>

RetenerReady(h) ==
  /\ hilo[h].pc = "para_ready"
  /\ "ready" \notin retenidos
  /\ retenidos' = retenidos \cup {"ready"}
  /\ faltan' = [faltan EXCEPT ![h] = Recursos]
  /\ IrHilo(h, "para_block")
  /\ UNCHANGED <<alta, sem, grado, PLANIFICACION, block_retenidos>>

(* accion_int_rec(SINCRO, true), in any order for that of the list.        *)
RetenerBlock(h) ==
  /\ hilo[h].pc = "para_block"
  /\ \E r \in faltan[h] \ block_retenidos :
       /\ block_retenidos' = block_retenidos \cup {r}
       /\ faltan' = [faltan EXCEPT ![h] = @ \ {r}]
  /\ UNCHANGED <<hilo, alta, sem, grado, PLANIFICACION, retenidos>>

BajarPlanificacion(h) ==
  /\ hilo[h].pc = "para_block"
  /\ faltan[h] = {}
  /\ PLANIFICACION' = FALSE
  /\ IrHilo(h, "libre")
  /\ UNCHANGED <<alta, sem, grado, retenidos, block_retenidos, faltan>>

(* INICIAR_PLANIFICACION: nothing if it is running ...                     *)
IniciarPlanificacion(h) ==
  /\ Comando(h, "INICIAR_PLANIFICACION")
  /\ Ejecutar(h, IF PLANIFICACION THEN "libre" ELSE "abre_new", 0)
  /\ UNCHANGED <<alta, sem, grado, parada>>

(* ... else each mutex is unlocked, whoever holds it by now.  (A list_add  *)
(* or list_remove is one step here, so that an unlock never comes in the   *)
(* middle of one: with two threads in the code it could.)                  *)
LiberarNew(h) ==
  /\ hilo[h].pc = "abre_new"
  /\ retenidos' = retenidos \ {"new"}
  /\ IrHilo(h, "abre_ready")
  /\ UNCHANGED <<alta, sem, grado, PLANIFICACION, block_retenidos, faltan>>

LiberarReady(h) ==
  /\ hilo[h].pc = "abre_ready"
  /\ retenidos' = retenidos \ {"ready"}
  /\ faltan' = [faltan EXCEPT ![h] = Recursos]
  /\ IrHilo(h, "abre_block")
  /\ UNCHANGED <<alta, sem, grado, PLANIFICACION, block_retenidos>>

LiberarBlock(h) ==
  /\ hilo[h].pc = "abre_block"
  /\ \E r \in faltan[h] :
       /\ block_retenidos' = block_retenidos \ {r}
       /\ faltan' = [faltan EXCEPT ![h] = @ \ {r}]
  /\ UNCHANGED <<hilo, alta, sem, grado, PLANIFICACION, retenidos>>

LevantarPlanificacion(h) ==
  /\ hilo[h].pc = "abre_block"
  /\ faltan[h] = {}
  /\ PLANIFICACION' = TRUE
  /\ IrHilo(h, "reanuda")
  /\ UNCHANGED <<alta, sem, grado, retenidos, block_retenidos, faltan>>

Reanudar_M(h) ==                        \* one post to each planner
  /\ hilo[h].pc = "reanuda"
  /\ sem' = [sem EXCEPT !["planificador_corto"] = @ + 1,
                        !["planificador_largo"] = @ + 1]
  /\ IrHilo(h, "libre")
  /\ UNCHANGED <<alta, grado, parada>>

(* ... the flag is raised and each planner gets two posts.                 *)
Reanudar(h) ==
  /\ hilo[h].pc = "reanuda"
  /\ sem' = [sem EXCEPT !["planificador_corto"] = @ + 2,
                        !["planificador_largo"] = @ + 2]
  /\ IrHilo(h, "libre")
  /\ UNCHANGED <<alta, grado, parada>>

-----------------------------------------------------------------------------
(* planificador_largo_plazo.                                               *)

LargoEspera ==
  /\ largo.pc = "espera"
  /\ SemWait("sem_pcb_espera_ready")
  /\ largo' = [largo EXCEPT !.pc = "toma"]
  /\ UNCHANGED <<kernel, cola_new, cola_ready>>

LargoToma_M ==                          \* list_get for list_remove
  /\ largo.pc = "toma" /\ "new" \notin retenidos /\ cola_new # <<>>
  /\ largo' = [pc |-> "ingresa", pid |-> Head(cola_new)]
  /\ UNCHANGED <<kernel, cola_new, cola_ready, sem>>

(* obtener_sgte_ready removes the head of NEW without looking whether      *)
(* there is one; the caller then dereferences what it got.                 *)
LargoToma ==
  /\ largo.pc = "toma"
  /\ "new" \notin retenidos
  /\ IF cola_new = <<>>
     THEN kernel' = "abortado" /\ UNCHANGED <<cola_new, largo>>
     ELSE /\ largo' = [pc |-> "ingresa", pid |-> Head(cola_new)]
          /\ cola_new' = Tail(cola_new)
          /\ UNCHANGED kernel
  /\ UNCHANGED <<cola_ready, sem>>

LargoIngresa ==
  /\ largo.pc = "ingresa"
  /\ "ready" \notin retenidos
  /\ cola_ready' = Append(cola_ready, largo.pid)
  /\ largo' = [pc |-> "lista", pid |-> NADIE]
  /\ UNCHANGED <<kernel, cola_new, sem>>

LargoAvisa_M ==                         \* signal_bin for sem_post
  /\ largo.pc = "lista" /\ "ready" \notin retenidos
  /\ sem' = [sem EXCEPT !["sem_corto_plazo"] = SignalBin(@)]
  /\ largo' = [largo EXCEPT !.pc = "compuerta"]
  /\ UNCHANGED <<kernel, cola_new, cola_ready>>

(* manejar_ingreso_a_ready locks mutex_ready again to print the queue, and *)
(* only then is sem_corto_plazo posted.                                    *)
LargoAvisa ==
  /\ largo.pc = "lista"
  /\ "ready" \notin retenidos
  /\ SemPost("sem_corto_plazo")
  /\ largo' = [largo EXCEPT !.pc = "compuerta"]
  /\ UNCHANGED <<kernel, cola_new, cola_ready>>

(* if (!PLANIFICACION): the flag is read without a lock ...                *)
LargoCompuerta ==
  /\ largo.pc = "compuerta"
  /\ largo' = [largo EXCEPT !.pc = IF PLANIFICACION THEN "espera" ELSE "detenido"]
  /\ UNCHANGED <<kernel, cola_new, cola_ready, sem>>

(* ... and sem_wait comes later.                                           *)
LargoReanuda ==
  /\ largo.pc = "detenido"
  /\ SemWait("planificador_largo")
  /\ largo' = [largo EXCEPT !.pc = "espera"]
  /\ UNCHANGED <<kernel, cola_new, cola_ready>>

-----------------------------------------------------------------------------
(* planificador_corto_plazo.                                               *)

CortoEspera ==
  /\ corto = "espera"
  /\ SemWait("sem_corto_plazo")
  /\ corto' = "toma"
  /\ UNCHANGED <<kernel, cola_ready, despacho>>

(* obtener_sgte_pcb_exec and, with FIFO, enviar_pcb(CTXT_EXEC).  A NULL    *)
(* PCB ends the kernel.                                                    *)
CortoDespacha ==
  /\ corto = "toma"
  /\ IF cola_ready = <<>>
     THEN kernel' = "abortado" /\ UNCHANGED <<cola_ready, despacho, corto>>
     ELSE /\ "ready" \notin retenidos
          /\ despacho' = Append(despacho, Head(cola_ready))
          /\ cola_ready' = Tail(cola_ready)
          /\ corto' = "exec"
          /\ UNCHANGED kernel
  /\ UNCHANGED <<sem>>

CortoFinExec ==
  /\ corto = "exec"
  /\ SemWait("sem_exec")
  /\ corto' = "compuerta"
  /\ UNCHANGED <<kernel, cola_ready, despacho>>

CortoCompuerta ==
  /\ corto = "compuerta"
  /\ corto' = (IF PLANIFICACION THEN "espera" ELSE "detenido")
  /\ UNCHANGED <<kernel, cola_ready, sem, despacho>>

CortoReanuda ==
  /\ corto = "detenido"
  /\ SemWait("planificador_corto")
  /\ corto' = "espera"
  /\ UNCHANGED <<kernel, cola_ready, despacho>>

-----------------------------------------------------------------------------
(* MEMORIA, the thread that serves the kernel: one request at a time, in   *)
(* the order of the socket.                                                *)

AtenderKernel ==
  /\ Activo
  /\ pedidos # <<>>
  /\ LET pedido == Head(pedidos)
         hecho == IF pedido.op = "CREAR_PROCESO" THEN pedido.ruta = "valida"
                                                 ELSE pedido.pid \in memoria
     IN  /\ memoria' = CASE ~hecho -> memoria
                          [] hecho /\ pedido.op = "CREAR_PROCESO"
                               -> memoria \cup {pedido.pid}
                          [] hecho /\ pedido.op = "ELIMINAR_PROCESO"
                               -> memoria \ {pedido.pid}
         /\ respuestas' = Append(respuestas,
                [valor |-> IF hecho THEN OK ELSE ERROR, quien |-> pedido.quien])
  /\ pedidos' = Tail(pedidos)
  /\ UNCHANGED <<kernel, cola_new, cola_ready, cola_block, sem, recursos,
                 consola, largo, corto, desalojo, gestor, procesador>>

-----------------------------------------------------------------------------
(* CPU: the dispatch loop and, of the instruction cycle, the fetch and the *)
(* instructions that give the PCB back.                                    *)

CpuRecibe ==
  /\ cpu.pc = "libre"
  /\ despacho # <<>>
  /\ cpu' = [pc |-> "pide", pid |-> Head(despacho)]
  /\ despacho' = Tail(despacho)
  /\ UNCHANGED <<motivos, pasos>>

(* MEMORIA sends nothing back for a PID it does not have, and the CPU      *)
(* waits for the instruction forever.                                      *)
CpuFetch ==
  /\ cpu.pc = "pide"
  /\ cpu' = [cpu EXCEPT !.pc = IF cpu.pid \in memoria THEN "ejecuta"
                                                      ELSE "colgada"]
  /\ UNCHANGED <<despacho, motivos, pasos>>

Desalojar(motivo, recurso) ==
  /\ motivos' = Append(motivos, [motivo |-> motivo, pid |-> cpu.pid,
                                 recurso |-> recurso])
  /\ cpu' = [pc |-> "libre", pid |-> NADIE]

(* EXIT, and every error that ends the program (M_OOM is handled alike).   *)
CpuExit ==
  /\ cpu.pc = "ejecuta"
  /\ Desalojar("M_EXIT", NINGUNO)
  /\ UNCHANGED <<despacho, pasos>>

CpuRecurso ==
  /\ cpu.pc = "ejecuta"
  /\ pasos[cpu.pid] < MAX_INSTR
  /\ pasos' = [pasos EXCEPT ![cpu.pid] = @ + 1]
  /\ \E m \in {"M_WAIT", "M_SIGNAL"}, r \in Nombres : Desalojar(m, r)
  /\ UNCHANGED <<despacho>>

-----------------------------------------------------------------------------
(* motivo_desalojo.                                                        *)

RecibirMotivo ==
  /\ desalojo.pc = "espera"
  /\ motivos # <<>>
  /\ LET m == Head(motivos)
     IN  desalojo' = [pc |-> CASE m.motivo = "M_EXIT"   -> "exit"
                               [] m.motivo = "M_WAIT"   -> "wait"
                               [] m.motivo = "M_SIGNAL" -> "signal",
                      pid |-> m.pid, recurso |-> m.recurso]
  /\ motivos' = Tail(motivos)
  /\ UNCHANGED <<kernel, sem, cola_block, recursos, pedidos, respuestas, despacho>>

(* manejar_wait: INVALID_RESOURCE.                                         *)
WaitInvalido ==
  /\ desalojo.pc = "wait"
  /\ desalojo.recurso \notin Recursos
  /\ IrDesalojo("exit")
  /\ UNCHANGED <<cola_block, recursos, despacho>>

WaitAsigna_M ==                         \* overtakes those who wait
  /\ desalojo.pc = "wait"
  /\ desalojo.recurso \in Recursos
  /\ instancias[desalojo.recurso] > 0
  /\ instancias' = [instancias EXCEPT ![desalojo.recurso] = @ - 1]
  /\ recs_asoc' = [recs_asoc EXCEPT ![desalojo.pid][desalojo.recurso] = @ + 1]
  /\ IrDesalojo("confirma")
  /\ UNCHANGED <<cola_block, sem_block, sem_instancias, despacho>>

(* manejar_wait: nobody waits for the resource and instancias_disp finds   *)
(* an instance, which is taken at once.                                    *)
WaitAsigna ==
  /\ desalojo.pc = "wait"
  /\ desalojo.recurso \in Recursos
  /\ cola_block[desalojo.recurso] = <<>>
  /\ instancias[desalojo.recurso] > 0
  /\ instancias' = [instancias EXCEPT ![desalojo.recurso] = @ - 1]
  /\ recs_asoc' = [recs_asoc EXCEPT ![desalojo.pid][desalojo.recurso] = @ + 1]
  /\ IrDesalojo("confirma")
  /\ UNCHANGED <<cola_block, sem_block, sem_instancias, despacho>>

(* ... then the counting semaphore is taken and the PCB goes back to CPU.  *)
WaitConfirma ==
  /\ desalojo.pc = "confirma"
  /\ sem_instancias[desalojo.recurso] > 0
  /\ sem_instancias' = [sem_instancias EXCEPT ![desalojo.recurso] = @ - 1]
  /\ despacho' = Append(despacho, desalojo.pid)
  /\ IrDesalojo("fin")
  /\ UNCHANGED <<cola_block, sem_block, instancias, recs_asoc>>

WaitSinInstancias ==
  /\ desalojo.pc = "wait"
  /\ desalojo.recurso \in Recursos
  /\ cola_block[desalojo.recurso] # <<>> \/ instancias[desalojo.recurso] = 0
  /\ IrDesalojo("bloquea")
  /\ UNCHANGED <<cola_block, recursos, despacho>>

(* agregar_pcb_a_cola.                                                     *)
WaitBloquea ==
  /\ desalojo.pc = "bloquea"
  /\ desalojo.recurso \notin block_retenidos
  /\ cola_block' = [cola_block EXCEPT ![desalojo.recurso] =
                                          Append(@, desalojo.pid)]
  /\ IrDesalojo("avisa")
  /\ UNCHANGED <<recursos, despacho>>

WaitAvisa ==
  /\ desalojo.pc = "avisa"
  /\ sem_block' = [sem_block EXCEPT ![desalojo.recurso] = SignalBin(@)]
  /\ IrDesalojo("fin")
  /\ UNCHANGED <<cola_block, sem_instancias, instancias, recs_asoc, despacho>>

(* manejar_signal of a resource the process holds.                         *)
ManejarSignal ==
  /\ desalojo.pc = "signal"
  /\ desalojo.recurso \in Recursos
  /\ recs_asoc[desalojo.pid][desalojo.recurso] > 0
  /\ recs_asoc' = [recs_asoc EXCEPT ![desalojo.pid][desalojo.recurso] = @ - 1]
  /\ instancias' = [instancias EXCEPT ![desalojo.recurso] = @ + 1]
  /\ sem_instancias' = [sem_instancias EXCEPT ![desalojo.recurso] = @ + 1]
  /\ despacho' = Append(despacho, desalojo.pid)
  /\ IrDesalojo("fin")
  /\ UNCHANGED <<cola_block, sem_block>>

(* manejar_signal of anything else: aumentar_instancias_recurso has freed  *)
(* the name, the process is ended and the name is freed again.             *)
SignalInvalido ==
  /\ desalojo.pc = "signal"
  /\ desalojo.recurso \in Recursos => recs_asoc[desalojo.pid][desalojo.recurso] = 0
  /\ desalojo' = [desalojo EXCEPT !.pc = "exit", !.recurso = DobleFree]
  /\ UNCHANGED <<cola_block, recursos, despacho>>

ExitLibera_M ==                         \* recs_asoc keeps its names
  /\ desalojo.pc = "exit"
  /\ LET suyos == recs_asoc[desalojo.pid]
     IN  /\ instancias' = [r \in Recursos |-> instancias[r] + suyos[r]]
         /\ sem_instancias' = [r \in Recursos |-> sem_instancias[r] + suyos[r]]
  /\ pedidos' = Append(pedidos, [op |-> "ELIMINAR_PROCESO", pid |-> desalojo.pid,
                                 ruta |-> NINGUNO, quien |-> "desalojo"])
  /\ IrDesalojo("exit_recibe")
  /\ UNCHANGED <<kernel, sem, sem_block, recs_asoc, respuestas>>

(* manejar_exit: eliminar_recursos_asociados and the request to MEMORIA.   *)
ExitLibera ==
  /\ desalojo.pc = "exit"
  /\ LET suyos == recs_asoc[desalojo.pid]
     IN  /\ instancias' = [r \in Recursos |-> instancias[r] + suyos[r]]
         /\ sem_instancias' = [r \in Recursos |-> sem_instancias[r] + suyos[r]]
  /\ recs_asoc' = [recs_asoc EXCEPT ![desalojo.pid] = [r \in Recursos |-> 0]]
  /\ pedidos' = Append(pedidos, [op |-> "ELIMINAR_PROCESO", pid |-> desalojo.pid,
                                 ruta |-> NINGUNO, quien |-> "desalojo"])
  /\ IrDesalojo("exit_recibe")
  /\ UNCHANGED <<kernel, sem, sem_block, respuestas>>

(* manejar_exit: the reply, into a local; any error ends the kernel.       *)
ExitConfirma ==
  /\ desalojo.pc = "exit_recibe"
  /\ PuedeRecibir("desalojo")
  /\ respuestas' = Tail(respuestas)
  /\ IF Head(respuestas).valor = OK
     THEN /\ SemPost("sem_multiprogramacion")
          /\ desalojo' = [desalojo EXCEPT !.pc = "fin", !.pid = NADIE]
          /\ UNCHANGED kernel
     ELSE kernel' = "abortado" /\ UNCHANGED <<sem, desalojo>>
  /\ UNCHANGED <<recursos, pedidos>>

(* free(nombre_recurso) for the second time: glibc may abort.              *)
AbortarPorDobleFree ==
  /\ desalojo.pc = "fin"
  /\ desalojo.recurso = DobleFree
  /\ kernel' = "abortado"
  /\ UNCHANGED <<sem, recursos, pedidos, respuestas, desalojo>>

FinDesalojo ==
  /\ desalojo.pc = "fin"
  /\ SemPost("sem_exec")
  /\ desalojo' = [pc |-> "espera", pid |-> NADIE, recurso |-> NINGUNO]
  /\ UNCHANGED <<kernel, recursos, pedidos, respuestas>>

-----------------------------------------------------------------------------
(* manejador_recursos, one thread per resource.                            *)

GestorEsperaBlock(r) ==
  /\ gestor[r].pc = "espera"
  /\ sem_block[r] > 0
  /\ sem_block' = [sem_block EXCEPT ![r] = @ - 1]
  /\ IrGestor(r, "instancia")
  /\ UNCHANGED <<cola_ready, cola_block, sem, sem_instancias, instancias, recs_asoc>>

GestorEsperaInstancia(r) ==
  /\ gestor[r].pc = "instancia"
  /\ sem_instancias[r] > 0
  /\ sem_instancias' = [sem_instancias EXCEPT ![r] = @ - 1]
  /\ IrGestor(r, "asigna")
  /\ UNCHANGED <<cola_ready, cola_block, sem, sem_block, instancias, recs_asoc>>

(* cola_block_get and instancias_disp: with an empty queue the thread      *)
(* returns, without an instance it goes back to waiting.                   *)
GestorAsigna(r) ==
  /\ gestor[r].pc = "asigna"
  /\ cola_block[r] # <<>> => r \notin block_retenidos
  /\ IF cola_block[r] # <<>> /\ instancias[r] > 0
     THEN LET p == Head(cola_block[r])
          IN  /\ instancias' = [instancias EXCEPT ![r] = @ - 1]
              /\ recs_asoc' = [recs_asoc EXCEPT ![p][r] = @ + 1]
              /\ gestor' = [gestor EXCEPT ![r] = [pc |-> "saca", pid |-> p]]
     ELSE /\ IrGestor(r, IF cola_block[r] = <<>> THEN "muerto" ELSE "espera")
          /\ UNCHANGED <<instancias, recs_asoc>>
  /\ UNCHANGED <<cola_ready, cola_block, sem, sem_block, sem_instancias>>

GestorSaca_M(r) ==                      \* goes past manejar_vrr
  /\ gestor[r].pc = "saca" /\ cola_block[r] # <<>> /\ r \notin block_retenidos
  /\ cola_block' = [cola_block EXCEPT ![r] = Tail(@)]
  /\ gestor' = [gestor EXCEPT ![r] = [pc |-> "avisa", pid |-> NADIE]]
  /\ UNCHANGED <<cola_ready, sem, recursos>>

(* sacar_pcb_cola_block removes whatever is first.                         *)
GestorSaca(r) ==
  /\ gestor[r].pc = "saca"
  /\ cola_block[r] # <<>> => r \notin block_retenidos
  /\ cola_block' = [cola_block EXCEPT ![r] = IF @ = <<>> THEN @ ELSE Tail(@)]
  /\ IrGestor(r, "ingresa")
  /\ UNCHANGED <<cola_ready, sem, recursos>>

(* manejar_vrr, which with FIFO is ingresar_a_ready.                       *)
GestorIngresa(r) ==
  /\ gestor[r].pc = "ingresa"
  /\ "ready" \notin retenidos
  /\ cola_ready' = Append(cola_ready, gestor[r].pid)
  /\ gestor' = [gestor EXCEPT ![r] = [pc |-> "avisa", pid |-> NADIE]]
  /\ UNCHANGED <<cola_block, sem, recursos>>

GestorAvisa(r) ==
  /\ gestor[r].pc = "avisa"
  /\ SemPost("sem_corto_plazo")
  /\ IrGestor(r, "espera")
  /\ UNCHANGED <<cola_ready, cola_block, recursos>>

-----------------------------------------------------------------------------
(* The threads.  Each definition lists, once, what none of its steps       *)
(* changes.  The system ends with the kernel.                              *)

Orden(h) ==                             \* what the user starts
  /\ Activo
  /\ \/ CrearPcb(h) \/ Multiprogramacion(h)
     \/ DetenerPlanificacion(h) \/ IniciarPlanificacion(h)
  /\ UNCHANGED <<kernel, cola_ready, cola_block, recursos, largo, corto,
                 desalojo, gestor, memoria, procesador>>

Consola(h) ==                           \* what a thread does once started
  /\ Activo
  /\ \/ IngresarANew(h) \/ EnviarProcesoMemoria(h) \/ RecibirResultado(h)
     \/ ProcesoCreado(h) \/ ErrorAlCrear(h) \/ DescartarDeNew(h)
     \/ FijarGrado(h)
     \/ DetenerCorto(h) \/ DetenerLargo(h)
     \/ RetenerNew(h) \/ RetenerReady(h) \/ RetenerBlock(h)
     \/ BajarPlanificacion(h)
     \/ LiberarNew(h) \/ LiberarReady(h) \/ LiberarBlock(h)
     \/ LevantarPlanificacion(h) \/ Reanudar(h)
  /\ UNCHANGED <<kernel, cola_ready, cola_block, recursos, largo, corto,
                 desalojo, gestor, memoria, procesador>>

HiloMultiprogramacion ==
  /\ Activo
  /\ BajarMultiprogramacion
  /\ UNCHANGED <<kernel, cola_ready, cola_block, recursos, largo, corto,
                 desalojo, gestor, memoria, procesador>>

(* server_escuchar answers the handshake of an interface through the same  *)
(* global the console threads receive into.                                *)
ConectarInterfaz ==
  /\ Activo
  /\ INTERFACES
  /\ result' = OK
  /\ UNCHANGED <<kernel, cola_new, cola_ready, cola_block, sem, recursos, hilo,
                 lastPID, grado, parada, largo, corto, desalojo, gestor,
                 conexion, procesador>>

PlanificadorLargo ==
  /\ Activo
  /\ \/ LargoEspera \/ LargoToma \/ LargoIngresa
     \/ LargoAvisa \/ LargoCompuerta \/ LargoReanuda
  /\ UNCHANGED <<cola_block, recursos, consola, corto, desalojo, gestor,
                 conexion, procesador>>

PlanificadorCorto ==
  /\ Activo
  /\ \/ CortoEspera \/ CortoDespacha \/ CortoFinExec
     \/ CortoCompuerta \/ CortoReanuda
  /\ UNCHANGED <<cola_new, cola_block, recursos, consola, largo, desalojo,
                 gestor, conexion, motivos, cpu, pasos>>

Cpu ==
  /\ Activo
  /\ CpuRecibe \/ CpuFetch \/ CpuExit \/ CpuRecurso
  /\ UNCHANGED <<kernel, cola_new, cola_ready, cola_block, sem, recursos,
                 consola, largo, corto, desalojo, gestor, conexion>>

ManejarWaitSignal ==
  /\ \/ WaitInvalido \/ WaitAsigna \/ WaitConfirma
     \/ WaitSinInstancias \/ WaitBloquea \/ WaitAvisa
     \/ ManejarSignal \/ SignalInvalido
  /\ UNCHANGED <<kernel, sem, pedidos, respuestas, motivos>>

ManejarExit ==
  /\ ExitLibera \/ ExitConfirma \/ AbortarPorDobleFree \/ FinDesalojo
  /\ UNCHANGED <<cola_block, despacho, motivos>>

Desalojo ==
  /\ Activo
  /\ RecibirMotivo \/ ManejarWaitSignal \/ ManejarExit
  /\ UNCHANGED <<cola_new, cola_ready, consola, largo, corto, gestor, memoria,
                 cpu, pasos>>

Gestor(r) ==
  /\ Activo
  /\ \/ GestorEsperaBlock(r) \/ GestorEsperaInstancia(r) \/ GestorAsigna(r)
     \/ GestorSaca(r) \/ GestorIngresa(r) \/ GestorAvisa(r)
  /\ UNCHANGED <<kernel, cola_new, consola, largo, corto, desalojo, conexion,
                 procesador>>

Next == \/ \E h \in Hilos : Orden(h) \/ Consola(h)
        \/ HiloMultiprogramacion
        \/ ConectarInterfaz
        \/ PlanificadorLargo
        \/ PlanificadorCorto
        \/ AtenderKernel
        \/ Cpu
        \/ Desalojo
        \/ \E r \in Recursos : Gestor(r)

Spec == Init /\ [][Next]_vars

(* Every thread that can run does run: they are POSIX threads and separate *)
(* processes, and each loop of the code runs forever.  The user is under   *)
(* no obligation to type anything, so Orden is not fair.                   *)
Fairness ==
  /\ \A h \in Hilos : WF_vars(Consola(h))
  /\ WF_vars(HiloMultiprogramacion)
  /\ WF_vars(PlanificadorLargo)
  /\ WF_vars(PlanificadorCorto)
  /\ WF_vars(AtenderKernel)
  /\ WF_vars(Cpu)
  /\ WF_vars(Desalojo)
  /\ \A r \in Recursos : WF_vars(Gestor(r))

FairSpec == Spec /\ Fairness
=============================================================================
