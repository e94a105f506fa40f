-------------------------------- MODULE Quantum --------------------------------
(***************************************************************************)
(* A turn in the CPU with ALGORITMO_PLANIFICACION=RR or VRR: the KERNEL's  *)
(* short-term planner, the thread that times each quantum, the thread that *)
(* handles evictions and the one of a FINALIZAR_PROCESO, and the CPU's two *)
(* threads, dispatch and interrupt.  Programs run for as long as they like *)
(* and leave the CPU by EXIT or by an I/O instruction.                     *)
(***************************************************************************)
EXTENDS Integers, SequencesExt, FiniteSetsExt

CONSTANTS
  Pids,
  CONFIGURACIONES,  \* ALGORITMO_PLANIFICACION, and (bound) the lines typed
  QUANTUM,
  TIEMPOS,          \* what temporal_gettime may measure, in units of QUANTUM
  Temporizadores,   \* bound: timer threads alive at once
  FINALIZABLES,     \* the processes that the user may finalize
  BUFFER,           \* bound: unread messages the interrupt socket holds
  A_TIEMPO,         \* whether the CPU gets a PCB before its quantum is over
  NADA

ASSUME ConstantesAssumption ==
  /\ CONFIGURACIONES \subseteq [algoritmo : {"RR", "VRR"}, lineas : Nat]
  /\ QUANTUM \in Nat \ {0} /\ TIEMPOS \subseteq 0 .. QUANTUM /\ TIEMPOS # {}
  /\ Temporizadores # {} /\ NADA \notin Pids \cup Temporizadores
  /\ FINALIZABLES \subseteq Pids /\ IsFiniteSet(Pids)
  /\ BUFFER \in Nat \ {0} /\ A_TIEMPO \in BOOLEAN

VARIABLES
  ALGORITMO_PLANIFICACION,        \* read from the configuration, then fixed
  cola_ready, cola_aux_vrr,
  bloqueados,       \* PCBs in the queue of some interface
  terminados,       \* PCBs freed by manejar_exit
  q_restante,       \* of each PCB
  sem,              \* sem_corto_plazo, sem_Q, sem_tiempo_ejecutado, sem_exec,
                    \* planificador_corto
  hubo_interrupcion, tiempo_ejecutado,
  PLANIFICACION,
  corto,            \* planificador_corto_plazo: where it is, the queue it has
                    \* seen, its timer
  temporizador,     \* rafaga_cpu_interrupt: where each one is, its PID
  desalojo,         \* motivo_desalojo and what it has received
  consola,          \* the thread of a line, its PID, lines left
  kernel,
  cpu,              \* the dispatch thread of the CPU and its PCB
  PID_EXEC, interrupcion_cpu,     \* the CPU's, its hubo_interrupcion
  despacho, motivos,              \* the two directions of the dispatch socket
  interrupciones, respuestas      \* and of the interrupt socket

colas   == <<cola_ready, cola_aux_vrr, bloqueados, terminados>>
tiempos == <<q_restante, hubo_interrupcion, tiempo_ejecutado>>
hilos   == <<corto, temporizador, desalojo, consola>>
procesador == <<cpu, PID_EXEC, interrupcion_cpu>>
sockets == <<despacho, motivos, interrupciones, respuestas>>
vars == <<ALGORITMO_PLANIFICACION, colas, tiempos, PLANIFICACION, hilos, sem, kernel, procesador, sockets>>

Activo == kernel = "activo" /\ UNCHANGED <<kernel, ALGORITMO_PLANIFICACION>>

(* DETENER_PLANIFICACION locks every queue and lowers the flag in one step *)
(* of the model, and the resume unlocks, raises it and posts in another.   *)
Retenidas == ~PLANIFICACION

IniciarPlanificacion(s) ==
  /\ PLANIFICACION' = TRUE
  /\ sem' = IF PLANIFICACION THEN s ELSE [s EXCEPT !.planificador_corto = @ + 2]

SemWait(s) == sem[s] > 0 /\ sem' = [sem EXCEPT ![s] = @ - 1]
SemPost(s) == sem' = [sem EXCEPT ![s] = @ + 1]

CortoA(pc)    == corto' = [corto EXCEPT !.pc = pc]
ConsolaLibre  == consola' = [consola EXCEPT !.pc = "libre", !.pid = NADA]
ConsolaA(pc)  == consola' = [consola EXCEPT !.pc = pc]
TemporizadorA(t, pc) == temporizador' = [temporizador EXCEPT ![t].pc = pc]
Libre == [pc |-> "libre", pid |-> NADA]
TemporizadorSale(t) == temporizador' = [temporizador EXCEPT ![t] = Libre]

(* Every process is READY and nothing has been dispatched yet.             *)
Init ==
  /\ \E c \in CONFIGURACIONES :
       /\ ALGORITMO_PLANIFICACION = c.algoritmo
       /\ consola = [pc |-> "libre", pid |-> NADA, lineas |-> c.lineas]
  /\ cola_ready = SetToSeq(Pids) /\ cola_aux_vrr = <<>>
  /\ bloqueados = {} /\ terminados = {}
  /\ q_restante = [p \in Pids |-> QUANTUM]
  /\ sem = [sem_corto_plazo |-> Cardinality(Pids), sem_Q |-> 0,
            sem_tiempo_ejecutado |-> 0, sem_exec |-> 0, planificador_corto |-> 1]
  /\ hubo_interrupcion = FALSE /\ tiempo_ejecutado = 0
  /\ PLANIFICACION = TRUE
  /\ corto = [pc |-> "espera", vrr |-> FALSE, hilo |-> NADA]
  /\ temporizador = [t \in Temporizadores |-> Libre]
  /\ desalojo = [pc |-> "recibe", pcb |-> NADA, motivo |-> NADA]
  /\ kernel = "activo"
  /\ cpu = [pc |-> "espera", pcb |-> NADA]
  /\ PID_EXEC = NADA /\ interrupcion_cpu = "NOT_INTERRUPT"
  /\ despacho = <<>> /\ motivos = <<>> /\ interrupciones = <<>> /\ respuestas = <<>>

-----------------------------------------------------------------------------
(* planificador_corto_plazo.                                               *)

(* A wait is one step with what follows it: to wait later changes nothing  *)
(* for the others.  The queue is chosen before its mutex is taken.         *)
ElegirCola ==
  /\ corto.pc = "espera" /\ SemWait("sem_corto_plazo")
  /\ corto' = [corto EXCEPT !.pc = "saca",
                 !.vrr = cola_aux_vrr # <<>> /\ ALGORITMO_PLANIFICACION = "VRR"]
  /\ UNCHANGED <<colas, tiempos, temporizador>>

(* With no PCB in it the kernel ends.                                      *)
Elegida == IF corto.vrr THEN cola_aux_vrr ELSE cola_ready

SinPcb ==
  /\ corto.pc = "saca" /\ ~Retenidas /\ Elegida = <<>>
  /\ kernel = "activo" /\ kernel' = "abortado"
  /\ UNCHANGED <<ALGORITMO_PLANIFICACION, colas, tiempos, sem, PLANIFICACION, hilos,
                 procesador, sockets>>

(* The PCB is sent and the thread that times its quantum is created.       *)
PlanificarQuantum(t) ==
  /\ corto.pc = "saca" /\ ~Retenidas /\ Elegida # <<>>
  /\ temporizador[t].pc = "libre"
  /\ IF corto.vrr THEN cola_aux_vrr' = Tail(cola_aux_vrr) /\ UNCHANGED cola_ready
                  ELSE cola_ready' = Tail(cola_ready) /\ UNCHANGED cola_aux_vrr
  /\ despacho' = Append(despacho, Head(Elegida))
  /\ temporizador' = [temporizador EXCEPT ![t] = [pc |-> "duerme", pid |-> Head(Elegida)]]
  /\ corto' = [pc |-> "Q", vrr |-> FALSE, hilo |-> t]
  /\ UNCHANGED <<bloqueados, terminados, tiempos, sem>>

LeerInterrupcion ==
  /\ corto.pc = "Q" /\ SemWait("sem_Q")
  /\ CortoA(IF hubo_interrupcion THEN "baja" ELSE "cancela")
  /\ UNCHANGED <<colas, tiempos, temporizador>>

(* A timer cancelled while it sleeps ends there; one that is awake goes on *)
(* to its next cancellation point, which is the send.                      *)
Cancelado(hilo) == IF hilo.pc = "marca" THEN [hilo EXCEPT !.pc = "marca_y_sale"] ELSE Libre

CancelarTemporizador ==
  /\ corto.pc = "cancela"
  /\ temporizador' = [temporizador EXCEPT ![corto.hilo] = Cancelado(@)]
  /\ IF ALGORITMO_PLANIFICACION = "VRR" THEN tiempo_ejecutado' \in TIEMPOS
                                         ELSE UNCHANGED tiempo_ejecutado
  /\ SemPost("sem_tiempo_ejecutado") /\ corto' = [corto EXCEPT !.pc = "exec", !.hilo = NADA]
  /\ UNCHANGED <<colas, q_restante, hubo_interrupcion>>

BajarInterrupcion ==
  /\ corto.pc = "baja"
  /\ hubo_interrupcion' = FALSE
  /\ SemPost("sem_tiempo_ejecutado") /\ corto' = [corto EXCEPT !.pc = "exec", !.hilo = NADA]
  /\ UNCHANGED <<colas, q_restante, tiempo_ejecutado, temporizador>>

CortoExec_M ==                          \* the planner does not wait for sem_exec
  /\ corto.pc = "exec" /\ CortoA(IF PLANIFICACION THEN "espera" ELSE "detenido")
  /\ UNCHANGED <<colas, tiempos, temporizador, sem>>

CortoExec ==
  /\ corto.pc = "exec" /\ SemWait("sem_exec")
  /\ CortoA(IF PLANIFICACION THEN "espera" ELSE "detenido")
  /\ UNCHANGED <<colas, tiempos, temporizador>>

CortoReanuda ==
  /\ corto.pc = "detenido" /\ SemWait("planificador_corto") /\ CortoA("espera")
  /\ UNCHANGED <<colas, tiempos, temporizador>>

PlanificadorCorto ==
  \/ SinPcb
  \/ /\ Activo
     /\ \/ ElegirCola
        \/ \E t \in Temporizadores : PlanificarQuantum(t)
        \/ LeerInterrupcion \/ CancelarTemporizador \/ BajarInterrupcion
        \/ CortoExec \/ CortoReanuda
     /\ IF corto.pc = "saca" THEN UNCHANGED <<motivos, interrupciones, respuestas>>
                             ELSE UNCHANGED sockets
     /\ UNCHANGED <<PLANIFICACION, desalojo, consola, procesador>>

-----------------------------------------------------------------------------
(* rafaga_cpu_interrupt.                                                   *)

(* usleep, and the wait for rr_exit, which starts at 1 and gets a post per *)
(* turn, one per timer at least: nobody waits for it.                      *)
VencerQuantum(t) ==
  /\ temporizador[t].pc = "duerme"
  /\ A_TIEMPO /\ t = corto.hilo => despacho = <<>>
  /\ TemporizadorA(t, "marca")
  /\ UNCHANGED <<hubo_interrupcion, interrupciones>>

MarcarInterrupcion(t) ==
  /\ temporizador[t].pc \in {"marca", "marca_y_sale"}
  /\ hubo_interrupcion' = TRUE
  /\ IF temporizador[t].pc = "marca" THEN TemporizadorA(t, "envia") ELSE TemporizadorSale(t)
  /\ UNCHANGED interrupciones

EnviarFinQ_M(t) ==                      \* FIN_Q is never sent
  /\ temporizador[t].pc = "envia" /\ TemporizadorSale(t)
  /\ UNCHANGED <<hubo_interrupcion, interrupciones>>

EnviarFinQ(t) ==
  /\ temporizador[t].pc = "envia" /\ Len(interrupciones) < BUFFER
  /\ interrupciones' = Append(interrupciones, [op |-> "FIN_Q", pid |-> temporizador[t].pid])
  /\ TemporizadorSale(t)
  /\ UNCHANGED hubo_interrupcion

RafagaCpu(t) ==
  /\ Activo
  /\ VencerQuantum(t) \/ MarcarInterrupcion(t) \/ EnviarFinQ(t)
  /\ UNCHANGED <<colas, q_restante, tiempo_ejecutado, PLANIFICACION, corto, desalojo,
                 consola, sem, procesador, despacho, motivos, respuestas>>

-----------------------------------------------------------------------------
(* motivo_desalojo.                                                        *)

RecibirMotivo ==
  /\ desalojo.pc = "recibe" /\ motivos # <<>>
  /\ desalojo' = [pc |-> "maneja", pcb |-> Head(motivos).pid, motivo |-> Head(motivos).op]
  /\ motivos' = Tail(motivos)
  /\ SemPost("sem_Q")
  /\ UNCHANGED <<colas, q_restante, PLANIFICACION>>

(* manejar_quantum, ...                                                    *)
ManejarQuantum_M ==                     \* a PCB may be left with no quantum
  IF q_restante[desalojo.pcb] >= tiempo_ejecutado
  THEN q_restante[desalojo.pcb] - tiempo_ejecutado ELSE QUANTUM

ManejarQuantum ==
  IF q_restante[desalojo.pcb] > tiempo_ejecutado
  THEN q_restante[desalojo.pcb] - tiempo_ejecutado ELSE QUANTUM

(* ... the handler of each reason, and the post of sem_exec.               *)
Manejado(motivo, q) ==
  /\ desalojo.pc = "maneja" /\ desalojo.motivo = motivo
  /\ sem.sem_tiempo_ejecutado > 0
  /\ q_restante' = [q_restante EXCEPT ![desalojo.pcb] = q]
  /\ desalojo' = [pc |-> "recibe", pcb |-> NADA, motivo |-> NADA]
  /\ UNCHANGED motivos

Relevo == [sem EXCEPT !.sem_tiempo_ejecutado = @ - 1, !.sem_exec = @ + 1]

FinQuantum_M ==                         \* sem_corto_plazo is not posted
  /\ Manejado("M_FIN_QUANTUM", QUANTUM) /\ ~Retenidas
  /\ cola_ready' = Append(cola_ready, desalojo.pcb)
  /\ sem' = Relevo
  /\ UNCHANGED <<cola_aux_vrr, bloqueados, terminados, PLANIFICACION>>

FinQuantum ==
  /\ Manejado("M_FIN_QUANTUM", QUANTUM) /\ ~Retenidas
  /\ cola_ready' = Append(cola_ready, desalojo.pcb)
  /\ sem' = [Relevo EXCEPT !.sem_corto_plazo = @ + 1]
  /\ UNCHANGED <<cola_aux_vrr, bloqueados, terminados, PLANIFICACION>>

Bloquear ==
  /\ Manejado("M_IO", ManejarQuantum) /\ ~Retenidas
  /\ bloqueados' = bloqueados \cup {desalojo.pcb}
  /\ sem' = Relevo
  /\ UNCHANGED <<cola_ready, cola_aux_vrr, terminados, PLANIFICACION>>

Salir ==
  /\ Manejado("M_EXIT", ManejarQuantum)
  /\ terminados' = terminados \cup {desalojo.pcb}
  /\ sem' = Relevo
  /\ UNCHANGED <<cola_ready, cola_aux_vrr, bloqueados, PLANIFICACION>>

FinInterrumpido ==
  /\ Manejado("M_PROC_INTERRUPT", ManejarQuantum)
  /\ terminados' = terminados \cup {desalojo.pcb}
  /\ IniciarPlanificacion(Relevo)
  /\ UNCHANGED <<cola_ready, cola_aux_vrr, bloqueados>>

MotivoDesalojo ==
  /\ Activo
  /\ \/ RecibirMotivo
     \/ FinQuantum \/ Bloquear \/ Salir \/ FinInterrumpido
  /\ UNCHANGED <<hubo_interrupcion, tiempo_ejecutado, corto, temporizador, consola,
                 procesador, despacho, interrupciones, respuestas>>

(* The operation of a blocked process ends: manejar_codigo_instruccion.    *)
ManejarVrr(p) ==
  IF ALGORITMO_PLANIFICACION = "VRR" /\ q_restante[p] < QUANTUM
  THEN cola_aux_vrr' = Append(cola_aux_vrr, p) /\ UNCHANGED <<cola_ready, q_restante>>
  ELSE /\ cola_ready' = Append(cola_ready, p)
       /\ q_restante' = [q_restante EXCEPT ![p] = QUANTUM]
       /\ UNCHANGED cola_aux_vrr

FinDeIo(p) ==
  /\ Activo
  /\ p \in bloqueados /\ ~Retenidas
  /\ ManejarVrr(p)
  /\ bloqueados' = bloqueados \ {p}
  /\ SemPost("sem_corto_plazo")
  /\ UNCHANGED <<terminados, hubo_interrupcion, tiempo_ejecutado, PLANIFICACION, hilos,
                 procesador, sockets>>

-----------------------------------------------------------------------------
(* The console: FINALIZAR_PROCESO stops the planning, raises the flag,     *)
(* looks for the PCB in the queues, and asks the CPU when it is in none.   *)

FinalizarProceso(p) ==
  /\ Activo /\ consola.pc = "libre" /\ consola.lineas > 0
  /\ consola' = [pc |-> IF PLANIFICACION THEN "detiene" ELSE "marca",
                 pid |-> p, lineas |-> consola.lineas - 1]
  /\ UNCHANGED <<colas, tiempos, PLANIFICACION, corto, temporizador, desalojo, sem,
                 procesador, sockets>>

(* The wait of planificador_corto; that of planificador_largo never blocks *)
(* before it, since nobody else takes from that one here.                  *)
DetenerPlanificacion ==
  /\ consola.pc = "detiene" /\ SemWait("planificador_corto")
  /\ PLANIFICACION' = FALSE /\ ConsolaA("marca")
  /\ UNCHANGED <<colas, hubo_interrupcion, interrupciones, respuestas>>

FinalizarMarca ==
  /\ consola.pc = "marca" /\ hubo_interrupcion' = TRUE /\ ConsolaA("busca")
  /\ UNCHANGED <<colas, sem, PLANIFICACION, interrupciones, respuestas>>

EnCola == ToSet(cola_ready) \cup ToSet(cola_aux_vrr) \cup bloqueados

FinalizarEncolado ==
  /\ consola.pc = "busca" /\ consola.pid \in EnCola
  /\ cola_ready' = RemoveFirst(cola_ready, consola.pid)
  /\ cola_aux_vrr' = RemoveFirst(cola_aux_vrr, consola.pid)
  /\ bloqueados' = bloqueados \ {consola.pid}
  /\ terminados' = terminados \cup {consola.pid}
  /\ ConsolaA("inicia")
  /\ UNCHANGED <<sem, PLANIFICACION, hubo_interrupcion, interrupciones, respuestas>>

PedirInterrupcion ==
  /\ consola.pc = "busca" /\ consola.pid \notin EnCola
  /\ Len(interrupciones) < BUFFER
  /\ interrupciones' = Append(interrupciones, [op |-> "INTR", pid |-> consola.pid])
  /\ ConsolaA("recibe")
  /\ UNCHANGED <<colas, sem, PLANIFICACION, hubo_interrupcion, respuestas>>

(* When the CPU has it, whoever handles the eviction resumes the planning. *)
RecibirCheck ==
  /\ consola.pc = "recibe" /\ respuestas # <<>>
  /\ respuestas' = Tail(respuestas)
  /\ IF Head(respuestas) = "OK" THEN ConsolaLibre ELSE ConsolaA("inicia")
  /\ UNCHANGED <<colas, sem, PLANIFICACION, hubo_interrupcion, interrupciones>>

Reanudar ==
  /\ consola.pc = "inicia" /\ IniciarPlanificacion(sem) /\ ConsolaLibre
  /\ UNCHANGED <<colas, hubo_interrupcion, interrupciones, respuestas>>

Consola ==
  /\ Activo
  /\ \/ DetenerPlanificacion \/ FinalizarMarca \/ FinalizarEncolado
     \/ PedirInterrupcion \/ RecibirCheck \/ Reanudar
  /\ UNCHANGED <<q_restante, tiempo_ejecutado, corto, temporizador, desalojo,
                 procesador, despacho, motivos>>

-----------------------------------------------------------------------------
(* establecer_conexion_interrupt, with mutex_pid_exec held.                *)

InterrumpirSiEs(flag) ==
  IF Head(interrupciones).pid = PID_EXEC
  THEN interrupcion_cpu' = flag ELSE UNCHANGED interrupcion_cpu

AtenderFinQ ==
  /\ Head(interrupciones).op = "FIN_Q"
  /\ InterrumpirSiEs("INTERRUPT")
  /\ UNCHANGED respuestas

AtenderIntr_M ==                        \* ERROR is not sent
  /\ Head(interrupciones).op = "INTR"
  /\ InterrumpirSiEs("INTERRUPT_EXIT")
  /\ respuestas' = IF Head(interrupciones).pid = PID_EXEC
                   THEN Append(respuestas, "OK") ELSE respuestas

AtenderIntr ==
  /\ Head(interrupciones).op = "INTR"
  /\ InterrumpirSiEs("INTERRUPT_EXIT")
  /\ respuestas' = Append(respuestas, IF Head(interrupciones).pid = PID_EXEC
                                      THEN "OK" ELSE "ERROR")

CpuViva == cpu.pc # "caida" /\ UNCHANGED <<colas, tiempos, PLANIFICACION, hilos, sem>>

CpuInterrupt ==
  /\ Activo /\ CpuViva
  /\ interrupciones # <<>>
  /\ AtenderFinQ \/ AtenderIntr
  /\ interrupciones' = Tail(interrupciones)
  /\ UNCHANGED <<cpu, PID_EXEC, despacho, motivos>>

-----------------------------------------------------------------------------
(* establecer_conexion_dispatch and pedir_instrucciones.                   *)

RecibirPcb ==
  /\ cpu.pc = "espera" /\ despacho # <<>>
  /\ cpu' = [pc |-> "ciclo", pcb |-> Head(despacho)]
  /\ despacho' = Tail(despacho)
  /\ PID_EXEC' = Head(despacho)
  /\ UNCHANGED <<interrupcion_cpu, motivos>>

(* The flag is read before each instruction; one that stays in the CPU is  *)
(* no step, and one that leaves it sends the PCB (execute_EXIT, F_IO_STD   *)
(* and the like) and returns none.  What the interrupt thread does between *)
(* the reading and the send is the same after it, but an INTR, which an    *)
(* I/O instruction sees: it is the same before the reading.                *)
Ceder(motivo) ==
  /\ cpu.pc = "ciclo" /\ interrupcion_cpu = "NOT_INTERRUPT"
  /\ motivos' = Append(motivos, [op |-> motivo, pid |-> cpu.pcb])
  /\ cpu' = [pc |-> "baja", pcb |-> NADA]
  /\ UNCHANGED <<PID_EXEC, interrupcion_cpu, despacho>>

(* After a PCB is sent, and once more before the next is received.         *)
BajarFlag(de, a) ==
  /\ cpu.pc = de
  /\ interrupcion_cpu' = "NOT_INTERRUPT"
  /\ cpu' = [cpu EXCEPT !.pc = a]
  /\ UNCHANGED <<PID_EXEC, despacho, motivos>>

MotivoDe(flag) == IF flag = "INTERRUPT" THEN "M_FIN_QUANTUM" ELSE "M_PROC_INTERRUPT"

(* The reason is the flag's, if it is raised; with no PCB to send the CPU  *)
(* reads a NULL pointer.                                                   *)
Devolver ==
  /\ cpu.pc = "vuelve" \/ (cpu.pc = "ciclo" /\ interrupcion_cpu # "NOT_INTERRUPT")
  /\ IF interrupcion_cpu = "NOT_INTERRUPT"
     THEN cpu' = [pc |-> "limpia", pcb |-> NADA] /\ UNCHANGED motivos
     ELSE IF cpu.pcb = NADA
     THEN cpu' = [cpu EXCEPT !.pc = "caida"] /\ UNCHANGED motivos
     ELSE /\ motivos' = Append(motivos, [op |-> MotivoDe(interrupcion_cpu), pid |-> cpu.pcb])
          /\ cpu' = [pc |-> "limpia", pcb |-> NADA]
  /\ UNCHANGED <<PID_EXEC, interrupcion_cpu, despacho>>

Soltar ==
  /\ cpu.pc = "suelta" /\ cpu' = [cpu EXCEPT !.pc = "espera"]
  /\ PID_EXEC' = NADA
  /\ UNCHANGED <<interrupcion_cpu, despacho, motivos>>

CpuDispatch ==
  /\ Activo /\ CpuViva
  /\ \/ RecibirPcb \/ Devolver \/ Soltar
     \/ BajarFlag("baja", "vuelve") \/ BajarFlag("limpia", "suelta")
  /\ UNCHANGED <<interrupciones, respuestas>>

Programa ==
  /\ Activo /\ CpuViva
  /\ \E m \in {"M_EXIT", "M_IO"} : Ceder(m)
  /\ UNCHANGED <<interrupciones, respuestas>>

-----------------------------------------------------------------------------
Next ==
  \/ PlanificadorCorto \/ MotivoDesalojo \/ Consola
  \/ CpuInterrupt \/ CpuDispatch \/ Programa
  \/ \E t \in Temporizadores : RafagaCpu(t)
  \/ \E p \in Pids : FinDeIo(p)
  \/ \E p \in FINALIZABLES : FinalizarProceso(p)

Spec == Init /\ [][Next]_vars

(* Each thread goes on while it can.  What the user types, when an I/O     *)
(* operation ends, and whether a program ever leaves the CPU, need not be. *)
FairSpec ==
  /\ Spec
  /\ WF_vars(PlanificadorCorto) /\ WF_vars(MotivoDesalojo) /\ WF_vars(Consola)
  /\ WF_vars(CpuInterrupt) /\ WF_vars(CpuDispatch)
  /\ \A t \in Temporizadores : WF_vars(RafagaCpu(t))
=============================================================================
