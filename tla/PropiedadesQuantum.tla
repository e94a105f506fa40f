-------------------------- MODULE PropiedadesQuantum --------------------------
(* What has to be true of a turn in the CPU under RR and VRR.              *)
EXTENDS Quantum

PcCorto   == {"espera", "saca", "Q", "cancela", "baja", "exec", "detenido"}
PcCpu     == {"espera", "ciclo", "baja", "vuelve", "limpia", "suelta", "caida"}
PcConsola == {"libre", "detiene", "marca", "busca", "recibe", "inicia"}
Motivos   == {"M_FIN_QUANTUM", "M_PROC_INTERRUPT", "M_EXIT", "M_IO"}
Pcb       == Pids \cup {NADA}

TipoColas ==
  /\ cola_ready \in Seq(Pids) /\ cola_aux_vrr \in Seq(Pids)
  /\ bloqueados \subseteq Pids /\ terminados \subseteq Pids

TipoTiempos ==
  /\ q_restante \in [Pids -> 1 .. QUANTUM]
  /\ hubo_interrupcion \in BOOLEAN /\ tiempo_ejecutado \in 0 .. QUANTUM

TipoPlanificacion ==
  /\ ALGORITMO_PLANIFICACION \in {"RR", "VRR"}
  /\ PLANIFICACION \in BOOLEAN /\ kernel \in {"activo", "abortado"}

TipoSem ==
  sem \in [{"sem_corto_plazo", "sem_Q", "sem_tiempo_ejecutado", "sem_exec",
            "planificador_corto"} -> Nat]

TipoCorto == corto \in [pc : PcCorto, vrr : BOOLEAN, hilo : Temporizadores \cup {NADA}]

TipoTemporizador ==
  temporizador \in [Temporizadores ->
    [pc : {"libre", "duerme", "marca", "marca_y_sale", "envia"}, pid : Pcb]]

TipoDesalojo ==
  desalojo \in [pc : {"recibe", "maneja"}, pcb : Pcb, motivo : Motivos \cup {NADA}]

TipoConsola == consola \in [pc : PcConsola, pid : Pcb, lineas : Nat]

TipoProcesador ==
  /\ cpu \in [pc : PcCpu, pcb : Pcb]
  /\ PID_EXEC \in Pcb
  /\ interrupcion_cpu \in {"NOT_INTERRUPT", "INTERRUPT", "INTERRUPT_EXIT"}

TipoSockets ==
  /\ despacho \in Seq(Pids) /\ motivos \in Seq([op : Motivos, pid : Pids])
  /\ interrupciones \in Seq([op : {"FIN_Q", "INTR"}, pid : Pids])
  /\ respuestas \in Seq({"OK", "ERROR"})

(* Types of every variable.                                                *)
TypeOK ==
  /\ TipoColas /\ TipoTiempos /\ TipoPlanificacion /\ TipoSem
  /\ TipoCorto /\ TipoTemporizador /\ TipoDesalojo /\ TipoConsola
  /\ TipoProcesador /\ TipoSockets

-----------------------------------------------------------------------------
Uno(condicion) == IF condicion THEN 1 ELSE 0

Veces(p, cola) == Cardinality({i \in DOMAIN cola : cola[i] = p})

PidsDe(mensajes) == [i \in DOMAIN mensajes |-> mensajes[i].pid]

EnTurno(p) ==
  Veces(p, despacho) + Uno(cpu.pcb = p) + Veces(p, PidsDe(motivos)) + Uno(desalojo.pcb = p)

(* A PCB is always in one place: no race between the timer, an eviction    *)
(* and FINALIZAR_PROCESO copies it, loses it or frees it while it is used. *)
UnSoloLugar ==
  \A p \in Pids :
    Veces(p, cola_ready) + Veces(p, cola_aux_vrr) + Uno(p \in bloqueados)
      + Uno(p \in terminados) + EnTurno(p) = 1

(* The planner and the eviction thread hand each turn to one another: one  *)
(* PCB is out of the queues from the dispatch to the post of sem_exec, the *)
(* time of a turn is measured between the two waits of that same turn, and *)
(* no post is left over for the next one.                                  *)
Repartido == \E p \in Pids : EnTurno(p) = 1

RelevoCoherente ==
  /\ \A p, r \in Pids : EnTurno(p) = 1 /\ EnTurno(r) = 1 => p = r
  /\ sem.sem_Q = Uno(corto.pc = "Q" /\ desalojo.pc = "maneja")
  /\ sem.sem_tiempo_ejecutado = Uno(corto.pc = "exec" /\ desalojo.pc = "maneja")
  /\ sem.sem_exec = Uno(corto.pc = "exec" /\ ~Repartido)
  /\ corto.pc \in {"cancela", "baja"} => desalojo.pc = "maneja"
  /\ Repartido => corto.pc \in {"Q", "cancela", "baja", "exec"}

UnTurnoPorVez == UnSoloLugar /\ RelevoCoherente

-----------------------------------------------------------------------------
Caido == kernel = "abortado" \/ cpu.pc = "caida"

(* No program keeps the CPU: its quantum ends, and the FIN_Q of its timer  *)
(* finds it there, whatever other timers, INTR and evictions did before.   *)
QuantumDesaloja == cpu.pcb # NADA ~> cpu.pcb = NADA \/ Caido

(* Every PCB that is in READY or in the VRR queue gets its turn, though    *)
(* those of the VRR queue go first, unless the kernel or the CPU ends or   *)
(* planning is left stopped.  Planning is stopped as often as the user     *)
(* types, so the formula starts again from the last resume.                *)
Listo(p) == p \in ToSet(cola_ready) \cup ToSet(cola_aux_vrr)

TurnoParaTodos == \A p \in Pids : Listo(p) ~> ~Listo(p) \/ Caido \/ ~PLANIFICACION

(* FINALIZAR_PROCESO always returns: the gate lets it in, and the CPU      *)
(* answers each INTR, with a process or without it.                        *)
ConsolaVuelve == consola.pc # "libre" ~> consola.pc = "libre" \/ Caido

-----------------------------------------------------------------------------
(* The CPU survives an interrupt that comes when the process has left.     *)
CpuSigue == cpu.pc # "caida"

(* A process is finalized by the user only if the user asked for it.       *)
SoloElPedido == desalojo.motivo = "M_PROC_INTERRUPT" => desalojo.pcb \in FINALIZABLES

(* Planning that FINALIZAR_PROCESO stopped is resumed.                     *)
FinalizarReanuda == ~PLANIFICACION ~> PLANIFICACION \/ Caido
=============================================================================
