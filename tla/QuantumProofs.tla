----------------------------- MODULE QuantumProofs -----------------------------
(***************************************************************************)
(* A turn in the CPU under RR and VRR, for any number of processes, timers *)
(* and lines typed: every PCB is in one place, and one at a time is out of *)
(* the queues.                                                             *)
(***************************************************************************)
EXTENDS PropiedadesQuantum, ListasProofs

USE ConstantesAssumption

(* What each thread holds where it is: the PCB between two sockets, the    *)
(* PID of a line being served, the PID whose quantum is timed.             *)
ManoDesalojo == /\ desalojo.pc = "maneja" => desalojo.pcb \in Pids /\ desalojo.motivo \in Motivos
                /\ desalojo.pc = "recibe" => desalojo.pcb = NADA
ManoCpu     == cpu.pc = "ciclo" <=> cpu.pcb # NADA
ManoConsola == consola.pc # "libre" => consola.pid \in Pids
ManoTemporizador ==
  \A t \in Temporizadores : temporizador[t].pc # "libre" => temporizador[t].pid \in Pids

Manos == ManoDesalojo /\ ManoCpu /\ ManoConsola /\ ManoTemporizador

Tipos == TypeOK /\ Manos

-----------------------------------------------------------------------------
(* The types.  What a semaphore goes through, ...                          *)
LEMMA SemTipos ==
  ASSUME TipoSem
  PROVE  /\ \A s : SemWait(s) \/ SemPost(s) => TipoSem'
         /\ UNCHANGED sem => TipoSem'
BY DEF TipoSem, SemWait, SemPost

(* ... and each thread: planificador_corto_plazo.                          *)
LEMMA CortoTipos ==
  ASSUME Tipos, PlanificadorCorto
  PROVE  Tipos'
<1> USE DEF Tipos, TypeOK, Manos
<1>1. CASE SinPcb
  BY <1>1 DEF SinPcb, TipoColas, TipoTiempos, TipoPlanificacion, TipoSem, TipoCorto,
     TipoTemporizador, TipoDesalojo, TipoConsola, TipoProcesador, TipoSockets,
     ManoDesalojo, ManoCpu, ManoConsola, ManoTemporizador,
     colas, tiempos, hilos, procesador, sockets
<1>2. SUFFICES ASSUME ~SinPcb
               PROVE  Tipos'
  BY <1>1
<1>3. /\ Activo /\ UNCHANGED <<PLANIFICACION, desalojo, consola, procesador, interrupciones, respuestas, motivos>>
      /\ \/ ElegirCola \/ \E t \in Temporizadores : PlanificarQuantum(t)
         \/ LeerInterrupcion \/ CancelarTemporizador \/ BajarInterrupcion
         \/ CortoExec \/ CortoReanuda
  BY <1>2 DEF PlanificadorCorto, sockets
<1>4. /\ TipoPlanificacion' /\ TipoDesalojo' /\ TipoConsola' /\ TipoProcesador'
      /\ ManoDesalojo' /\ ManoCpu' /\ ManoConsola'
  BY <1>3 DEF Activo, TipoPlanificacion, TipoDesalojo, TipoConsola, TipoProcesador,
     ManoDesalojo, ManoCpu, ManoConsola, procesador
<1>5. CASE corto.pc # "saca"
  <2>1. TipoColas'
    <3>1. UNCHANGED colas
      BY <1>2, <1>5 DEF PlanificadorCorto, ElegirCola, PlanificarQuantum, LeerInterrupcion,
         CancelarTemporizador, BajarInterrupcion, CortoExec, CortoReanuda
    <3>2. QED
      BY <3>1 DEF colas, TipoColas
  <2>2. TipoSockets'
    BY <1>2, <1>5 DEF PlanificadorCorto, sockets, TipoSockets
  <2>3. TipoSem'
    BY <1>3, <1>5, SemTipos DEF ElegirCola, PlanificarQuantum, LeerInterrupcion,
       CancelarTemporizador, BajarInterrupcion, CortoExec, CortoReanuda
  <2>4. TipoCorto'
    BY <1>3, <1>5 DEF TipoCorto, ElegirCola, PlanificarQuantum, LeerInterrupcion, CortoA, PcCorto,
       CancelarTemporizador, BajarInterrupcion, CortoExec, CortoReanuda
  <2>5. TipoTiempos'
    BY <1>3, <1>5 DEF TipoTiempos, ElegirCola, PlanificarQuantum, LeerInterrupcion, tiempos,
       CancelarTemporizador, BajarInterrupcion, CortoExec, CortoReanuda
  <2>6. TipoTemporizador' /\ ManoTemporizador'
    BY <1>3, <1>5 DEF TipoTemporizador, ManoTemporizador, ElegirCola, PlanificarQuantum, LeerInterrupcion, tiempos,
       CancelarTemporizador, BajarInterrupcion, CortoExec, CortoReanuda, Cancelado, Libre, Pcb
  <2>7. QED
    BY <1>4, <2>1, <2>2, <2>3, <2>4, <2>5, <2>6
<1>6. CASE corto.pc = "saca"
  <2>1. PICK t \in Temporizadores : PlanificarQuantum(t)
    BY <1>3, <1>6 DEF ElegirCola, LeerInterrupcion, CancelarTemporizador, BajarInterrupcion, CortoExec, CortoReanuda
  <2>2. Elegida \in Seq(Pids) /\ Elegida # <<>>
    BY <2>1 DEF PlanificarQuantum, Elegida, TipoColas
  <2>3. Head(Elegida) \in Pids /\ Tail(Elegida) \in Seq(Pids)
    BY <2>2, HeadTailProperties
  <2>4. TipoColas'
    BY <2>1, <2>3 DEF PlanificarQuantum, TipoColas, Elegida
  <2>5. TipoSockets'
    BY <1>3, <2>1, <2>3, AppendProperties DEF PlanificarQuantum, TipoSockets
  <2>6. TipoCorto'
    BY <2>1 DEF PlanificarQuantum, TipoCorto, PcCorto
  <2>7. TipoTiempos' /\ TipoSem'
    BY <2>1 DEF PlanificarQuantum, TipoTiempos, TipoSem, tiempos
  <2>8. TipoTemporizador' /\ ManoTemporizador'
    BY <2>1, <2>3 DEF PlanificarQuantum, TipoTemporizador, ManoTemporizador, Pcb
  <2>9. QED
    BY <1>4, <2>4, <2>5, <2>6, <2>7, <2>8
<1>7. QED
  BY <1>5, <1>6

(* rafaga_cpu_interrupt.                                                   *)
LEMMA RafagaTipos ==
  ASSUME Tipos, NEW t \in Temporizadores, RafagaCpu(t)
  PROVE  Tipos'
<1> USE DEF Tipos, TypeOK, Manos
<1>1. /\ TipoColas' /\ TipoPlanificacion' /\ TipoSem' /\ TipoCorto' /\ TipoDesalojo'
      /\ TipoConsola' /\ TipoProcesador' /\ ManoDesalojo' /\ ManoCpu' /\ ManoConsola'
  BY DEF RafagaCpu, Activo, TipoColas, TipoPlanificacion, TipoSem, TipoCorto, TipoDesalojo,
     TipoConsola, TipoProcesador, ManoDesalojo, ManoCpu, ManoConsola, colas, procesador
<1>2. TipoTiempos'
  BY DEF RafagaCpu, VencerQuantum, MarcarInterrupcion, EnviarFinQ, TipoTiempos
<1>3. TipoTemporizador' /\ ManoTemporizador'
  BY DEF RafagaCpu, VencerQuantum, MarcarInterrupcion, EnviarFinQ, TemporizadorA, TemporizadorSale,
     Libre, TipoTemporizador, ManoTemporizador, Pcb
<1>4. TipoSockets'
  <2>1. CASE EnviarFinQ(t)
    <3>1. temporizador[t].pid \in Pids
      BY <2>1 DEF EnviarFinQ, ManoTemporizador
    <3>2. [op |-> "FIN_Q", pid |-> temporizador[t].pid] \in [op : {"FIN_Q", "INTR"}, pid : Pids]
      BY <3>1
    <3>3. QED
      BY <2>1, <3>2, AppendProperties DEF EnviarFinQ, TipoSockets, RafagaCpu
  <2>2. CASE ~EnviarFinQ(t)
    BY <2>2 DEF RafagaCpu, VencerQuantum, MarcarInterrupcion, TipoSockets
  <2>3. QED
    BY <2>1, <2>2
<1>5. QED
  BY <1>1, <1>2, <1>3, <1>4

(* motivo_desalojo.                                                        *)
LEMMA DesalojoTipos ==
  ASSUME Tipos, MotivoDesalojo
  PROVE  Tipos'
<1> USE DEF Tipos, TypeOK, Manos
<1>1. /\ TipoCorto' /\ TipoTemporizador' /\ TipoConsola' /\ TipoProcesador'
      /\ ManoCpu' /\ ManoConsola' /\ ManoTemporizador'
  BY DEF MotivoDesalojo, Activo, TipoCorto, TipoTemporizador, TipoConsola, TipoProcesador,
     ManoCpu, ManoConsola, ManoTemporizador, procesador
<1>2. CASE RecibirMotivo
  <2>1. Head(motivos) \in [op : Motivos, pid : Pids] /\ Tail(motivos) \in Seq([op : Motivos, pid : Pids])
    BY <1>2, HeadTailProperties DEF RecibirMotivo, TipoSockets
  <2>2. TipoDesalojo' /\ ManoDesalojo'
    BY <1>2, <2>1 DEF RecibirMotivo, TipoDesalojo, ManoDesalojo, Pcb
  <2>3. TipoSockets'
    BY <1>2, <2>1 DEF RecibirMotivo, TipoSockets, MotivoDesalojo
  <2>4. TipoColas' /\ TipoTiempos' /\ TipoPlanificacion' /\ TipoSem'
    BY <1>2 DEF RecibirMotivo, SemPost, MotivoDesalojo, Activo, TipoColas, TipoTiempos,
       TipoPlanificacion, TipoSem, colas
  <2>5. QED
    BY <1>1, <2>2, <2>3, <2>4
<1>3. ASSUME NEW motivo, NEW q, q \in 1 .. QUANTUM, Manejado(motivo, q)
      PROVE  /\ TipoDesalojo' /\ ManoDesalojo' /\ TipoTiempos' /\ TipoSockets'
             /\ desalojo.pcb \in Pids /\ sem.sem_tiempo_ejecutado > 0
  <2>1. desalojo.pcb \in Pids
    BY <1>3 DEF Manejado, ManoDesalojo
  <2>2. TipoDesalojo' /\ ManoDesalojo'
    BY <1>3 DEF Manejado, TipoDesalojo, ManoDesalojo, Pcb
  <2>3. TipoTiempos' /\ TipoSockets'
    BY <1>3 DEF Manejado, TipoTiempos, TipoSockets, MotivoDesalojo
  <2>4. QED
    BY <1>3, <2>1, <2>2, <2>3 DEF Manejado
<1>4. desalojo.pcb \in Pids => ManejarQuantum \in 1 .. QUANTUM
  BY DEF ManejarQuantum, TipoTiempos
<1>5. QUANTUM \in 1 .. QUANTUM
  OBVIOUS
<1>6. sem.sem_tiempo_ejecutado > 0 =>
        Relevo \in [{"sem_corto_plazo", "sem_Q", "sem_tiempo_ejecutado", "sem_exec",
                    "planificador_corto"} -> Nat]
  <2>1. SUFFICES ASSUME sem.sem_tiempo_ejecutado > 0
                 PROVE  Relevo \in [{"sem_corto_plazo", "sem_Q", "sem_tiempo_ejecutado", "sem_exec",
                                     "planificador_corto"} -> Nat]
    OBVIOUS
  <2> DEFINE u == [sem EXCEPT !.sem_tiempo_ejecutado = @ - 1]
  <2>2. u \in [{"sem_corto_plazo", "sem_Q", "sem_tiempo_ejecutado", "sem_exec",
                "planificador_corto"} -> Nat]
    BY <2>1 DEF TipoSem
  <2>3. Relevo = [u EXCEPT !.sem_exec = @ + 1]
    BY DEF Relevo, TipoSem
  <2> HIDE DEF u
  <2>4. QED
    BY <2>2, <2>3
<1>7. CASE FinQuantum
  <2>1. Manejado("M_FIN_QUANTUM", QUANTUM)
    BY <1>7 DEF FinQuantum
  <2>2. /\ TipoDesalojo' /\ ManoDesalojo' /\ TipoTiempos' /\ TipoSockets'
        /\ desalojo.pcb \in Pids /\ sem.sem_tiempo_ejecutado > 0
    BY <1>3, <1>5, <2>1
  <2>3. TipoColas'
    BY <1>7, <2>2, AppendProperties DEF FinQuantum, TipoColas
  <2>4. TipoSem'
    <3> DEFINE r == Relevo
    <3>1. r \in [{"sem_corto_plazo", "sem_Q", "sem_tiempo_ejecutado", "sem_exec",
                  "planificador_corto"} -> Nat]
      BY <1>6, <2>2
    <3>2. sem' = [r EXCEPT !.sem_corto_plazo = @ + 1]
      BY <1>7 DEF FinQuantum
    <3> HIDE DEF r
    <3>3. QED
      BY <3>1, <3>2 DEF TipoSem
  <2>5. TipoPlanificacion'
    BY <1>7 DEF FinQuantum, MotivoDesalojo, Activo, TipoPlanificacion
  <2>6. QED
    BY <1>1, <2>2, <2>3, <2>4, <2>5
<1>8. CASE Bloquear \/ Salir \/ FinInterrumpido
  <2>1. desalojo.pcb \in Pids
    BY <1>8 DEF Bloquear, Salir, FinInterrumpido, Manejado, ManoDesalojo
  <2>2. \E m \in {"M_IO", "M_EXIT", "M_PROC_INTERRUPT"} : Manejado(m, ManejarQuantum)
    BY <1>8 DEF Bloquear, Salir, FinInterrumpido
  <2>3. /\ TipoDesalojo' /\ ManoDesalojo' /\ TipoTiempos' /\ TipoSockets'
        /\ sem.sem_tiempo_ejecutado > 0
    BY <1>3, <1>4, <2>1, <2>2
  <2>4. TipoColas'
    BY <1>8, <2>1 DEF Bloquear, Salir, FinInterrumpido, TipoColas
  <2>5. TipoSem'
    <3> DEFINE r == Relevo
    <3>1. r \in [{"sem_corto_plazo", "sem_Q", "sem_tiempo_ejecutado", "sem_exec",
                  "planificador_corto"} -> Nat]
      BY <1>6, <2>3
    <3>2. sem' = r \/ sem' = [r EXCEPT !.planificador_corto = @ + 2]
      BY <1>8 DEF Bloquear, Salir, FinInterrumpido, IniciarPlanificacion
    <3> HIDE DEF r
    <3>3. QED
      BY <3>1, <3>2 DEF TipoSem
  <2>6. TipoPlanificacion'
    BY <1>8 DEF Bloquear, Salir, FinInterrumpido, IniciarPlanificacion, MotivoDesalojo, Activo, TipoPlanificacion
  <2>7. QED
    BY <1>1, <2>3, <2>4, <2>5, <2>6
<1>9. QED
  BY <1>2, <1>7, <1>8 DEF MotivoDesalojo

(* The end of an I/O operation: manejar_codigo_instruccion.                *)
LEMMA FinDeIoTipos ==
  ASSUME Tipos, NEW p \in Pids, FinDeIo(p)
  PROVE  Tipos'
<1> USE DEF Tipos, TypeOK, Manos
<1>1. /\ TipoPlanificacion' /\ TipoCorto' /\ TipoTemporizador' /\ TipoDesalojo' /\ TipoConsola'
      /\ TipoProcesador' /\ TipoSockets' /\ Manos'
  BY DEF FinDeIo, Activo, TipoPlanificacion, TipoCorto, TipoTemporizador, TipoDesalojo, TipoConsola,
     TipoProcesador, TipoSockets, ManoDesalojo, ManoCpu, ManoConsola, ManoTemporizador,
     hilos, procesador, sockets
<1>2. TipoColas'
  <2>1. Append(cola_ready, p) \in Seq(Pids) /\ Append(cola_aux_vrr, p) \in Seq(Pids)
    BY AppendProperties DEF TipoColas
  <2>2. cola_ready' \in Seq(Pids) /\ cola_aux_vrr' \in Seq(Pids)
    BY <2>1 DEF FinDeIo, ManejarVrr, TipoColas
  <2>3. QED
    BY <2>2 DEF FinDeIo, TipoColas
<1>3. TipoTiempos'
  BY DEF FinDeIo, ManejarVrr, TipoTiempos
<1>4. TipoSem'
  BY DEF FinDeIo, SemPost, TipoSem
<1>5. QED
  BY <1>1, <1>2, <1>3, <1>4

(* The thread of a line of the console.                                    *)
LEMMA ConsolaTipos ==
  ASSUME Tipos, Consola \/ \E p \in FINALIZABLES : FinalizarProceso(p)
  PROVE  Tipos'
<1> USE DEF Tipos, TypeOK, Manos
<1>1. CASE \E p \in FINALIZABLES : FinalizarProceso(p)
  <2>1. /\ TipoColas' /\ TipoTiempos' /\ TipoPlanificacion' /\ TipoSem' /\ TipoCorto'
        /\ TipoTemporizador' /\ TipoDesalojo' /\ TipoProcesador' /\ TipoSockets'
        /\ ManoDesalojo' /\ ManoCpu' /\ ManoTemporizador'
    BY <1>1 DEF FinalizarProceso, Activo, TipoColas, TipoTiempos, TipoPlanificacion, TipoSem, TipoCorto,
       TipoTemporizador, TipoDesalojo, TipoProcesador, TipoSockets, ManoDesalojo, ManoCpu,
       ManoTemporizador, colas, tiempos, procesador, sockets
  <2>2. TipoConsola' /\ ManoConsola'
    BY <1>1 DEF FinalizarProceso, TipoConsola, ManoConsola, PcConsola, Pcb
  <2>3. QED
    BY <2>1, <2>2
<1>2. CASE Consola
  <2>1. /\ TipoCorto' /\ TipoTemporizador' /\ TipoDesalojo' /\ TipoProcesador'
        /\ ManoDesalojo' /\ ManoCpu' /\ ManoTemporizador'
    BY <1>2 DEF Consola, TipoCorto, TipoTemporizador, TipoDesalojo, TipoProcesador,
       ManoDesalojo, ManoCpu, ManoTemporizador, procesador
  <2>2. TipoConsola' /\ ManoConsola'
    <3>1. CASE ConsolaLibre
      BY <3>1 DEF ConsolaLibre, TipoConsola, ManoConsola, PcConsola, Pcb
    <3>2. CASE ~ConsolaLibre
      BY <1>2, <3>2 DEF Consola, DetenerPlanificacion, FinalizarMarca, FinalizarEncolado, PedirInterrupcion,
         RecibirCheck, Reanudar, ConsolaA, TipoConsola, ManoConsola, PcConsola, Pcb
    <3>3. QED
      BY <3>1, <3>2
  <2>3. TipoTiempos' /\ TipoPlanificacion'
    BY <1>2 DEF Consola, DetenerPlanificacion, FinalizarMarca, FinalizarEncolado, PedirInterrupcion,
       RecibirCheck, Reanudar, IniciarPlanificacion, Activo, TipoTiempos, TipoPlanificacion
  <2>4. TipoSem'
    <3>1. CASE Reanudar
      BY <3>1 DEF Reanudar, IniciarPlanificacion, TipoSem
    <3>2. CASE ~Reanudar
      BY <1>2, <3>2, SemTipos DEF Consola, DetenerPlanificacion, FinalizarMarca, FinalizarEncolado,
         PedirInterrupcion, RecibirCheck
    <3>3. QED
      BY <3>1, <3>2
  <2>5. TipoColas'
    <3>1. CASE FinalizarEncolado
      <4>1. consola.pid \in Pids
        BY <3>1 DEF FinalizarEncolado, ManoConsola
      <4>2. QED
        BY <3>1, <4>1, RemoveFirstTipo DEF FinalizarEncolado, TipoColas
    <3>2. CASE ~FinalizarEncolado
      BY <1>2, <3>2 DEF Consola, DetenerPlanificacion, FinalizarMarca, PedirInterrupcion,
         RecibirCheck, Reanudar, TipoColas, colas
    <3>3. QED
      BY <3>1, <3>2
  <2>6. TipoSockets'
    <3>1. CASE PedirInterrupcion
      <4>1. [op |-> "INTR", pid |-> consola.pid] \in [op : {"FIN_Q", "INTR"}, pid : Pids]
        BY <3>1 DEF PedirInterrupcion, ManoConsola
      <4>2. QED
        BY <1>2, <3>1, <4>1, AppendProperties DEF Consola, PedirInterrupcion, TipoSockets
    <3>2. CASE RecibirCheck
      BY <1>2, <3>2, HeadTailProperties DEF Consola, RecibirCheck, TipoSockets
    <3>3. CASE ~PedirInterrupcion /\ ~RecibirCheck
      BY <1>2, <3>3 DEF Consola, DetenerPlanificacion, FinalizarMarca, FinalizarEncolado,
         Reanudar, TipoSockets
    <3>4. QED
      BY <3>1, <3>2, <3>3
  <2>7. QED
    BY <2>1, <2>2, <2>3, <2>4, <2>5, <2>6
<1>3. QED
  BY <1>1, <1>2

(* The two threads of the CPU.                                             *)
LEMMA CpuTipos ==
  ASSUME Tipos, CpuInterrupt \/ CpuDispatch \/ Programa
  PROVE  Tipos'
<1> USE DEF Tipos, TypeOK, Manos
<1>1. /\ TipoColas' /\ TipoTiempos' /\ TipoPlanificacion' /\ TipoSem' /\ TipoCorto'
      /\ TipoTemporizador' /\ TipoDesalojo' /\ TipoConsola'
      /\ ManoDesalojo' /\ ManoTemporizador' /\ ManoConsola'
  <2>1. Activo /\ CpuViva
    BY DEF CpuInterrupt, CpuDispatch, Programa
  <2>2. QED
    BY <2>1 DEF CpuViva, Activo, TipoColas, TipoTiempos, TipoPlanificacion, TipoSem, TipoCorto,
       TipoTemporizador, TipoDesalojo, TipoConsola, ManoDesalojo, ManoConsola, ManoTemporizador,
       colas, tiempos, hilos
<1>2. CASE CpuInterrupt
  <2>1. TipoProcesador' /\ ManoCpu'
    BY <1>2 DEF CpuInterrupt, AtenderFinQ, AtenderIntr, InterrumpirSiEs, TipoProcesador, ManoCpu
  <2>2. Tail(interrupciones) \in Seq([op : {"FIN_Q", "INTR"}, pid : Pids])
    BY <1>2, HeadTailProperties DEF CpuInterrupt, TipoSockets
  <2>3. respuestas' \in Seq({"OK", "ERROR"})
    <3>1. \A r \in {"OK", "ERROR"} : Append(respuestas, r) \in Seq({"OK", "ERROR"})
      BY AppendProperties DEF TipoSockets
    <3>2. \/ UNCHANGED respuestas
          \/ \E r \in {"OK", "ERROR"} : respuestas' = Append(respuestas, r)
      BY <1>2 DEF CpuInterrupt, AtenderFinQ, AtenderIntr
    <3>3. QED
      BY <3>1, <3>2 DEF TipoSockets
  <2>4. TipoSockets'
    BY <1>2, <2>2, <2>3 DEF CpuInterrupt, TipoSockets
  <2>5. QED
    BY <1>1, <2>1, <2>4
<1>3. CASE CpuDispatch
  <2>1. CASE RecibirPcb
    <3>1. Head(despacho) \in Pids /\ Tail(despacho) \in Seq(Pids)
      BY <2>1, HeadTailProperties DEF RecibirPcb, TipoSockets
    <3>2. TipoProcesador' /\ ManoCpu'
      BY <2>1, <3>1 DEF RecibirPcb, TipoProcesador, ManoCpu, PcCpu, Pcb
    <3>3. TipoSockets'
      BY <1>3, <2>1, <3>1 DEF CpuDispatch, RecibirPcb, TipoSockets
    <3>4. QED
      BY <1>1, <3>2, <3>3
  <2>2. CASE Devolver
    <3>1. TipoProcesador'
      BY <2>2 DEF Devolver, TipoProcesador, PcCpu, Pcb
    <3>2. ManoCpu'
      BY <2>2 DEF Devolver, ManoCpu, TipoProcesador
    <3>3. TipoSockets'
      <4>1. cpu.pcb # NADA =>
              [op |-> MotivoDe(interrupcion_cpu), pid |-> cpu.pcb] \in [op : Motivos, pid : Pids]
        BY DEF MotivoDe, Motivos, TipoProcesador, Pcb
      <4>2. QED
        <5>1. cpu.pcb # NADA =>
                Append(motivos, [op |-> MotivoDe(interrupcion_cpu), pid |-> cpu.pcb])
                  \in Seq([op : Motivos, pid : Pids])
          BY <4>1, AppendProperties DEF TipoSockets
        <5>2. motivos' \in Seq([op : Motivos, pid : Pids])
          BY <2>2, <5>1 DEF Devolver, TipoSockets
        <5>3. QED
          BY <1>3, <2>2, <5>2 DEF CpuDispatch, Devolver, TipoSockets
    <3>4. QED
      BY <1>1, <3>1, <3>2, <3>3
  <2>3. CASE Soltar \/ BajarFlag("baja", "vuelve") \/ BajarFlag("limpia", "suelta")
    <3>1. TipoProcesador' /\ ManoCpu'
      BY <2>3 DEF Soltar, BajarFlag, TipoProcesador, ManoCpu, PcCpu, Pcb
    <3>2. TipoSockets'
      BY <1>3, <2>3 DEF CpuDispatch, Soltar, BajarFlag, TipoSockets
    <3>3. QED
      BY <1>1, <3>1, <3>2
  <2>4. QED
    BY <1>3, <2>1, <2>2, <2>3 DEF CpuDispatch
<1>4. CASE Programa
  <2>1. PICK m \in {"M_EXIT", "M_IO"} : Ceder(m)
    BY <1>4 DEF Programa
  <2>2. TipoProcesador' /\ ManoCpu'
    BY <2>1 DEF Ceder, TipoProcesador, ManoCpu, PcCpu, Pcb
  <2>3. [op |-> m, pid |-> cpu.pcb] \in [op : Motivos, pid : Pids]
    BY <2>1 DEF Ceder, Motivos, TipoProcesador, ManoCpu, Pcb
  <2>4. TipoSockets'
    BY <1>4, <2>1, <2>3, AppendProperties DEF Programa, Ceder, TipoSockets
  <2>5. QED
    BY <1>1, <2>2, <2>4
<1>5. QED
  BY <1>2, <1>3, <1>4

LEMMA InitTipos ==
  ASSUME Init
  PROVE  Tipos
<1>1. SetToSeq(Pids) \in Seq(Pids)
  BY SetToSeqOcurrencias
<1>2. Cardinality(Pids) \in Nat
  BY FS_CardinalityType
<1>3. TipoColas /\ TipoTiempos /\ TipoPlanificacion
  <2>1. TipoColas
    BY <1>1 DEF Init, TipoColas
  <2>2. TipoTiempos
    <3>1. QUANTUM \in 1 .. QUANTUM /\ 0 \in 0 .. QUANTUM
      OBVIOUS
    <3>2. q_restante = [p \in Pids |-> QUANTUM] /\ hubo_interrupcion = FALSE /\ tiempo_ejecutado = 0
      BY DEF Init
    <3>3. QED
      BY <3>1, <3>2 DEF TipoTiempos
  <2>3. TipoPlanificacion
    BY DEF Init, TipoPlanificacion
  <2>4. QED
    BY <2>1, <2>2, <2>3
<1>4. TipoSem
  BY <1>2 DEF Init, TipoSem
<1>5. TipoCorto /\ TipoTemporizador /\ TipoDesalojo /\ TipoConsola
  BY DEF Init, Libre, TipoCorto, TipoTemporizador, TipoDesalojo, TipoConsola, PcCorto, PcConsola, Pcb
<1>6. TipoProcesador /\ TipoSockets
  BY DEF Init, TipoProcesador, TipoSockets, PcCpu, Pcb
<1>7. ManoDesalojo /\ ManoCpu /\ ManoConsola /\ ManoTemporizador
  BY DEF Init, Libre, ManoDesalojo, ManoCpu, ManoConsola, ManoTemporizador
<1>8. QED
  BY <1>3, <1>4, <1>5, <1>6, <1>7 DEF Tipos, TypeOK, Manos

LEMMA NextTipos ==
  ASSUME Tipos, [Next]_vars
  PROVE  Tipos'
<1>1. CASE Next
  BY <1>1, CortoTipos, DesalojoTipos, ConsolaTipos, CpuTipos, RafagaTipos, FinDeIoTipos DEF Next
<1>2. CASE UNCHANGED vars
  BY <1>2 DEF Tipos, TypeOK, Manos, TipoColas, TipoTiempos, TipoPlanificacion, TipoSem, TipoCorto,
     TipoTemporizador, TipoDesalojo, TipoConsola, TipoProcesador, TipoSockets,
     ManoDesalojo, ManoCpu, ManoConsola, ManoTemporizador,
     vars, colas, tiempos, hilos, procesador, sockets
<1>3. QED
  BY <1>1, <1>2

(* Every variable keeps its type, so that no thread handles a PCB that is  *)
(* not there: motivo_desalojo never handles a reason without a process,    *)
(* and no timer sends a FIN_Q without a PID.                               *)
THEOREM TiposSiempre == Spec => []TypeOK
<1>1. Tipos => TypeOK
  BY DEF Tipos
<1>2. Spec => []Tipos
  BY InitTipos, NextTipos, PTL DEF Spec
<1>3. QED
  BY <1>1, <1>2, PTL

-----------------------------------------------------------------------------
(* Whose turn it is, by where the planner and the eviction thread are: one *)
(* PCB is on its way through the CPU from the dispatch until the reason is *)
(* handled, and each post of the three semaphores is the answer to the     *)
(* other thread's last one.  RelevoCoherente counts the same PCB process   *)
(* by process; this form is the one that each step preserves.              *)
EnCamino == Len(despacho) + Uno(cpu.pcb # NADA) + Len(motivos) + Uno(desalojo.pcb # NADA)

Turno ==
  /\ EnCamino = Uno(\/ corto.pc \in {"Q", "cancela", "baja"}
                    \/ corto.pc = "exec" /\ sem.sem_exec = 0)
  /\ sem.sem_Q = Uno(corto.pc = "Q" /\ desalojo.pc = "maneja")
  /\ sem.sem_tiempo_ejecutado = Uno(corto.pc = "exec" /\ desalojo.pc = "maneja")
  /\ sem.sem_exec = Uno(corto.pc = "exec" /\ EnCamino = 0)
  /\ corto.pc \in {"cancela", "baja"} => desalojo.pc = "maneja"
  /\ corto.pc = "exec" => desalojo.pc = "maneja" \/ EnCamino = 0

LEMMA EnCaminoPartes ==
  ASSUME Tipos
  PROVE  /\ Len(despacho) \in Nat /\ Len(motivos) \in Nat /\ EnCamino \in Nat
         /\ desalojo.pc \in {"recibe", "maneja"}
         /\ desalojo.pc = "maneja" <=> desalojo.pcb # NADA
         /\ EnCamino = 0 => /\ Len(despacho) = 0 /\ Len(motivos) = 0
                            /\ cpu.pcb = NADA /\ desalojo.pc = "recibe"
<1>1. Len(despacho) \in Nat /\ Len(motivos) \in Nat
  BY LenProperties DEF Tipos, TypeOK, TipoSockets
<1>2. desalojo.pc \in {"recibe", "maneja"}
  BY DEF Tipos, TypeOK, TipoDesalojo
<1>3. desalojo.pc = "maneja" <=> desalojo.pcb # NADA
  BY <1>2 DEF Tipos, Manos, ManoDesalojo
<1> DEFINE c == Uno(cpu.pcb # NADA)
           d == Uno(desalojo.pcb # NADA)
<1>4. c \in {0, 1} /\ d \in {0, 1} /\ (c = 0 => cpu.pcb = NADA) /\ (d = 0 => desalojo.pcb = NADA)
  BY DEF Uno
<1>5. EnCamino = Len(despacho) + c + Len(motivos) + d
  BY DEF EnCamino
<1> HIDE DEF c, d
<1>6. EnCamino \in Nat
  BY <1>1, <1>4, <1>5
<1>7. EnCamino = 0 => Len(despacho) = 0 /\ Len(motivos) = 0 /\ c = 0 /\ d = 0
  BY <1>1, <1>4, <1>5
<1>8. QED
  BY <1>1, <1>2, <1>3, <1>4, <1>6, <1>7

(* A step that moves neither a PCB nor the relay.                          *)
LEMMA TurnoQuieto ==
  ASSUME Turno, UNCHANGED <<despacho, motivos, cpu.pcb, desalojo, corto.pc>>,
         sem'.sem_Q = sem.sem_Q, sem'.sem_tiempo_ejecutado = sem.sem_tiempo_ejecutado,
         sem'.sem_exec = sem.sem_exec
  PROVE  Turno'
<1>1. EnCamino' = EnCamino
  BY DEF EnCamino
<1>2. QED
  BY <1>1 DEF Turno

LEMMA CortoTurno ==
  ASSUME Tipos, Turno, PlanificadorCorto
  PROVE  Turno'
<1> USE DEF Uno
<1>1. TipoSem /\ TipoCorto
  BY DEF Tipos, TypeOK
<1>2. CASE SinPcb
  BY <1>2, TurnoQuieto DEF SinPcb, hilos, procesador, sockets
<1>3. ASSUME ~SinPcb PROVE Activo /\ UNCHANGED <<desalojo, motivos, cpu>>
  BY <1>3 DEF PlanificadorCorto, sockets, procesador
<1>4. CASE ~SinPcb /\ corto.pc # "saca"
  <2>1. UNCHANGED <<desalojo, motivos, cpu, despacho>> /\ EnCamino' = EnCamino
    BY <1>4 DEF PlanificadorCorto, sockets, procesador, EnCamino
  <2>2. EnCamino \in Nat /\ desalojo.pc \in {"recibe", "maneja"}
    BY EnCaminoPartes
  <2>3. EnCamino = 0 => desalojo.pc = "recibe"
    BY EnCaminoPartes
  <2>4. CASE ElegirCola
    BY <1>1, <2>1, <2>4 DEF ElegirCola, SemWait, TipoSem, TipoCorto, Turno
  <2>5. CASE LeerInterrupcion
    <3>1. /\ corto.pc = "Q" /\ corto'.pc \in {"baja", "cancela"}
          /\ sem.sem_Q > 0 /\ sem'.sem_Q = sem.sem_Q - 1 /\ sem'.sem_exec = sem.sem_exec
          /\ sem'.sem_tiempo_ejecutado = sem.sem_tiempo_ejecutado
      BY <1>1, <2>5 DEF LeerInterrupcion, SemWait, CortoA, TipoSem, TipoCorto
    <3>2. desalojo.pc = "maneja" /\ sem.sem_Q = 1 /\ EnCamino = 1
      BY <3>1 DEF Turno
    <3>3. sem.sem_tiempo_ejecutado = 0 /\ sem.sem_exec = 0
      BY <3>1 DEF Turno
    <3>4. QED
      BY <2>1, <3>1, <3>2, <3>3 DEF Turno
  <2>6. CASE CancelarTemporizador \/ BajarInterrupcion
    <3>1. /\ corto.pc \in {"baja", "cancela"} /\ corto'.pc = "exec"
          /\ sem'.sem_tiempo_ejecutado = sem.sem_tiempo_ejecutado + 1
          /\ sem'.sem_Q = sem.sem_Q /\ sem'.sem_exec = sem.sem_exec
      BY <1>1, <2>6 DEF CancelarTemporizador, BajarInterrupcion, SemPost, TipoSem, TipoCorto
    <3>2. desalojo.pc = "maneja" /\ EnCamino = 1
      BY <3>1 DEF Turno
    <3>3. sem.sem_Q = 0 /\ sem.sem_tiempo_ejecutado = 0 /\ sem.sem_exec = 0
      BY <3>1 DEF Turno
    <3>4. QED
      BY <2>1, <3>1, <3>2, <3>3 DEF Turno
  <2>7. CASE CortoExec
    <3>1. /\ corto.pc = "exec" /\ corto'.pc \in {"espera", "detenido"}
          /\ sem.sem_exec > 0 /\ sem'.sem_exec = sem.sem_exec - 1
          /\ sem'.sem_Q = sem.sem_Q /\ sem'.sem_tiempo_ejecutado = sem.sem_tiempo_ejecutado
      BY <1>1, <2>7 DEF CortoExec, SemWait, CortoA, TipoSem, TipoCorto
    <3>2. EnCamino = 0 /\ sem.sem_exec = 1 /\ desalojo.pc = "recibe"
      BY <2>3, <3>1 DEF Turno
    <3>3. sem.sem_Q = 0 /\ sem.sem_tiempo_ejecutado = 0
      BY <3>1, <3>2 DEF Turno
    <3>4. QED
      BY <2>1, <3>1, <3>2, <3>3 DEF Turno
  <2>8. CASE CortoReanuda
    BY <1>1, <2>1, <2>8 DEF CortoReanuda, SemWait, CortoA, TipoSem, TipoCorto, Turno
  <2>9. QED
    BY <1>4, <2>4, <2>5, <2>6, <2>7, <2>8 DEF PlanificadorCorto, PlanificarQuantum
<1>5. CASE ~SinPcb /\ corto.pc = "saca"
  <2>1. PICK t \in Temporizadores : PlanificarQuantum(t)
    BY <1>5 DEF PlanificadorCorto, ElegirCola, LeerInterrupcion, CancelarTemporizador,
       BajarInterrupcion, CortoExec, CortoReanuda
  <2>2. Len(despacho') = Len(despacho) + 1
    <3>1. Head(Elegida) \in Pids
      BY <2>1, HeadTailProperties DEF PlanificarQuantum, Elegida, Tipos, TypeOK, TipoColas
    <3>2. QED
      BY <2>1, <3>1, AppendProperties DEF PlanificarQuantum, Tipos, TypeOK, TipoSockets
  <2>3. EnCamino' = EnCamino + 1
    <3> DEFINE c == Uno(cpu.pcb # NADA)
               d == Uno(desalojo.pcb # NADA)
    <3>1. UNCHANGED <<c, d, motivos>>
      BY <1>3, <1>5
    <3>2. c \in {0, 1} /\ d \in {0, 1} /\ Len(despacho) \in Nat /\ Len(motivos) \in Nat
      BY EnCaminoPartes
    <3>3. EnCamino = Len(despacho) + c + Len(motivos) + d /\ EnCamino' = Len(despacho') + c' + Len(motivos') + d'
      BY DEF EnCamino
    <3> HIDE DEF c, d
    <3>4. QED
      BY <2>2, <3>1, <3>2, <3>3
  <2>4. corto'.pc = "Q" /\ UNCHANGED <<sem, desalojo>>
    BY <1>3, <1>5, <2>1 DEF PlanificarQuantum
  <2>5. EnCamino = 0
    BY <1>5 DEF Turno
  <2>6. desalojo.pc = "recibe"
    BY <2>5, EnCaminoPartes
  <2>7. sem.sem_Q = 0 /\ sem.sem_tiempo_ejecutado = 0 /\ sem.sem_exec = 0
    BY <1>5 DEF Turno
  <2>8. QED
    BY <2>7, <2>3, <2>4, <2>5, <2>6 DEF Turno
<1>6. QED
  BY <1>2, <1>4, <1>5

LEMMA DesalojoTurno ==
  ASSUME Tipos, Turno, MotivoDesalojo
  PROVE  Turno'
<1> USE DEF Uno
<1>1. TipoSem /\ TipoCorto /\ TipoDesalojo /\ TipoSockets
  BY DEF Tipos, TypeOK
<1>2. UNCHANGED <<corto, cpu, despacho>>
  BY DEF MotivoDesalojo, procesador
<1>3. CASE RecibirMotivo
  <2>1. /\ Len(motivos) \in Nat \ {0} /\ Len(motivos') = Len(motivos) - 1
        /\ Head(motivos).pid \in Pids
    <3>1. motivos # <<>> /\ motivos \in Seq([op : Motivos, pid : Pids]) /\ motivos' = Tail(motivos)
      BY <1>1, <1>3 DEF RecibirMotivo, TipoSockets
    <3>2. Head(motivos) \in [op : Motivos, pid : Pids] /\ Len(Tail(motivos)) = Len(motivos) - 1
      BY <3>1, HeadTailProperties
    <3>3. Len(motivos) \in Nat \ {0}
      BY <3>1, EmptySeq
    <3>4. QED
      BY <3>1, <3>2, <3>3
  <2>2. desalojo.pcb = NADA /\ desalojo'.pcb # NADA /\ desalojo.pc = "recibe" /\ desalojo'.pc = "maneja"
    BY <1>3, <2>1 DEF RecibirMotivo, Tipos, Manos, ManoDesalojo
  <2>3. EnCamino' = EnCamino /\ EnCamino > 0
    BY <1>2, <2>1, <2>2, EnCaminoPartes DEF EnCamino
  <2>4. corto.pc = "Q"
    BY <2>2, <2>3 DEF Turno
  <2>5. /\ sem'.sem_Q = sem.sem_Q + 1 /\ sem'.sem_exec = sem.sem_exec
        /\ sem'.sem_tiempo_ejecutado = sem.sem_tiempo_ejecutado
    BY <1>1, <1>3 DEF RecibirMotivo, SemPost, TipoSem
  <2>6. QED
    BY <1>2, <2>2, <2>3, <2>4, <2>5 DEF Turno
<1>4. CASE FinQuantum \/ Bloquear \/ Salir \/ FinInterrumpido
  <2>1. /\ desalojo.pc = "maneja" /\ sem.sem_tiempo_ejecutado > 0 /\ UNCHANGED motivos
        /\ desalojo' = [pc |-> "recibe", pcb |-> NADA, motivo |-> NADA]
    BY <1>4 DEF FinQuantum, Bloquear, Salir, FinInterrumpido, Manejado
  <2>2. desalojo.pcb # NADA /\ desalojo'.pcb = NADA /\ desalojo'.pc = "recibe"
    BY <2>1, EnCaminoPartes
  <2>3. EnCamino' = EnCamino - 1
    BY <1>2, <2>1, <2>2, EnCaminoPartes DEF EnCamino
  <2>4. corto.pc = "exec" /\ sem.sem_tiempo_ejecutado = 1
    BY <2>1 DEF Turno
  <2>5. EnCamino = 1 /\ sem.sem_exec = 0
    BY <2>2, <2>4, EnCaminoPartes DEF Turno, EnCamino
  <2>6. /\ sem'.sem_Q = sem.sem_Q /\ sem'.sem_exec = sem.sem_exec + 1
        /\ sem'.sem_tiempo_ejecutado = sem.sem_tiempo_ejecutado - 1
    BY <1>1, <1>4 DEF FinQuantum, Bloquear, Salir, FinInterrumpido, IniciarPlanificacion, Relevo, TipoSem
  <2>7. QED
    BY <1>2, <2>1, <2>2, <2>3, <2>4, <2>5, <2>6 DEF Turno
<1>5. QED
  BY <1>3, <1>4 DEF MotivoDesalojo

LEMMA CpuTurno ==
  ASSUME Tipos, Turno, CpuInterrupt \/ CpuDispatch \/ Programa
  PROVE  Turno'
<1> USE DEF Uno
<1>1. TipoSockets /\ TipoProcesador /\ ManoCpu
  BY DEF Tipos, TypeOK, Manos
<1>2. UNCHANGED <<corto, desalojo, sem>>
  BY DEF CpuInterrupt, CpuDispatch, Programa, CpuViva, hilos
<1>3. SUFFICES EnCamino' = EnCamino
  BY <1>2 DEF Turno
<1>4. Len(despacho) \in Nat /\ Len(motivos) \in Nat
  BY EnCaminoPartes
<1>5. CASE CpuInterrupt
  BY <1>2, <1>5 DEF CpuInterrupt, EnCamino
<1>6. ASSUME NEW m \in [op : Motivos, pid : Pids]
      PROVE  Len(Append(motivos, m)) = Len(motivos) + 1
  BY <1>1, AppendProperties DEF TipoSockets
<1>7. CASE CpuDispatch
  <2>1. CASE RecibirPcb
    <3>1. /\ Len(despacho) \in Nat \ {0} /\ Len(despacho') = Len(despacho) - 1
          /\ Head(despacho) \in Pids /\ UNCHANGED motivos
      BY <1>1, <2>1, HeadTailProperties, EmptySeq DEF RecibirPcb, TipoSockets
    <3>2. cpu.pcb = NADA /\ cpu'.pcb # NADA
      BY <1>1, <2>1, <3>1 DEF RecibirPcb, ManoCpu
    <3>3. QED
      BY <1>2, <1>4, <3>1, <3>2 DEF EnCamino
  <2>2. CASE Devolver
    <3>1. UNCHANGED despacho
      BY <2>2 DEF Devolver
    <3>2. CASE cpu.pcb = NADA
      <4>1. UNCHANGED motivos /\ cpu'.pcb = NADA
        BY <1>1, <2>2, <3>2 DEF Devolver, TipoProcesador
      <4>2. QED
        BY <1>2, <3>1, <3>2, <4>1 DEF EnCamino
    <3>3. CASE cpu.pcb # NADA
      <4>1. interrupcion_cpu # "NOT_INTERRUPT"
        BY <1>1, <2>2, <3>3 DEF Devolver, ManoCpu
      <4>2. /\ cpu'.pcb = NADA
            /\ motivos' = Append(motivos, [op |-> MotivoDe(interrupcion_cpu), pid |-> cpu.pcb])
        BY <2>2, <3>3, <4>1 DEF Devolver
      <4>3. [op |-> MotivoDe(interrupcion_cpu), pid |-> cpu.pcb] \in [op : Motivos, pid : Pids]
        BY <1>1, <3>3 DEF MotivoDe, Motivos, TipoProcesador, Pcb
      <4>4. Len(motivos') = Len(motivos) + 1
        BY <1>6, <4>2, <4>3
      <4>5. QED
        BY <1>2, <1>4, <3>1, <3>3, <4>2, <4>4 DEF EnCamino
    <3>4. QED
      BY <3>2, <3>3
  <2>3. CASE Soltar \/ BajarFlag("baja", "vuelve") \/ BajarFlag("limpia", "suelta")
    <3>1. UNCHANGED <<despacho, motivos>> /\ cpu'.pcb = cpu.pcb
      BY <1>1, <2>3 DEF Soltar, BajarFlag, TipoProcesador
    <3>2. QED
      BY <1>2, <3>1 DEF EnCamino
  <2>4. QED
    BY <1>7, <2>1, <2>2, <2>3 DEF CpuDispatch
<1>8. CASE Programa
  <2>1. PICK m \in {"M_EXIT", "M_IO"} : Ceder(m)
    BY <1>8 DEF Programa
  <2>2. /\ cpu.pcb # NADA /\ cpu'.pcb = NADA /\ UNCHANGED despacho
        /\ motivos' = Append(motivos, [op |-> m, pid |-> cpu.pcb])
    BY <1>1, <2>1 DEF Ceder, ManoCpu
  <2>3. [op |-> m, pid |-> cpu.pcb] \in [op : Motivos, pid : Pids]
    BY <1>1, <2>2 DEF Motivos, TipoProcesador, Pcb
  <2>4. Len(motivos') = Len(motivos) + 1
    BY <1>6, <2>2, <2>3
  <2>5. QED
    BY <1>2, <1>4, <2>2, <2>4 DEF EnCamino
<1>9. QED
  BY <1>5, <1>7, <1>8

LEMMA OtrosTurno ==
  ASSUME Tipos, Turno,
         \/ Consola
         \/ \E t \in Temporizadores : RafagaCpu(t)
         \/ \E p \in Pids : FinDeIo(p)
         \/ \E p \in FINALIZABLES : FinalizarProceso(p)
         \/ UNCHANGED vars
  PROVE  Turno'
<1>1. TipoSem
  BY DEF Tipos, TypeOK
<1>2. UNCHANGED <<despacho, motivos, cpu, desalojo, corto>>
  BY DEF Consola, RafagaCpu, FinDeIo, FinalizarProceso, vars, hilos, procesador, sockets
<1>3. /\ sem'.sem_Q = sem.sem_Q /\ sem'.sem_tiempo_ejecutado = sem.sem_tiempo_ejecutado
      /\ sem'.sem_exec = sem.sem_exec
  <2>1. CASE Consola
    BY <1>1, <2>1 DEF Consola, DetenerPlanificacion, FinalizarMarca, FinalizarEncolado, PedirInterrupcion,
       RecibirCheck, Reanudar, IniciarPlanificacion, SemWait, TipoSem
  <2>2. CASE \E p \in Pids : FinDeIo(p)
    BY <1>1, <2>2 DEF FinDeIo, SemPost, TipoSem
  <2>3. CASE UNCHANGED sem
    BY <2>3
  <2>4. QED
    BY <2>1, <2>2, <2>3 DEF RafagaCpu, FinalizarProceso, vars
<1>4. QED
  BY <1>2, <1>3, TurnoQuieto

-----------------------------------------------------------------------------
(* Where a PCB is.  The counts are those of the lists of the proofs.       *)
LEMMA VecesOcurrencias ==
  \A p, s : Veces(p, s) = Ocurrencias(p, s)
BY DEF Veces, Ocurrencias

LEMMA VecesNat ==
  ASSUME NEW s \in Seq(Pids), NEW p
  PROVE  /\ Veces(p, s) \in Nat
         /\ Veces(p, s) > 0 <=> p \in ToSet(s)
BY OcurrenciasNat, VecesOcurrencias

LEMMA VecesAppend ==
  ASSUME NEW s \in Seq(Pids), NEW e \in Pids, NEW p
  PROVE  Veces(p, Append(s, e)) = Veces(p, s) + Uno(e = p)
BY OcurrenciasAppend, VecesOcurrencias DEF Cuenta, Uno

LEMMA VecesTail ==
  ASSUME NEW s \in Seq(Pids), s # <<>>, NEW p
  PROVE  Veces(p, s) = Veces(p, Tail(s)) + Uno(Head(s) = p)
BY OcurrenciasTail, VecesOcurrencias DEF Cuenta, Uno

LEMMA VecesRemoveFirst ==
  ASSUME NEW s \in Seq(Pids), NEW e, NEW p
  PROVE  Veces(p, RemoveFirst(s, e)) = Veces(p, s) - Uno(p = e /\ e \in ToSet(s))
BY OcurrenciasRemoveFirst, VecesOcurrencias DEF Cuenta, Uno

LEMMA VecesCorta ==
  ASSUME NEW s \in Seq(Pids), NEW p
  PROVE  /\ Len(s) = 0 => Veces(p, s) = 0
         /\ Len(s) = 1 => Veces(p, s) = Uno(Head(s) = p)
BY OcurrenciasCorta, VecesOcurrencias DEF Cuenta, Uno

Mensajes == Seq([op : Motivos, pid : Pids])

(* The PIDs of the reasons in the socket follow the socket.                *)
LEMMA PidsDeLosPid == \A s : PidsDe(s) = LosPid(s)
BY DEF PidsDe, LosPid

LEMMA PidsDeTipo ==
  ASSUME NEW s \in Mensajes
  PROVE  PidsDe(s) \in Seq(Pids) /\ Len(PidsDe(s)) = Len(s)
<1>1. \A m \in [op : Motivos, pid : Pids] : m.pid \in Pids
  OBVIOUS
<1>2. QED
  BY <1>1, PidsDeLosPid, LosPidTipo DEF Mensajes

LEMMA PidsDeAppend ==
  ASSUME NEW s \in Mensajes, NEW m \in [op : Motivos, pid : Pids]
  PROVE  PidsDe(Append(s, m)) = Append(PidsDe(s), m.pid)
<1>1. \A n \in [op : Motivos, pid : Pids] : n.pid \in Pids
  OBVIOUS
<1>2. QED
  BY <1>1, PidsDeLosPid, LosPidAppend DEF Mensajes

LEMMA PidsDeTail ==
  ASSUME NEW s \in Mensajes, s # <<>>
  PROVE  /\ PidsDe(Tail(s)) = Tail(PidsDe(s))
         /\ PidsDe(s) # <<>> /\ Head(PidsDe(s)) = Head(s).pid
<1>1. \A m \in [op : Motivos, pid : Pids] : m.pid \in Pids
  OBVIOUS
<1>2. QED
  BY <1>1, PidsDeLosPid, LosPidTail DEF Mensajes

(* The terms of the sum.                                                   *)
Lugares(p) ==
  Veces(p, cola_ready) + Veces(p, cola_aux_vrr) + Uno(p \in bloqueados)
    + Uno(p \in terminados) + EnTurno(p)

LEMMA LugaresPartes ==
  ASSUME Tipos, NEW p
  PROVE  /\ Veces(p, cola_ready) \in Nat /\ Veces(p, cola_aux_vrr) \in Nat
         /\ Veces(p, despacho) \in Nat /\ Veces(p, PidsDe(motivos)) \in Nat
         /\ \A b : Uno(b) \in {0, 1}
         /\ EnTurno(p) \in Nat /\ Lugares(p) \in Nat
<1>1. Veces(p, cola_ready) \in Nat /\ Veces(p, cola_aux_vrr) \in Nat
  BY VecesNat DEF Tipos, TypeOK, TipoColas
<1>2. Veces(p, despacho) \in Nat
  BY VecesNat DEF Tipos, TypeOK, TipoSockets
<1>3. Veces(p, PidsDe(motivos)) \in Nat
  BY VecesNat, PidsDeTipo DEF Tipos, TypeOK, TipoSockets, Mensajes
<1>4. \A b : Uno(b) \in {0, 1}
  BY DEF Uno
<1>5. /\ Uno(cpu.pcb = p) \in {0, 1} /\ Uno(desalojo.pcb = p) \in {0, 1}
      /\ Uno(p \in bloqueados) \in {0, 1} /\ Uno(p \in terminados) \in {0, 1}
  BY <1>4
<1>6. EnTurno(p) \in Nat
  BY <1>2, <1>3, <1>5 DEF EnTurno
<1>7. Lugares(p) \in Nat
  BY <1>1, <1>5, <1>6 DEF Lugares
<1>8. QED
  BY <1>1, <1>2, <1>3, <1>4, <1>6, <1>7

(* A step that moves no PCB.                                               *)
LEMMA LugaresQuieto ==
  ASSUME UNCHANGED <<cola_ready, cola_aux_vrr, bloqueados, terminados, despacho, motivos>>,
         cpu'.pcb = cpu.pcb, desalojo'.pcb = desalojo.pcb, NEW p
  PROVE  Lugares(p)' = Lugares(p)
BY DEF Lugares, EnTurno, Veces, PidsDe, Uno

(* From a queue to the CPU: planificador_corto_plazo.                      *)
LEMMA CortoLugares ==
  ASSUME Tipos, PlanificadorCorto, NEW p \in Pids
  PROVE  Lugares(p)' = Lugares(p)
<1>1. CASE SinPcb
  BY <1>1, LugaresQuieto DEF SinPcb, colas, hilos, procesador, sockets
<1>2. CASE ~SinPcb /\ corto.pc # "saca"
  BY <1>2, LugaresQuieto DEF PlanificadorCorto, colas, procesador, sockets, ElegirCola, PlanificarQuantum,
     LeerInterrupcion, CancelarTemporizador, BajarInterrupcion, CortoExec, CortoReanuda
<1>3. CASE ~SinPcb /\ corto.pc = "saca"
  <2>1. PICK t \in Temporizadores : PlanificarQuantum(t)
    BY <1>3 DEF PlanificadorCorto, ElegirCola, LeerInterrupcion, CancelarTemporizador,
       BajarInterrupcion, CortoExec, CortoReanuda
  <2>2. UNCHANGED <<bloqueados, terminados, cpu, desalojo, motivos>>
    BY <1>3, <2>1 DEF PlanificadorCorto, PlanificarQuantum, procesador
  <2>3. cola_ready \in Seq(Pids) /\ cola_aux_vrr \in Seq(Pids) /\ despacho \in Seq(Pids)
    BY DEF Tipos, TypeOK, TipoColas, TipoSockets
  <2>4. Head(Elegida) \in Pids /\ despacho' = Append(despacho, Head(Elegida))
    BY <2>1, <2>3, HeadTailProperties DEF PlanificarQuantum, Elegida
  <2>5. Veces(p, despacho') = Veces(p, despacho) + Uno(Head(Elegida) = p)
    BY <2>3, <2>4, VecesAppend
  <2>6. Veces(p, cola_ready') + Veces(p, cola_aux_vrr') + Uno(Head(Elegida) = p)
          = Veces(p, cola_ready) + Veces(p, cola_aux_vrr)
    <3>1. CASE corto.vrr
      <4>1. cola_aux_vrr # <<>> /\ cola_aux_vrr' = Tail(cola_aux_vrr) /\ UNCHANGED cola_ready
        BY <2>1, <3>1 DEF PlanificarQuantum, Elegida
      <4>2. Veces(p, cola_aux_vrr) = Veces(p, cola_aux_vrr') + Uno(Head(Elegida) = p)
        BY <2>3, <3>1, <4>1, VecesTail DEF Elegida
      <4>3. Tail(cola_aux_vrr) \in Seq(Pids)
        BY <2>3, <4>1, HeadTailProperties
      <4>4. Veces(p, cola_aux_vrr') \in Nat
        BY <4>1, <4>3, VecesNat
      <4>5. QED
        BY <4>1, <4>2, <4>4, LugaresPartes
    <3>2. CASE ~corto.vrr
      <4>1. cola_ready # <<>> /\ cola_ready' = Tail(cola_ready) /\ UNCHANGED cola_aux_vrr
        BY <2>1, <3>2 DEF PlanificarQuantum, Elegida
      <4>2. Veces(p, cola_ready) = Veces(p, cola_ready') + Uno(Head(Elegida) = p)
        BY <2>3, <3>2, <4>1, VecesTail DEF Elegida
      <4>3. Tail(cola_ready) \in Seq(Pids)
        BY <2>3, <4>1, HeadTailProperties
      <4>4. Veces(p, cola_ready') \in Nat
        BY <4>1, <4>3, VecesNat
      <4>5. QED
        BY <4>1, <4>2, <4>4, LugaresPartes
    <3>3. QED
      BY <3>1, <3>2
  <2>7. /\ Veces(p, PidsDe(motivos))' = Veces(p, PidsDe(motivos))
        /\ Uno(p \in bloqueados)' = Uno(p \in bloqueados) /\ Uno(p \in terminados)' = Uno(p \in terminados)
        /\ Uno(cpu.pcb = p)' = Uno(cpu.pcb = p) /\ Uno(desalojo.pcb = p)' = Uno(desalojo.pcb = p)
    BY <2>2
  <2>8. Tipos'
    BY CortoTipos
  <2>9. Veces(p, cola_ready)' \in Nat /\ Veces(p, cola_aux_vrr)' \in Nat /\ Veces(p, despacho)' \in Nat
    BY <2>8, VecesNat DEF Tipos, TypeOK, TipoColas, TipoSockets
  <2>10. QED
    BY <2>5, <2>6, <2>7, <2>9, LugaresPartes DEF Lugares, EnTurno
<1>4. QED
  BY <1>1, <1>2, <1>3

(* From the socket to a queue, or out: motivo_desalojo.                    *)
LEMMA DesalojoLugares ==
  ASSUME Tipos, MotivoDesalojo, NEW p \in Pids, Lugares(p) = 1
  PROVE  Lugares(p)' = Lugares(p)
<1>1. /\ UNCHANGED <<cpu, despacho>> /\ motivos \in Mensajes
      /\ cola_ready \in Seq(Pids) /\ bloqueados \subseteq Pids /\ terminados \subseteq Pids
  BY DEF MotivoDesalojo, procesador, Tipos, TypeOK, TipoSockets, TipoColas, Mensajes
<1>2. CASE RecibirMotivo
  <2>1. UNCHANGED <<cola_ready, cola_aux_vrr, bloqueados, terminados>>
    BY <1>2 DEF RecibirMotivo, colas
  <2>2. motivos # <<>> /\ motivos' = Tail(motivos) /\ desalojo'.pcb = Head(motivos).pid /\ desalojo.pcb = NADA
    BY <1>2 DEF RecibirMotivo, Tipos, Manos, ManoDesalojo
  <2>3. PidsDe(motivos) \in Seq(Pids) /\ PidsDe(motivos)' = Tail(PidsDe(motivos)) /\ PidsDe(motivos) # <<>>
        /\ Head(PidsDe(motivos)) = Head(motivos).pid
    <3>1. PidsDe(Tail(motivos)) = Tail(PidsDe(motivos)) /\ PidsDe(motivos) # <<>>
          /\ Head(PidsDe(motivos)) = Head(motivos).pid
      BY <1>1, <2>2, PidsDeTail
    <3>2. PidsDe(motivos)' = PidsDe(Tail(motivos))
      BY <2>2 DEF PidsDe
    <3>3. QED
      BY <1>1, <3>1, <3>2, PidsDeTipo
  <2>4. Veces(p, PidsDe(motivos)) = Veces(p, PidsDe(motivos)') + Uno(Head(motivos).pid = p)
    BY <2>3, VecesTail
  <2>5. /\ Uno(desalojo.pcb = p) = 0 /\ Uno(desalojo'.pcb = p) = Uno(Head(motivos).pid = p)
        /\ Uno(p \in bloqueados)' = Uno(p \in bloqueados) /\ Uno(p \in terminados)' = Uno(p \in terminados)
        /\ Uno(cpu.pcb = p)' = Uno(cpu.pcb = p) /\ Veces(p, despacho)' = Veces(p, despacho)
        /\ Veces(p, cola_ready)' = Veces(p, cola_ready) /\ Veces(p, cola_aux_vrr)' = Veces(p, cola_aux_vrr)
        /\ Veces(p, PidsDe(motivos))' = Veces(p, PidsDe(motivos)')
    BY <1>1, <2>1, <2>2 DEF Uno, Veces
  <2>6. Tail(PidsDe(motivos)) \in Seq(Pids)
    BY <2>3, HeadTailProperties
  <2>7. Veces(p, PidsDe(motivos)') \in Nat
    BY <2>3, <2>6, VecesNat
  <2>8. QED
    BY <2>4, <2>5, <2>7, LugaresPartes DEF Lugares, EnTurno
<1>3. CASE FinQuantum \/ Bloquear \/ Salir \/ FinInterrumpido
  <2>1. /\ desalojo.pcb \in Pids /\ desalojo'.pcb = NADA /\ UNCHANGED <<motivos, cola_aux_vrr>>
    BY <1>3 DEF FinQuantum, Bloquear, Salir, FinInterrumpido, Manejado, Tipos, Manos, ManoDesalojo
  <2>2. /\ Uno(desalojo'.pcb = p) = 0
        /\ Uno(cpu.pcb = p)' = Uno(cpu.pcb = p) /\ Veces(p, despacho)' = Veces(p, despacho)
        /\ Veces(p, cola_aux_vrr)' = Veces(p, cola_aux_vrr)
        /\ Veces(p, PidsDe(motivos))' = Veces(p, PidsDe(motivos))
    BY <1>1, <2>1 DEF Uno, Veces, PidsDe
  <2>3. desalojo.pcb = p => p \notin bloqueados /\ p \notin terminados
    <3>1. SUFFICES ASSUME desalojo.pcb = p, p \in bloqueados \/ p \in terminados
                   PROVE  FALSE
      OBVIOUS
    <3>2. Uno(desalojo.pcb = p) = 1 /\ Uno(p \in bloqueados) + Uno(p \in terminados) >= 1
      BY <3>1 DEF Uno
    <3>3. Lugares(p) >= 2
      BY <3>2, LugaresPartes DEF Lugares, EnTurno
    <3>4. QED
      BY <3>3
  <2>4. Veces(p, cola_ready)' + Uno(p \in bloqueados)' + Uno(p \in terminados)'
          = Veces(p, cola_ready) + Uno(p \in bloqueados) + Uno(p \in terminados) + Uno(desalojo.pcb = p)
    <3>1. CASE FinQuantum
      <4>1. cola_ready' = Append(cola_ready, desalojo.pcb) /\ UNCHANGED <<bloqueados, terminados>>
        BY <3>1 DEF FinQuantum
      <4>2. Veces(p, cola_ready') = Veces(p, cola_ready) + Uno(desalojo.pcb = p)
        BY <1>1, <2>1, <4>1, VecesAppend
      <4>3. QED
        BY <4>1, <4>2, LugaresPartes
    <3>2. CASE Bloquear
      <4>1. bloqueados' = bloqueados \cup {desalojo.pcb} /\ UNCHANGED <<cola_ready, terminados>>
        BY <3>2 DEF Bloquear
      <4>2. Uno(p \in bloqueados') = Uno(p \in bloqueados) + Uno(desalojo.pcb = p)
        BY <2>3, <4>1 DEF Uno
      <4>3. QED
        BY <4>1, <4>2, LugaresPartes
    <3>3. CASE Salir \/ FinInterrumpido
      <4>1. terminados' = terminados \cup {desalojo.pcb} /\ UNCHANGED <<cola_ready, bloqueados>>
        BY <3>3 DEF Salir, FinInterrumpido
      <4>2. Uno(p \in terminados') = Uno(p \in terminados) + Uno(desalojo.pcb = p)
        BY <2>3, <4>1 DEF Uno
      <4>3. QED
        BY <4>1, <4>2, LugaresPartes
    <3>4. QED
      BY <1>3, <3>1, <3>2, <3>3
  <2>5. Tipos'
    BY DesalojoTipos
  <2>6. Veces(p, cola_ready)' \in Nat
    BY <2>5, VecesNat DEF Tipos, TypeOK, TipoColas
  <2>7. Uno(p \in bloqueados)' \in {0, 1} /\ Uno(p \in terminados)' \in {0, 1}
    BY DEF Uno
  <2>8. QED
    BY <2>2, <2>4, <2>6, <2>7, LugaresPartes DEF Lugares, EnTurno
<1>4. QED
  BY <1>2, <1>3 DEF MotivoDesalojo

(* Back from an interface.                                                 *)
LEMMA FinDeIoLugares ==
  ASSUME Tipos, NEW r \in Pids, FinDeIo(r), NEW p \in Pids
  PROVE  Lugares(p)' = Lugares(p)
<1>1. /\ UNCHANGED <<cpu, desalojo, despacho, motivos, terminados>>
      /\ r \in bloqueados /\ bloqueados' = bloqueados \ {r}
  BY DEF FinDeIo, hilos, procesador, sockets
<1>2. cola_ready \in Seq(Pids) /\ cola_aux_vrr \in Seq(Pids)
  BY DEF Tipos, TypeOK, TipoColas
<1>3. Uno(p \in bloqueados) = Uno(p \in bloqueados') + Uno(r = p)
  BY <1>1 DEF Uno
<1>4. Veces(p, cola_ready') + Veces(p, cola_aux_vrr') = Veces(p, cola_ready) + Veces(p, cola_aux_vrr) + Uno(r = p)
  <2>1. \/ cola_aux_vrr' = Append(cola_aux_vrr, r) /\ UNCHANGED cola_ready
        \/ cola_ready' = Append(cola_ready, r) /\ UNCHANGED cola_aux_vrr
    BY DEF FinDeIo, ManejarVrr
  <2>2. /\ Veces(p, Append(cola_aux_vrr, r)) = Veces(p, cola_aux_vrr) + Uno(r = p)
        /\ Veces(p, Append(cola_ready, r)) = Veces(p, cola_ready) + Uno(r = p)
    BY <1>2, VecesAppend
  <2>3. Uno(r = p) \in {0, 1}
    BY DEF Uno
  <2>4. CASE cola_aux_vrr' = Append(cola_aux_vrr, r) /\ UNCHANGED cola_ready
    BY <2>2, <2>3, <2>4, LugaresPartes
  <2>5. CASE cola_ready' = Append(cola_ready, r) /\ UNCHANGED cola_aux_vrr
    BY <2>2, <2>3, <2>5, LugaresPartes
  <2>6. QED
    BY <2>1, <2>4, <2>5
<1>5. /\ Uno(p \in terminados)' = Uno(p \in terminados) /\ EnTurno(p)' = EnTurno(p)
  BY <1>1 DEF EnTurno, Veces, PidsDe, Uno
<1>6. Tipos'
  BY FinDeIoTipos
<1>7. Veces(p, cola_ready)' \in Nat /\ Veces(p, cola_aux_vrr)' \in Nat
  BY <1>6, VecesNat DEF Tipos, TypeOK, TipoColas
<1>8. Uno(p \in bloqueados') \in {0, 1} /\ Uno(r = p) \in {0, 1}
  BY DEF Uno
<1>9. QED
  BY <1>3, <1>4, <1>5, <1>7, <1>8, LugaresPartes DEF Lugares

(* FINALIZAR_PROCESO takes the PCB from the queue it is in, and from no    *)
(* other, since it is in one place.                                        *)
LEMMA ConsolaLugares ==
  ASSUME Tipos, Consola, NEW p \in Pids, Lugares(p) = 1
  PROVE  Lugares(p)' = Lugares(p)
<1>1. UNCHANGED <<desalojo, cpu, despacho, motivos>>
  BY DEF Consola, procesador
<1>2. CASE ~FinalizarEncolado
  BY <1>1, <1>2, LugaresQuieto DEF Consola, DetenerPlanificacion, FinalizarMarca, PedirInterrupcion,
     RecibirCheck, Reanudar, colas
<1>3. CASE FinalizarEncolado
  <2>1. cola_ready \in Seq(Pids) /\ cola_aux_vrr \in Seq(Pids)
    BY DEF Tipos, TypeOK, TipoColas
  <2> DEFINE e == consola.pid
  <2>2. /\ e \in EnCola
        /\ cola_ready' = RemoveFirst(cola_ready, e) /\ cola_aux_vrr' = RemoveFirst(cola_aux_vrr, e)
        /\ bloqueados' = bloqueados \ {e} /\ terminados' = terminados \cup {e}
    BY <1>3 DEF FinalizarEncolado
  <2>3. /\ Veces(p, cola_ready') = Veces(p, cola_ready) - Uno(p = e /\ e \in ToSet(cola_ready))
        /\ Veces(p, cola_aux_vrr') = Veces(p, cola_aux_vrr) - Uno(p = e /\ e \in ToSet(cola_aux_vrr))
    BY <2>1, <2>2, VecesRemoveFirst
  <2>4. EnTurno(p)' = EnTurno(p)
    BY <1>1 DEF EnTurno, Veces, PidsDe, Uno
  <2>5. CASE p # e
    <3>1. /\ Uno(p \in bloqueados)' = Uno(p \in bloqueados) /\ Uno(p \in terminados)' = Uno(p \in terminados)
      BY <2>2, <2>5 DEF Uno
    <3>2. Uno(p = e /\ e \in ToSet(cola_ready)) = 0 /\ Uno(p = e /\ e \in ToSet(cola_aux_vrr)) = 0
      BY <2>5 DEF Uno
    <3>3. QED
      BY <2>3, <2>4, <3>1, <3>2, LugaresPartes DEF Lugares
  <2>6. CASE p = e
    <3>1. /\ Veces(p, cola_ready) > 0 <=> p \in ToSet(cola_ready)
          /\ Veces(p, cola_aux_vrr) > 0 <=> p \in ToSet(cola_aux_vrr)
      BY <2>1, VecesNat
    <3>2. p \in ToSet(cola_ready) \/ p \in ToSet(cola_aux_vrr) \/ p \in bloqueados
      BY <2>2, <2>6 DEF EnCola
    <3>3. Uno(p \in bloqueados) + Veces(p, cola_ready) + Veces(p, cola_aux_vrr) >= 1
      BY <3>1, <3>2, LugaresPartes DEF Uno
    <3>4. /\ Uno(p \in bloqueados) + Veces(p, cola_ready) + Veces(p, cola_aux_vrr) = 1
          /\ Uno(p \in terminados) = 0 /\ EnTurno(p) = 0
      <4>1. Uno(p \in bloqueados) \in {0, 1} /\ Uno(p \in terminados) \in {0, 1}
        BY DEF Uno
      <4>2. QED
        BY <3>3, <4>1, LugaresPartes DEF Lugares
    <3>5. /\ Uno(p = e /\ e \in ToSet(cola_ready)) = Veces(p, cola_ready)
          /\ Uno(p = e /\ e \in ToSet(cola_aux_vrr)) = Veces(p, cola_aux_vrr)
      BY <2>6, <3>1, <3>4, LugaresPartes DEF Uno
    <3>6. Uno(p \in bloqueados') = 0 /\ Uno(p \in terminados') = 1
      BY <2>2, <2>6 DEF Uno
    <3>7. Veces(p, cola_ready') = 0 /\ Veces(p, cola_aux_vrr') = 0
      BY <2>3, <3>5, LugaresPartes
    <3>8. QED
      BY <2>4, <3>4, <3>6, <3>7 DEF Lugares
  <2>7. QED
    BY <2>5, <2>6
<1>4. QED
  BY <1>2, <1>3

(* Into the CPU and out of it.                                             *)
LEMMA CpuLugares ==
  ASSUME Tipos, CpuInterrupt \/ CpuDispatch \/ Programa, NEW p \in Pids
  PROVE  Lugares(p)' = Lugares(p)
<1>1. /\ UNCHANGED <<cola_ready, cola_aux_vrr, bloqueados, terminados, desalojo>>
      /\ motivos \in Mensajes /\ despacho \in Seq(Pids) /\ TipoProcesador /\ ManoCpu
  BY DEF CpuInterrupt, CpuDispatch, Programa, CpuViva, colas, hilos, Tipos, TypeOK, TipoSockets, Mensajes, Manos
<1>2. CASE UNCHANGED <<despacho, motivos>> /\ cpu'.pcb = cpu.pcb
  BY <1>1, <1>2, LugaresQuieto
<1>3. /\ Uno(p \in bloqueados)' = Uno(p \in bloqueados) /\ Uno(p \in terminados)' = Uno(p \in terminados)
      /\ Veces(p, cola_ready)' = Veces(p, cola_ready) /\ Veces(p, cola_aux_vrr)' = Veces(p, cola_aux_vrr)
      /\ Uno(desalojo.pcb = p)' = Uno(desalojo.pcb = p)
  BY <1>1 DEF Uno, Veces
<1>4. SUFFICES ASSUME ~(UNCHANGED <<despacho, motivos>> /\ cpu'.pcb = cpu.pcb)
               PROVE  Veces(p, despacho') + Uno(cpu'.pcb = p) + Veces(p, PidsDe(motivos)')
                        = Veces(p, despacho) + Uno(cpu.pcb = p) + Veces(p, PidsDe(motivos))
  <2>1. Tipos'
    BY CpuTipos
  <2>2. Veces(p, despacho') \in Nat /\ Veces(p, PidsDe(motivos)') \in Nat /\ Uno(cpu'.pcb = p) \in {0, 1}
    BY <2>1, PidsDeTipo, VecesNat DEF Tipos, TypeOK, TipoSockets, Mensajes, Uno
  <2>3. Uno(desalojo.pcb = p) \in {0, 1}
    BY DEF Uno
  <2>4. ASSUME Veces(p, despacho') + Uno(cpu'.pcb = p) + Veces(p, PidsDe(motivos)')
                 = Veces(p, despacho) + Uno(cpu.pcb = p) + Veces(p, PidsDe(motivos))
        PROVE  EnTurno(p)' = EnTurno(p)
    BY <1>3, <2>2, <2>3, <2>4, LugaresPartes DEF EnTurno
  <2>5. QED
    BY <1>2, <1>3, <2>4 DEF Lugares
<1>5. CASE RecibirPcb
  <2>1. /\ despacho # <<>> /\ despacho' = Tail(despacho) /\ UNCHANGED motivos
        /\ cpu.pcb = NADA /\ cpu'.pcb = Head(despacho)
    BY <1>1, <1>5 DEF RecibirPcb, ManoCpu
  <2>2. Veces(p, despacho) = Veces(p, despacho') + Uno(Head(despacho) = p)
    BY <1>1, <2>1, VecesTail
  <2>3. Uno(cpu.pcb = p) = 0 /\ Uno(cpu'.pcb = p) = Uno(Head(despacho) = p)
    BY <2>1 DEF Uno
  <2>4. Tail(despacho) \in Seq(Pids)
    BY <1>1, <2>1, HeadTailProperties
  <2>5. Veces(p, despacho') \in Nat /\ PidsDe(motivos)' = PidsDe(motivos) /\ Uno(Head(despacho) = p) \in {0, 1}
    BY <2>1, <2>4, VecesNat DEF PidsDe, Uno
  <2>6. QED
    BY <2>2, <2>3, <2>5, LugaresPartes
<1>6. ASSUME NEW m \in [op : Motivos, pid : Pids], motivos' = Append(motivos, m), m.pid = cpu.pcb,
             cpu'.pcb = NADA, UNCHANGED despacho
      PROVE  Veces(p, despacho') + Uno(cpu'.pcb = p) + Veces(p, PidsDe(motivos)')
               = Veces(p, despacho) + Uno(cpu.pcb = p) + Veces(p, PidsDe(motivos))
  <2>1. PidsDe(motivos)' = Append(PidsDe(motivos), m.pid)
    <3>1. PidsDe(motivos)' = PidsDe(Append(motivos, m))
      BY <1>6 DEF PidsDe
    <3>2. QED
      BY <1>1, <3>1, PidsDeAppend
  <2>2. Veces(p, PidsDe(motivos)') = Veces(p, PidsDe(motivos)) + Uno(m.pid = p)
    BY <1>1, <2>1, PidsDeTipo, VecesAppend
  <2>3. Uno(cpu'.pcb = p) = 0 /\ Uno(m.pid = p) = Uno(cpu.pcb = p) /\ Uno(cpu.pcb = p) \in {0, 1}
    BY <1>6 DEF Uno
  <2>4. QED
    BY <1>6, <2>2, <2>3, LugaresPartes
<1>7. CASE Devolver
  <2>1. UNCHANGED despacho /\ cpu.pcb # NADA
    BY <1>1, <1>4, <1>7 DEF Devolver, TipoProcesador
  <2>2. interrupcion_cpu # "NOT_INTERRUPT"
    BY <1>1, <1>7, <2>1 DEF Devolver, ManoCpu
  <2> DEFINE m == [op |-> MotivoDe(interrupcion_cpu), pid |-> cpu.pcb]
  <2>3. m \in [op : Motivos, pid : Pids]
    BY <1>1, <2>1 DEF MotivoDe, Motivos, TipoProcesador, Pcb
  <2>4. motivos' = Append(motivos, m) /\ m.pid = cpu.pcb /\ cpu'.pcb = NADA
    BY <1>7, <2>1, <2>2 DEF Devolver
  <2> HIDE DEF m
  <2>5. QED
    BY <1>6, <2>1, <2>3, <2>4
<1>8. CASE Programa
  <2>1. PICK o \in {"M_EXIT", "M_IO"} : Ceder(o)
    BY <1>8 DEF Programa
  <2> DEFINE m == [op |-> o, pid |-> cpu.pcb]
  <2>2. /\ cpu.pcb # NADA /\ cpu'.pcb = NADA /\ UNCHANGED despacho
        /\ motivos' = Append(motivos, m) /\ m.pid = cpu.pcb
    BY <1>1, <2>1 DEF Ceder, ManoCpu
  <2>3. m \in [op : Motivos, pid : Pids]
    BY <1>1, <2>2 DEF Motivos, TipoProcesador, Pcb
  <2> HIDE DEF m
  <2>4. QED
    BY <1>6, <2>2, <2>3
<1>9. QED
  BY <1>1, <1>4, <1>5, <1>7, <1>8 DEF CpuInterrupt, CpuDispatch, Soltar, BajarFlag, TipoProcesador

-----------------------------------------------------------------------------
InvQuantum == Tipos /\ Turno /\ UnSoloLugar

LEMMA InitQuantum ==
  ASSUME Init
  PROVE  InvQuantum
<1>1. Tipos
  BY InitTipos
<1>2. /\ cola_ready = SetToSeq(Pids) /\ cola_aux_vrr = <<>> /\ bloqueados = {} /\ terminados = {}
      /\ despacho = <<>> /\ motivos = <<>> /\ cpu.pcb = NADA /\ desalojo.pcb = NADA
      /\ desalojo.pc = "recibe" /\ corto.pc = "espera"
      /\ sem.sem_Q = 0 /\ sem.sem_exec = 0 /\ sem.sem_tiempo_ejecutado = 0
  BY DEF Init
<1>3. Turno
  <2>1. Len(despacho) = 0 /\ Len(motivos) = 0
    BY <1>2
  <2>2. EnCamino = 0
    BY <1>2, <2>1 DEF EnCamino, Uno
  <2>3. QED
    BY <1>2, <2>2 DEF Turno, Uno
<1>4. UnSoloLugar
  <2>1. SUFFICES ASSUME NEW p \in Pids
                 PROVE  Lugares(p) = 1
    BY DEF UnSoloLugar, Lugares
  <2>2. Veces(p, cola_ready) = 1
    BY <1>2, SetToSeqOcurrencias, VecesOcurrencias
  <2>3. PidsDe(motivos) \in Seq(Pids) /\ Len(PidsDe(motivos)) = 0
    BY <1>1, <1>2, PidsDeTipo DEF Tipos, TypeOK, TipoSockets, Mensajes
  <2>4. Veces(p, cola_aux_vrr) = 0 /\ Veces(p, despacho) = 0 /\ Veces(p, PidsDe(motivos)) = 0
    BY <1>1, <1>2, <2>3, VecesCorta DEF Tipos, TypeOK, TipoSockets, TipoColas
  <2>5. /\ Uno(p \in bloqueados) = 0 /\ Uno(p \in terminados) = 0
        /\ Uno(cpu.pcb = p) = 0 /\ Uno(desalojo.pcb = p) = 0
    BY <1>2 DEF Uno
  <2>6. QED
    BY <2>2, <2>4, <2>5 DEF Lugares, EnTurno
<1>5. QED
  BY <1>1, <1>3, <1>4 DEF InvQuantum

LEMMA NextQuantum ==
  ASSUME InvQuantum, [Next]_vars
  PROVE  InvQuantum'
<1>1. Tipos /\ Turno /\ UnSoloLugar
  BY DEF InvQuantum
<1>2. Tipos'
  BY <1>1, NextTipos
<1>3. Turno'
  BY <1>1, CortoTurno, DesalojoTurno, CpuTurno, OtrosTurno DEF Next
<1>4. UnSoloLugar'
  <2>1. SUFFICES ASSUME NEW p \in Pids
                 PROVE  Lugares(p)' = 1
    BY DEF UnSoloLugar, Lugares
  <2>2. Lugares(p) = 1
    BY <1>1 DEF UnSoloLugar, Lugares
  <2>3. CASE PlanificadorCorto
    BY <1>1, <2>2, <2>3, CortoLugares
  <2>4. CASE MotivoDesalojo
    BY <1>1, <2>2, <2>4, DesalojoLugares
  <2>5. CASE Consola
    BY <1>1, <2>2, <2>5, ConsolaLugares
  <2>6. CASE CpuInterrupt \/ CpuDispatch \/ Programa
    BY <1>1, <2>2, <2>6, CpuLugares
  <2>7. CASE \E r \in Pids : FinDeIo(r)
    BY <1>1, <2>2, <2>7, FinDeIoLugares
  <2>8. CASE \/ \E t \in Temporizadores : RafagaCpu(t)
             \/ \E r \in FINALIZABLES : FinalizarProceso(r)
             \/ UNCHANGED vars
    BY <2>2, <2>8, LugaresQuieto DEF RafagaCpu, FinalizarProceso, vars, colas, hilos, procesador, sockets
  <2>9. QED
    BY <2>3, <2>4, <2>5, <2>6, <2>7, <2>8 DEF Next
<1>5. QED
  BY <1>2, <1>3, <1>4 DEF InvQuantum

(* One PCB on its way through the CPU is the turn of one process, and none *)
(* is the turn of nobody.                                                  *)
LEMMA TurnoDeUno ==
  ASSUME Tipos, EnCamino \in {0, 1}
  PROVE  /\ EnCamino = 0 => \A p \in Pids : EnTurno(p) = 0
         /\ EnCamino = 1 => \E e \in Pids : \A p \in Pids : EnTurno(p) = Uno(p = e)
<1>1. /\ despacho \in Seq(Pids) /\ motivos \in Mensajes
      /\ PidsDe(motivos) \in Seq(Pids) /\ Len(PidsDe(motivos)) = Len(motivos)
      /\ cpu.pcb \in Pids \cup {NADA} /\ desalojo.pcb \in Pids \cup {NADA}
  BY PidsDeTipo DEF Tipos, TypeOK, TipoSockets, Mensajes, TipoProcesador, TipoDesalojo, Pcb
<1> DEFINE s == PidsDe(motivos)
           c == Uno(cpu.pcb # NADA)
           d == Uno(desalojo.pcb # NADA)
<1>2. c \in {0, 1} /\ d \in {0, 1} /\ (c = 0 <=> cpu.pcb = NADA) /\ (d = 0 <=> desalojo.pcb = NADA)
  BY DEF Uno
<1>3. /\ EnCamino = Len(despacho) + c + Len(s) + d
      /\ Len(despacho) \in Nat /\ Len(s) \in Nat
  BY <1>1, EnCaminoPartes DEF EnCamino
<1>4. ASSUME NEW p \in Pids
      PROVE  /\ EnTurno(p) = Veces(p, despacho) + Uno(cpu.pcb = p) + Veces(p, s) + Uno(desalojo.pcb = p)
             /\ Len(despacho) = 0 => Veces(p, despacho) = 0
             /\ Len(s) = 0 => Veces(p, s) = 0
             /\ Len(despacho) = 1 => Veces(p, despacho) = Uno(p = despacho[1])
             /\ Len(s) = 1 => Veces(p, s) = Uno(p = s[1])
             /\ cpu.pcb = NADA => Uno(cpu.pcb = p) = 0
             /\ desalojo.pcb = NADA => Uno(desalojo.pcb = p) = 0
             /\ Uno(cpu.pcb = p) = Uno(p = cpu.pcb) /\ Uno(cpu.pcb = p) \in Nat
             /\ Uno(desalojo.pcb = p) = Uno(p = desalojo.pcb) /\ Uno(desalojo.pcb = p) \in Nat
             /\ Uno(p = despacho[1]) \in Nat /\ Uno(p = s[1]) \in Nat
  <2>1. /\ Len(despacho) = 0 => Veces(p, despacho) = 0
        /\ Len(despacho) = 1 => Veces(p, despacho) = Uno(p = despacho[1])
    BY <1>1, VecesCorta DEF Uno
  <2>2. /\ Len(s) = 0 => Veces(p, s) = 0
        /\ Len(s) = 1 => Veces(p, s) = Uno(p = s[1])
    <3>1. s \in Seq(Pids)
      BY <1>1
    <3>2. Head(s) = s[1]
      OBVIOUS
    <3> HIDE DEF s
    <3>3. /\ Len(s) = 0 => Veces(p, s) = 0
          /\ Len(s) = 1 => Veces(p, s) = Uno(Head(s) = p)
      BY <3>1, VecesCorta
    <3>4. QED
      BY <3>2, <3>3 DEF Uno
  <2>3. EnTurno(p) = Veces(p, despacho) + Uno(cpu.pcb = p) + Veces(p, s) + Uno(desalojo.pcb = p)
    BY DEF EnTurno
  <2>4. p # NADA
    BY ConstantesAssumption DEF ConstantesAssumption
  <2>5. /\ cpu.pcb = NADA => Uno(cpu.pcb = p) = 0
        /\ desalojo.pcb = NADA => Uno(desalojo.pcb = p) = 0
    BY <2>4 DEF Uno
  <2>6. /\ Uno(cpu.pcb = p) = Uno(p = cpu.pcb) /\ Uno(cpu.pcb = p) \in Nat
        /\ Uno(desalojo.pcb = p) = Uno(p = desalojo.pcb) /\ Uno(desalojo.pcb = p) \in Nat
        /\ Uno(p = despacho[1]) \in Nat /\ Uno(p = s[1]) \in Nat
    BY DEF Uno
  <2>7. QED
    BY <2>1, <2>2, <2>3, <2>5, <2>6
<1>5. /\ Len(despacho) = 1 => despacho[1] \in Pids
      /\ Len(s) = 1 => s[1] \in Pids
  BY <1>1
<1> HIDE DEF s, c, d
<1>6. CASE EnCamino = 0
  <2>1. Len(despacho) = 0 /\ Len(s) = 0 /\ cpu.pcb = NADA /\ desalojo.pcb = NADA
    BY <1>2, <1>3, <1>6
  <2>2. ASSUME NEW p \in Pids
        PROVE  EnTurno(p) = 0
    BY <1>4, <2>1
  <2>3. QED
    BY <1>6, <2>2
<1>7. CASE EnCamino = 1
  <2>1. ASSUME NEW e \in Pids, \A p \in Pids : EnTurno(p) = Uno(p = e)
        PROVE  \E x \in Pids : \A p \in Pids : EnTurno(p) = Uno(p = x)
    BY <2>1
  <2>2. CASE Len(despacho) = 1
    <3>1. Len(s) = 0 /\ cpu.pcb = NADA /\ desalojo.pcb = NADA
      BY <1>2, <1>3, <1>7, <2>2
    <3>2. \A p \in Pids : EnTurno(p) = Uno(p = despacho[1])
      BY <1>4, <2>2, <3>1
    <3>3. QED
      BY <1>5, <1>7, <2>1, <2>2, <3>2
  <2>3. CASE Len(s) = 1
    <3>1. Len(despacho) = 0 /\ cpu.pcb = NADA /\ desalojo.pcb = NADA
      BY <1>2, <1>3, <1>7, <2>3
    <3>2. \A p \in Pids : EnTurno(p) = Uno(p = s[1])
      BY <1>4, <2>3, <3>1
    <3>3. QED
      BY <1>5, <1>7, <2>1, <2>3, <3>2
  <2>4. CASE c = 1
    <3>1. Len(despacho) = 0 /\ Len(s) = 0 /\ desalojo.pcb = NADA /\ cpu.pcb \in Pids
      BY <1>1, <1>2, <1>3, <1>7, <2>4
    <3>2. \A p \in Pids : EnTurno(p) = Uno(p = cpu.pcb)
      BY <1>4, <3>1
    <3>3. QED
      BY <1>7, <2>1, <3>1, <3>2
  <2>5. CASE d = 1
    <3>1. Len(despacho) = 0 /\ Len(s) = 0 /\ cpu.pcb = NADA /\ desalojo.pcb \in Pids
      BY <1>1, <1>2, <1>3, <1>7, <2>5
    <3>2. \A p \in Pids : EnTurno(p) = Uno(p = desalojo.pcb)
      BY <1>4, <3>1
    <3>3. QED
      BY <1>7, <2>1, <3>1, <3>2
  <2>6. Len(despacho) = 1 \/ Len(s) = 1 \/ c = 1 \/ d = 1
    <3> DEFINE x == Len(despacho)
               y == Len(s)
    <3>1. x \in Nat /\ y \in Nat /\ x + c + y + d = 1 /\ c \in {0, 1} /\ d \in {0, 1}
      BY <1>2, <1>3, <1>7
    <3> HIDE DEF x, y
    <3>2. x = 1 \/ y = 1 \/ c = 1 \/ d = 1
      BY <3>1
    <3>3. QED
      BY <3>2 DEF x, y
  <2>7. QED
    BY <2>2, <2>3, <2>4, <2>5, <2>6
<1>8. QED
  BY <1>6, <1>7

LEMMA TurnoRelevo ==
  ASSUME Tipos, Turno
  PROVE  RelevoCoherente
<1>1. EnCamino \in {0, 1}
  BY DEF Turno, Uno
<1>2. EnCamino = 0 => \A p \in Pids : EnTurno(p) = 0
  BY <1>1, TurnoDeUno
<1>3. EnCamino = 1 => \E d \in Pids : \A p \in Pids : EnTurno(p) = Uno(p = d)
  BY <1>1, TurnoDeUno
<1>4. Repartido <=> EnCamino = 1
  BY <1>1, <1>2, <1>3 DEF Repartido, Uno
<1>5. \A p, r \in Pids : EnTurno(p) = 1 /\ EnTurno(r) = 1 => p = r
  BY <1>1, <1>2, <1>3 DEF Uno
<1>6. sem.sem_exec = Uno(corto.pc = "exec" /\ ~Repartido)
  BY <1>1, <1>4 DEF Turno, Uno
<1>7. Repartido => corto.pc \in {"Q", "cancela", "baja", "exec"}
  BY <1>4 DEF Turno, Uno
<1>8. QED
  BY <1>5, <1>6, <1>7 DEF RelevoCoherente, Turno

(* The inductive invariant is the types, the turn counted as one PCB on    *)
(* its way, and the one place of each PCB, which needs the other two: a    *)
(* PCB that leaves a socket is the one the thread then holds.  From it, no *)
(* interleaving of the planner, the timers, the evictions and              *)
(* FINALIZAR_PROCESO copies or loses a PCB or leaves a post over.          *)
THEOREM UnTurnoPorVezSiempre == Spec => []UnTurnoPorVez
<1>1. InvQuantum => UnTurnoPorVez
  BY TurnoRelevo DEF InvQuantum, UnTurnoPorVez
<1>2. Spec => []InvQuantum
  BY InitQuantum, NextQuantum, PTL DEF Spec
<1>3. QED
  BY <1>1, <1>2, PTL
=============================================================================
