----------------------------- MODULE ColasProofs -----------------------------
(***************************************************************************)
(* Proofs, for every configuration and every program, about the two queues *)
(* that are counted by a semaphore, NEW and READY, and, for one console    *)
(* thread, about the conversation with MEMORIA: a process is READY only if *)
(* MEMORIA has it, the kernel has one way to end, and no slot is lost.     *)
(***************************************************************************)
EXTENDS PlanificacionProofs

Avisando == {r \in Recursos : gestor[r].pc = "avisa"}

ColasInv == TipoInv /\ ReadyCoherente /\ NewCoherente

(* The types the steps below need.                                         *)
LEMMA TiposColas ==
  ASSUME TipoInv
  PROVE  /\ cola_new \in Seq(Pids) /\ cola_ready \in Seq(Pids)
         /\ Len(cola_new) \in Nat /\ Len(cola_ready) \in Nat
         /\ sem \in [Semaforos -> Nat]
         /\ sem["sem_corto_plazo"] \in Nat /\ sem["sem_pcb_espera_ready"] \in Nat
         /\ hilo \in [Hilos -> [pc : Pc.hilo, arg : Nat, lineas : Nat]]
         /\ largo \in [pc : Pc.largo, pid : Pids \cup {NADIE}]
         /\ gestor \in [Recursos -> [pc : Pc.gestor, pid : Pids \cup {NADIE}]]
         /\ IsFiniteSet(Avisando) /\ Cardinality(Avisando) \in Nat
         /\ IsFiniteSet(Pendientes) /\ Cardinality(Pendientes) \in Nat
<1>1. IsFiniteSet(Avisando) /\ IsFiniteSet(Pendientes)
  BY ConstantesAssumption, FS_Subset DEF Avisando, Pendientes
<1>2. Cardinality(Avisando) \in Nat /\ Cardinality(Pendientes) \in Nat
  BY <1>1, FS_CardinalityType
<1>3. sem["sem_corto_plazo"] \in Nat /\ sem["sem_pcb_espera_ready"] \in Nat
  BY DEF TipoInv, TypeOK, Semaforos
<1>4. cola_new \in Seq(Pids) /\ cola_ready \in Seq(Pids)
  BY DEF TipoInv, TypeOK, TipoColas
<1>5. Len(cola_new) \in Nat /\ Len(cola_ready) \in Nat
  BY <1>4
<1>6. QED
  BY <1>1, <1>2, <1>3, <1>4, <1>5
     DEF TipoInv, TypeOK, TipoConsola, TipoPlanificadores, TipoManejadores

(* The two sums of semaphores and wake-ups in flight.                      *)
LEMMA SumaReady ==
  ReadyCoherente <=>
    Len(cola_ready) = sem["sem_corto_plazo"] + Uno(corto = "toma")
                      + Uno(largo.pc = "lista") + Cardinality(Avisando)
  BY DEF ReadyCoherente, Avisando

(* Both counts hold at the start.                                          *)
LEMMA ColasInit == Init => ColasInv
<1> SUFFICES ASSUME Init PROVE ColasInv
  OBVIOUS
<1>1. /\ cola_new = <<>> /\ cola_ready = <<>>
      /\ corto = "espera" /\ largo.pc = "espera"
  BY DEF Init
<1>2. sem["sem_corto_plazo"] = 0 /\ sem["sem_pcb_espera_ready"] = 0
  BY DEF Init, Semaforos
<1>3. Avisando = {} /\ Pendientes = {}
  BY DEF Init, Avisando, Pendientes
<1>4. Cardinality({}) = 0
  BY FS_EmptySet
<1>5. ReadyCoherente
  BY <1>1, <1>2, <1>3, <1>4, SumaReady DEF Uno
<1>6. NewCoherente
  BY <1>1, <1>2, <1>3, <1>4 DEF NewCoherente, Uno
<1>7. QED
  BY <1>5, <1>6, TipoInit DEF ColasInv

(* The planner of the long term never removes from an empty NEW, nor the   *)
(* planner of the short term from an empty READY.                          *)
LEMMA HayPcb ==
  ASSUME ColasInv
  PROVE  /\ largo.pc = "toma" => cola_new # <<>>
         /\ corto = "toma" => cola_ready # <<>>
<1> USE TiposColas DEF ColasInv
<1>1. ASSUME largo.pc = "toma" PROVE cola_new # <<>>
  <2>1. Len(cola_new) >= 1
    BY <1>1 DEF NewCoherente, Uno
  <2>2. QED
    BY <2>1
<1>2. ASSUME corto = "toma" PROVE cola_ready # <<>>
  <2>1. Len(cola_ready) >= 1
    BY <1>2, SumaReady DEF Uno
  <2>2. QED
    BY <2>1
<1>3. QED
  BY <1>1, <1>2

-----------------------------------------------------------------------------
(* READY: the steps of the long-term planner.                              *)
LEMMA ReadyLargo ==
  ASSUME ColasInv, PlanificadorLargo
  PROVE  ReadyCoherente'
<1> USE TiposColas DEF ColasInv
<1>1. Avisando' = Avisando /\ corto' = corto
  BY DEF PlanificadorLargo, Avisando
<1>2. SUFFICES Len(cola_ready') = sem'["sem_corto_plazo"] + Uno(corto = "toma")
                                  + Uno(largo'.pc = "lista") + Cardinality(Avisando)
  BY <1>1 DEF ReadyCoherente, Avisando
<1> HIDE DEF Avisando
<1>3. Len(cola_ready) = sem["sem_corto_plazo"] + Uno(corto = "toma")
                        + Uno(largo.pc = "lista") + Cardinality(Avisando)
  BY SumaReady
<1>4. CASE LargoIngresa
  <2>1. Len(cola_ready') = Len(cola_ready) + 1
    BY <1>4 DEF LargoIngresa
  <2>2. QED
    BY <1>3, <1>4, <2>1 DEF LargoIngresa, Uno
<1>5. CASE LargoAvisa
  <2>1. sem'["sem_corto_plazo"] = sem["sem_corto_plazo"] + 1
    BY <1>5 DEF LargoAvisa, SemPost, Semaforos
  <2>2. QED
    BY <1>3, <1>5, <2>1 DEF LargoAvisa, Uno
<1>6. CASE LargoEspera \/ LargoToma \/ LargoCompuerta \/ LargoReanuda
  <2>1. cola_ready' = cola_ready /\ sem'["sem_corto_plazo"] = sem["sem_corto_plazo"]
    BY <1>6 DEF LargoEspera, LargoToma, LargoCompuerta, LargoReanuda, SemWait,
                Semaforos
  <2>2. largo.pc # "lista" /\ largo'.pc # "lista"
    BY <1>6 DEF LargoEspera, LargoToma, LargoCompuerta, LargoReanuda
  <2>3. QED
    BY <1>3, <2>1, <2>2 DEF Uno
<1>7. QED
  BY <1>4, <1>5, <1>6 DEF PlanificadorLargo

(* The steps of the short-term planner.                                    *)
LEMMA ReadyCorto ==
  ASSUME ColasInv, PlanificadorCorto
  PROVE  ReadyCoherente'
<1> USE TiposColas DEF ColasInv
<1>1. Avisando' = Avisando /\ largo' = largo
  BY DEF PlanificadorCorto, Avisando
<1>2. SUFFICES Len(cola_ready') = sem'["sem_corto_plazo"] + Uno(corto' = "toma")
                                  + Uno(largo.pc = "lista") + Cardinality(Avisando)
  BY <1>1 DEF ReadyCoherente, Avisando
<1> HIDE DEF Avisando
<1>3. Len(cola_ready) = sem["sem_corto_plazo"] + Uno(corto = "toma")
                        + Uno(largo.pc = "lista") + Cardinality(Avisando)
  BY SumaReady
<1>4. CASE CortoEspera
  <2>1. sem'["sem_corto_plazo"] = sem["sem_corto_plazo"] - 1
    BY <1>4 DEF CortoEspera, SemWait, Semaforos
  <2>2. corto = "espera" /\ corto' = "toma" /\ cola_ready' = cola_ready
    BY <1>4 DEF CortoEspera
  <2>3. Uno(corto = "toma") = 0 /\ Uno(corto' = "toma") = 1 /\ Uno(largo.pc = "lista") \in {0, 1}
    BY <2>2 DEF Uno
  <2>4. QED
    BY <1>3, <2>1, <2>2, <2>3
<1>5. CASE CortoDespacha
  <2>1. cola_ready # <<>>
    BY <1>5, HayPcb DEF CortoDespacha
  <2>2. Len(cola_ready') = Len(cola_ready) - 1
    BY <1>5, <2>1 DEF CortoDespacha
  <2>3. corto = "toma" /\ corto' # "toma" /\ sem' = sem
    BY <1>5, <2>1 DEF CortoDespacha
  <2>4. Uno(corto = "toma") = 1 /\ Uno(corto' = "toma") = 0
    BY <2>3 DEF Uno
  <2>5. Uno(largo.pc = "lista") \in Nat
    BY DEF Uno
  <2>6. QED
    BY <1>3, <2>2, <2>3, <2>4, <2>5
<1>6. CASE CortoFinExec \/ CortoCompuerta \/ CortoReanuda
  <2>1. cola_ready' = cola_ready /\ sem'["sem_corto_plazo"] = sem["sem_corto_plazo"]
    BY <1>6 DEF CortoFinExec, CortoCompuerta, CortoReanuda, SemWait, Semaforos
  <2>2. corto # "toma" /\ corto' # "toma"
    BY <1>6 DEF CortoFinExec, CortoCompuerta, CortoReanuda
  <2>3. QED
    BY <1>3, <2>1, <2>2 DEF Uno
<1>7. QED
  BY <1>4, <1>5, <1>6 DEF PlanificadorCorto

(* A wake-up leaves the manager for the semaphore.                         *)
LEMMA SumaPasa ==
  \A a, b, c, d \in Nat : a + b + c + d = (a + 1) + b + c + (d - 1)
OBVIOUS

(* The steps of the manager of one resource.                               *)
LEMMA ReadyGestor ==
  ASSUME ColasInv, NEW r \in Recursos, Gestor(r)
  PROVE  ReadyCoherente'
<1> USE TiposColas DEF ColasInv
<1>1. largo' = largo /\ corto' = corto
  BY DEF Gestor
<1>2. SUFFICES Len(cola_ready') = sem'["sem_corto_plazo"] + Uno(corto = "toma")
                                  + Uno(largo.pc = "lista") + Cardinality(Avisando')
  BY <1>1 DEF ReadyCoherente, Avisando
<1>3. Len(cola_ready) = sem["sem_corto_plazo"] + Uno(corto = "toma")
                        + Uno(largo.pc = "lista") + Cardinality(Avisando)
  BY SumaReady
<1>4. Uno(corto = "toma") \in Nat /\ Uno(largo.pc = "lista") \in Nat
  BY DEF Uno
<1>5. CASE GestorIngresa(r)
  <2>1. Avisando' = Avisando \cup {r} /\ r \notin Avisando
    BY <1>5 DEF GestorIngresa, Avisando
  <2>2. Cardinality(Avisando') = Cardinality(Avisando) + 1
    BY <2>1, FS_AddElement
  <2>3. Len(cola_ready') = Len(cola_ready) + 1
    BY <1>5 DEF GestorIngresa
  <2>4. sem' = sem
    BY <1>5 DEF GestorIngresa
  <2>5. QED
    BY <1>3, <1>4, <2>2, <2>3, <2>4
<1>6. CASE GestorAvisa(r)
  <2>1. Avisando' = Avisando \ {r} /\ r \in Avisando
    BY <1>6 DEF GestorAvisa, IrGestor, Avisando
  <2>2. Cardinality(Avisando') = Cardinality(Avisando) - 1
    BY <2>1, FS_RemoveElement
  <2>3. sem'["sem_corto_plazo"] = sem["sem_corto_plazo"] + 1
    BY <1>6 DEF GestorAvisa, SemPost, Semaforos
  <2>4. Len(cola_ready') = Len(cola_ready)
    BY <1>6 DEF GestorAvisa
  <2>5. PICK a, b, c, d \in Nat : /\ a = sem["sem_corto_plazo"] /\ b = Uno(corto = "toma")
                                  /\ c = Uno(largo.pc = "lista") /\ d = Cardinality(Avisando)
    BY <1>4
  <2>6. a + b + c + d = (a + 1) + b + c + (d - 1)
    BY SumaPasa
  <2>7. QED
    BY <1>3, <2>2, <2>3, <2>4, <2>5, <2>6
<1>7. CASE \/ GestorEsperaBlock(r) \/ GestorEsperaInstancia(r)
           \/ GestorAsigna(r) \/ GestorSaca(r)
  <2>1. cola_ready' = cola_ready /\ sem' = sem
    BY <1>7 DEF GestorEsperaBlock, GestorEsperaInstancia, GestorAsigna, GestorSaca
  <2>2. gestor[r].pc # "avisa" /\ gestor'[r].pc # "avisa"
    BY <1>7 DEF GestorEsperaBlock, GestorEsperaInstancia, GestorAsigna,
                GestorSaca, IrGestor
  <2>3. \A q \in Recursos \ {r} : gestor'[q] = gestor[q]
    BY <1>7 DEF GestorEsperaBlock, GestorEsperaInstancia, GestorAsigna,
                GestorSaca, IrGestor
  <2>4. Avisando' = Avisando
    BY <2>2, <2>3 DEF Avisando
  <2>5. QED
    BY <1>3, <2>1, <2>4
<1>8. QED
  BY <1>5, <1>6, <1>7 DEF Gestor

(* The other threads leave READY and what counts it alone.                 *)
LEMMA ReadyAjenos ==
  ASSUME ColasInv, UNCHANGED <<cola_ready, largo, corto, gestor>>,
         sem'["sem_corto_plazo"] = sem["sem_corto_plazo"]
  PROVE  ReadyCoherente'
  BY DEF ColasInv, ReadyCoherente

(* What the other threads leave alone.                                     *)
LEMMA SemCortoAjeno ==
  ASSUME TipoInv,
         \/ \E h \in Hilos : Orden(h) \/ Consola(h)
         \/ HiloMultiprogramacion \/ ConectarInterfaz \/ AtenderKernel \/ Cpu \/ Desalojo
         \/ UNCHANGED vars
  PROVE  /\ UNCHANGED <<cola_ready, largo, corto, gestor>>
         /\ sem'["sem_corto_plazo"] = sem["sem_corto_plazo"]
<1> USE TiposColas DEF SemWait, SemPost, Semaforos
<1>1. CASE \E h \in Hilos : Orden(h)
  BY <1>1 DEF Orden, CrearPcb, Multiprogramacion, DetenerPlanificacion,
              IniciarPlanificacion
<1>2. CASE \E h \in Hilos : Consola(h)
  <2>1. PICK h \in Hilos : Consola(h)
    BY <1>2
  <2>2. CASE IngresarANew(h) \/ RecibirResultado(h) \/ ErrorAlCrear(h)
             \/ DescartarDeNew(h) \/ FijarGrado(h)
    BY <2>1, <2>2 DEF Consola, IngresarANew, RecibirResultado, ErrorAlCrear,
                      DescartarDeNew, FijarGrado
  <2>5. CASE \/ RetenerNew(h) \/ RetenerReady(h) \/ RetenerBlock(h) \/ BajarPlanificacion(h)
             \/ LiberarNew(h) \/ LiberarReady(h) \/ LiberarBlock(h) \/ LevantarPlanificacion(h)
    BY <2>1, <2>5 DEF Consola, RetenerNew, RetenerReady, RetenerBlock, BajarPlanificacion,
     LiberarNew, LiberarReady, LiberarBlock, LevantarPlanificacion
  <2>3. CASE EnviarProcesoMemoria(h) \/ ProcesoCreado(h) \/ DetenerCorto(h)
             \/ DetenerLargo(h) \/ Reanudar(h)
    BY <2>1, <2>3 DEF Consola, EnviarProcesoMemoria, ProcesoCreado,
                      DetenerCorto, DetenerLargo, Reanudar
  <2>4. QED
    BY <2>1, <2>2, <2>3, <2>5 DEF Consola
<1>3. CASE HiloMultiprogramacion \/ ConectarInterfaz
  BY <1>3 DEF HiloMultiprogramacion, BajarMultiprogramacion, ConectarInterfaz
<1>4. CASE AtenderKernel \/ Cpu
  BY <1>4 DEF AtenderKernel, Cpu
<1>5. CASE Desalojo
  <2>1. CASE RecibirMotivo \/ ManejarWaitSignal
    BY <1>5, <2>1 DEF Desalojo, RecibirMotivo, ManejarWaitSignal
  <2>2. CASE ManejarExit
    BY <1>5, <2>2 DEF Desalojo, ManejarExit, ExitLibera, ExitConfirma,
                      AbortarPorDobleFree, FinDesalojo
  <2>3. QED
    BY <1>5, <2>1, <2>2 DEF Desalojo
<1>6. CASE UNCHANGED vars
  BY <1>6 DEF vars
<1>7. QED
  BY <1>1, <1>2, <1>3, <1>4, <1>5, <1>6

-----------------------------------------------------------------------------
(* NEW: the steps of a console thread.                                     *)
LEMMA NewConsola ==
  ASSUME ColasInv, NEW h \in Hilos, Orden(h) \/ Consola(h)
  PROVE  NewCoherente'
<1> USE TiposColas DEF ColasInv
<1>1. largo' = largo
  BY DEF Orden, Consola
<1>2. SUFFICES Len(cola_new') >= sem'["sem_pcb_espera_ready"]
                 + Uno(largo.pc = "toma") + Cardinality(Pendientes')
  BY <1>1 DEF NewCoherente
<1> DEFINE Pend == {"cupo", "recibe", "evalua", "descarta"}
<1>3. Len(cola_new) >= sem["sem_pcb_espera_ready"]
        + Uno(largo.pc = "toma") + Cardinality(Pendientes)
  BY DEF NewCoherente
<1>4. Uno(largo.pc = "toma") \in Nat
  BY DEF Uno
<1>5. \A g \in Hilos \ {h} : hilo'[g] = hilo[g]
  BY DEF Orden, CrearPcb, Multiprogramacion, DetenerPlanificacion,
         IniciarPlanificacion, Ejecutar, Consola, IngresarANew,
         EnviarProcesoMemoria, RecibirResultado, ProcesoCreado, ErrorAlCrear,
         DescartarDeNew, FijarGrado, DetenerCorto, DetenerLargo, RetenerNew, RetenerReady, RetenerBlock, BajarPlanificacion,
     LiberarNew, LiberarReady, LiberarBlock, LevantarPlanificacion,
         Reanudar, IrHilo, IrHiloCon
<1>6. hilo[h].pc \in Pend <=> h \in Pendientes
  BY DEF Pendientes
<1>7. ASSUME hilo'[h].pc \in Pend <=> hilo[h].pc \in Pend
      PROVE  Pendientes' = Pendientes
  BY <1>5, <1>7 DEF Pendientes
<1>8. CASE Orden(h) \/ FijarGrado(h) \/ DetenerCorto(h) \/ DetenerLargo(h)
           \/ RetenerNew(h) \/ RetenerReady(h) \/ RetenerBlock(h) \/ BajarPlanificacion(h)
           \/ LiberarNew(h) \/ LiberarReady(h) \/ LiberarBlock(h) \/ LevantarPlanificacion(h)
           \/ Reanudar(h)
  <2>1. hilo[h].pc \notin Pend /\ hilo'[h].pc \notin Pend
    BY <1>8 DEF Orden, Comando, CrearPcb, Multiprogramacion,
                DetenerPlanificacion, IniciarPlanificacion, Ejecutar,
                FijarGrado, DetenerCorto, DetenerLargo, RetenerNew, RetenerReady, RetenerBlock, BajarPlanificacion,
     LiberarNew, LiberarReady, LiberarBlock, LevantarPlanificacion, Reanudar,
                IrHilo, IrHiloCon
  <2>2. cola_new' = cola_new /\ sem'["sem_pcb_espera_ready"] = sem["sem_pcb_espera_ready"]
    BY <1>8 DEF Orden, CrearPcb, Multiprogramacion, DetenerPlanificacion,
                IniciarPlanificacion, FijarGrado, DetenerCorto, DetenerLargo,
                RetenerNew, RetenerReady, RetenerBlock, BajarPlanificacion,
     LiberarNew, LiberarReady, LiberarBlock, LevantarPlanificacion, Reanudar, alta, SemWait, Semaforos
  <2>3. QED
    BY <1>3, <1>7, <2>1, <2>2
<1>9. CASE EnviarProcesoMemoria(h) \/ RecibirResultado(h) \/ ErrorAlCrear(h)
  <2>1. hilo[h].pc \in Pend /\ hilo'[h].pc \in Pend
    BY <1>9 DEF EnviarProcesoMemoria, RecibirResultado, ErrorAlCrear, IrHilo
  <2>2. cola_new' = cola_new /\ sem'["sem_pcb_espera_ready"] = sem["sem_pcb_espera_ready"]
    BY <1>9 DEF EnviarProcesoMemoria, RecibirResultado, ErrorAlCrear, alta,
                SemWait, Semaforos
  <2>3. QED
    BY <1>3, <1>7, <2>1, <2>2
<1>10. CASE IngresarANew(h)
  <2>1. hilo[h].pc \notin Pend /\ hilo'[h].pc \in Pend
    BY <1>10 DEF IngresarANew, IrHilo
  <2>2. Pendientes' = Pendientes \cup {h} /\ h \notin Pendientes
    BY <1>5, <2>1 DEF Pendientes
  <2>3. Cardinality(Pendientes') = Cardinality(Pendientes) + 1
    BY <2>2, FS_AddElement
  <2>4. Len(cola_new') = Len(cola_new) + 1 /\ sem' = sem
    BY <1>10 DEF IngresarANew
  <2>5. QED
    BY <1>3, <1>4, <2>3, <2>4
<1>11. CASE ProcesoCreado(h)
  <2>1. hilo[h].pc \in Pend /\ hilo'[h].pc \notin Pend
    BY <1>11 DEF ProcesoCreado, IrHiloCon
  <2>2. Pendientes' = Pendientes \ {h} /\ h \in Pendientes
    BY <1>5, <2>1 DEF Pendientes
  <2>3. Cardinality(Pendientes') = Cardinality(Pendientes) - 1
    BY <2>2, FS_RemoveElement
  <2>4. /\ cola_new' = cola_new
        /\ sem'["sem_pcb_espera_ready"] = sem["sem_pcb_espera_ready"] + 1
    BY <1>11 DEF ProcesoCreado, SemPost, Semaforos
  <2>5. PICK a, b, c, d \in Nat : /\ a = Len(cola_new) /\ b = sem["sem_pcb_espera_ready"]
                                 /\ c = Uno(largo.pc = "toma") /\ d = Cardinality(Pendientes)
    BY <1>4
  <2>6. a >= b + c + d => a >= (b + 1) + c + (d - 1)
    OBVIOUS
  <2>7. QED
    BY <1>3, <2>3, <2>4, <2>5, <2>6
<1>12. CASE DescartarDeNew(h)
  <2>1. hilo[h].pc \in Pend /\ hilo'[h].pc \notin Pend
    BY <1>12 DEF DescartarDeNew, IrHiloCon
  <2>2. Pendientes' = Pendientes \ {h} /\ h \in Pendientes
    BY <1>5, <2>1 DEF Pendientes
  <2>3. Cardinality(Pendientes') = Cardinality(Pendientes) - 1
    BY <2>2, FS_RemoveElement
  <2>4. /\ cola_new' = RemoveFirst(cola_new, hilo[h].arg)
        /\ sem' = sem
    BY <1>12 DEF DescartarDeNew
  <2>5. cola_new' \in Seq(Pids) /\ Len(cola_new') >= Len(cola_new) - 1
    BY <2>4, RemoveFirstTipo
  <2>6. Len(cola_new') \in Nat
    BY <2>5
  <2>7. QED
    BY <1>3, <1>4, <2>3, <2>4, <2>5, <2>6
<1>13. QED
  BY <1>8, <1>9, <1>10, <1>11, <1>12 DEF Consola

(* The steps of the long-term planner.                              *)
LEMMA NewLargo ==
  ASSUME ColasInv, PlanificadorLargo
  PROVE  NewCoherente'
<1> USE TiposColas DEF ColasInv
<1>1. hilo' = hilo /\ Pendientes' = Pendientes
  BY DEF PlanificadorLargo, consola, Pendientes
<1>2. SUFFICES Len(cola_new') >= sem'["sem_pcb_espera_ready"]
                 + Uno(largo'.pc = "toma") + Cardinality(Pendientes)
  BY <1>1 DEF NewCoherente
<1>3. Len(cola_new) >= sem["sem_pcb_espera_ready"]
        + Uno(largo.pc = "toma") + Cardinality(Pendientes)
  BY DEF NewCoherente
<1>4. CASE LargoEspera
  <2>1. /\ sem'["sem_pcb_espera_ready"] = sem["sem_pcb_espera_ready"] - 1
        /\ cola_new' = cola_new /\ largo.pc = "espera"
    BY <1>4 DEF LargoEspera, SemWait, Semaforos
  <2>2. QED
    BY <1>3, <1>4, <2>1 DEF LargoEspera, Uno
<1>5. CASE LargoToma
  <2>1. cola_new # <<>>
    BY <1>5, HayPcb DEF LargoToma
  <2>2. /\ Len(cola_new') = Len(cola_new) - 1 /\ sem' = sem
        /\ largo.pc = "toma" /\ largo'.pc # "toma"
    BY <1>5, <2>1 DEF LargoToma
  <2>3. QED
    BY <1>3, <2>2 DEF Uno
<1>6. CASE LargoIngresa \/ LargoAvisa \/ LargoCompuerta \/ LargoReanuda
  <2>1. /\ cola_new' = cola_new
        /\ sem'["sem_pcb_espera_ready"] = sem["sem_pcb_espera_ready"]
    BY <1>6 DEF LargoIngresa, LargoAvisa, LargoCompuerta, LargoReanuda,
                SemWait, SemPost, Semaforos
  <2>2. largo.pc # "toma" /\ largo'.pc # "toma"
    BY <1>6 DEF LargoIngresa, LargoAvisa, LargoCompuerta, LargoReanuda
  <2>3. QED
    BY <1>3, <2>1, <2>2 DEF Uno
<1>7. QED
  BY <1>4, <1>5, <1>6 DEF PlanificadorLargo

(* The steps of the other threads.                                         *)
LEMMA NewAjenos ==
  ASSUME ColasInv,
         \/ HiloMultiprogramacion \/ ConectarInterfaz \/ PlanificadorCorto \/ AtenderKernel
         \/ Cpu \/ Desalojo \/ (\E r \in Recursos : Gestor(r))
         \/ UNCHANGED vars
  PROVE  NewCoherente'
<1> USE TiposColas DEF ColasInv, SemWait, SemPost, Semaforos
<1>1. SUFFICES /\ cola_new' = cola_new /\ largo' = largo /\ hilo' = hilo
               /\ sem'["sem_pcb_espera_ready"] = sem["sem_pcb_espera_ready"]
  BY DEF NewCoherente, Pendientes
<1>2. CASE HiloMultiprogramacion \/ ConectarInterfaz
  BY <1>2 DEF HiloMultiprogramacion, BajarMultiprogramacion, ConectarInterfaz, alta
<1>3. CASE PlanificadorCorto
  BY <1>3 DEF PlanificadorCorto, CortoEspera, CortoDespacha, CortoFinExec,
              CortoCompuerta, CortoReanuda, consola
<1>4. CASE AtenderKernel \/ Cpu
  BY <1>4 DEF AtenderKernel, Cpu, consola
<1>5. CASE Desalojo
  <2>1. CASE RecibirMotivo \/ ManejarWaitSignal
    BY <1>5, <2>1 DEF Desalojo, RecibirMotivo, ManejarWaitSignal, consola
  <2>2. CASE ManejarExit
    BY <1>5, <2>2 DEF Desalojo, ManejarExit, ExitLibera, ExitConfirma,
                      AbortarPorDobleFree, FinDesalojo, consola
  <2>3. QED
    BY <1>5, <2>1, <2>2 DEF Desalojo
<1>6. CASE \E r \in Recursos : Gestor(r)
  <2>1. PICK r \in Recursos : Gestor(r)
    BY <1>6
  <2>2. CASE GestorAvisa(r)
    BY <2>1, <2>2 DEF Gestor, GestorAvisa, consola
  <2>3. CASE ~GestorAvisa(r)
    BY <2>1, <2>3 DEF Gestor, GestorEsperaBlock, GestorEsperaInstancia,
                      GestorAsigna, GestorSaca, GestorIngresa, consola
  <2>4. QED
    BY <2>2, <2>3
<1>7. CASE UNCHANGED vars
  BY <1>7 DEF vars, consola
<1>8. QED
  BY <1>2, <1>3, <1>4, <1>5, <1>6, <1>7

-----------------------------------------------------------------------------
(* Every step.                                                             *)
LEMMA ColasPaso == ColasInv /\ [Next]_vars => ColasInv'
<1> SUFFICES ASSUME ColasInv, [Next]_vars PROVE ColasInv'
  OBVIOUS
<1>1. TipoInv'
  BY TipoPaso DEF ColasInv
<1>2. ReadyCoherente'
  <2>1. CASE \/ PlanificadorLargo \/ PlanificadorCorto
             \/ \E r \in Recursos : Gestor(r)
    BY <2>1, ReadyLargo, ReadyCorto, ReadyGestor
  <2>2. CASE \/ \E h \in Hilos : Orden(h) \/ Consola(h)
             \/ HiloMultiprogramacion \/ ConectarInterfaz \/ AtenderKernel \/ Cpu \/ Desalojo
             \/ UNCHANGED vars
    BY <2>2, SemCortoAjeno, ReadyAjenos DEF ColasInv
  <2>3. QED
    BY <2>1, <2>2 DEF Next
<1>3. NewCoherente'
  BY NewConsola, NewLargo, NewAjenos DEF Next
<1>4. QED
  BY <1>1, <1>2, <1>3 DEF ColasInv

(* Both counts hold always.                                                *)
LEMMA ColasInvariante == Spec => []ColasInv
  BY ColasInit, ColasPaso, PTL DEF Spec

(* sem_corto_plazo and the wake-ups in flight count cola_ready exactly.    *)
THEOREM ReadyContada == Spec => []ReadyCoherente
<1>1. ColasInv => ReadyCoherente
  BY DEF ColasInv
<1>2. QED
  BY <1>1, ColasInvariante, PTL

(* NEW holds a PCB for every count of sem_pcb_espera_ready.                *)
THEOREM NewContada == Spec => []NewCoherente
<1>1. ColasInv => NewCoherente
  BY DEF ColasInv
<1>2. QED
  BY <1>1, ColasInvariante, PTL

(* Neither planner ever takes a PCB that is not there: no step of theirs   *)
(* ends the kernel.                                                        *)
THEOREM PlanificadoresConPcb ==
  Spec => [][PlanificadorLargo \/ PlanificadorCorto => UNCHANGED kernel]_vars
<1>1. ColasInv /\ [Next]_vars
        => [PlanificadorLargo \/ PlanificadorCorto => UNCHANGED kernel]_vars
  <2> SUFFICES ASSUME ColasInv, PlanificadorLargo \/ PlanificadorCorto
               PROVE  UNCHANGED kernel
    OBVIOUS
  <2>1. CASE PlanificadorLargo
    BY <2>1, HayPcb DEF PlanificadorLargo, LargoEspera, LargoToma,
                        LargoIngresa, LargoAvisa, LargoCompuerta, LargoReanuda
  <2>2. CASE PlanificadorCorto
    BY <2>2, HayPcb DEF PlanificadorCorto, CortoEspera, CortoDespacha,
                        CortoFinExec, CortoCompuerta, CortoReanuda
  <2>3. QED
    BY <2>1, <2>2
<1>2. QED
  BY <1>1, ColasInvariante, PTL DEF Spec

-----------------------------------------------------------------------------
(* A process runs only if MEMORIA has it.  This needs one console thread   *)
(* (the post of sem_pcb_espera_ready does not say for which process it is) *)
(* replies taken by the thread that asked, and no interface that connects  *)
(* and writes the global result meanwhile.                                 *)
DeAUna == EN_ORDEN /\ ~INTERFACES /\ \A h, k \in Hilos : h = k

(* Where a thread is that admits nobody.                                   *)
SinAdmitir == {"fija", "reanuda"} \cup Parando \cup Abriendo

(* The conversation with MEMORIA: each message is from a thread that waits *)
(* for its answer, no thread has two, and an answer says what was done.    *)
Espera(q) == IF q = "desalojo" THEN desalojo.pc = "exit_recibe" ELSE hilo[q].pc = "recibe"

PedidoBien(m) ==
  IF m.quien = "desalojo"
  THEN m.op = "ELIMINAR_PROCESO" /\ m.pid = desalojo.pid /\ m.pid \in memoria
  ELSE m.op = "CREAR_PROCESO" /\ m.pid = hilo[m.quien].arg

RespuestaBien(m) ==
  IF m.quien = "desalojo" THEN m.valor = OK
  ELSE m.valor = OK => hilo[m.quien].arg \in memoria

Esta(m, cola) == \E i \in DOMAIN cola : cola[i] = m

Dialogo ==
  /\ \A m \in Pedido : Esta(m, pedidos) => Espera(m.quien) /\ PedidoBien(m)
  /\ \A m \in Respuesta : Esta(m, respuestas) => Espera(m.quien) /\ RespuestaBien(m)
  /\ \A i, j \in DOMAIN pedidos : pedidos[i].quien = pedidos[j].quien => i = j
  /\ \A i, j \in DOMAIN respuestas : respuestas[i].quien = respuestas[j].quien => i = j
  /\ \A i \in DOMAIN pedidos, j \in DOMAIN respuestas : pedidos[i].quien # respuestas[j].quien

(* NEW: MEMORIA has every process but the one that is being created, which *)
(* is the last.                                                            *)
NewEnMemoria ==
  /\ \A h \in Pendientes : cola_new # <<>> /\ cola_new[Len(cola_new)] = hilo[h].arg
  /\ \A h \in Hilos : hilo[h].pc = "evalua" /\ result = OK => hilo[h].arg \in memoria
  /\ \A i \in DOMAIN cola_new : \/ cola_new[i] \in memoria
                                \/ i = Len(cola_new) /\ Pendientes # {}

(* From there on MEMORIA has it, until manejar_exit asks for its end.      *)
Saliendo(p) == desalojo.pid = p /\ desalojo.pc = "exit_recibe"

Asentado(p) ==
  \/ Veces(p, cola_ready) > 0 \/ largo.pid = p \/ EnAlgunBlock(p)
  \/ EnExec(p) > 0 /\ ~Saliendo(p)

AsentadosEnMemoria == \A p \in Pids : Asentado(p) => p \in memoria

ConMemoriaInv ==
  /\ ColasInv /\ UnLugarInv /\ Dialogo /\ NewEnMemoria /\ AsentadosEnMemoria
  /\ cpu.pc # "colgada" /\ SoloAbortaPorDobleFree

(* What the steps need to know of the lists.                               *)
LEMMA ElementosAppend ==
  ASSUME NEW S, NEW s \in Seq(S), NEW m \in S
  PROVE  /\ Append(s, m) \in Seq(S) /\ Append(s, m) # <<>>
         /\ Len(Append(s, m)) = Len(s) + 1 /\ Append(s, m)[Len(s) + 1] = m
         /\ \A i \in DOMAIN Append(s, m) : \/ i \in DOMAIN s /\ i # Len(s) + 1 /\ Append(s, m)[i] = s[i]
                                           \/ i = Len(s) + 1 /\ Append(s, m)[i] = m
<1>1. /\ Append(s, m) \in Seq(S) /\ Len(Append(s, m)) = Len(s) + 1 /\ Append(s, m) # <<>>
      /\ \A i \in 1 .. Len(s) : Append(s, m)[i] = s[i]
      /\ Append(s, m)[Len(s) + 1] = m
  BY AppendProperties
<1>2. /\ DOMAIN s = 1 .. Len(s) /\ Len(s) \in Nat
      /\ DOMAIN Append(s, m) = 1 .. Len(s) + 1
  BY <1>1, LenProperties
<1>3. \A i \in 1 .. Len(s) + 1 : (i \in 1 .. Len(s) /\ i # Len(s) + 1) \/ i = Len(s) + 1
  BY <1>2
<1>4. QED
  BY <1>1, <1>2, <1>3

LEMMA ElementosTail ==
  ASSUME NEW S, NEW s \in Seq(S), s # <<>>
  PROVE  /\ Tail(s) \in Seq(S) /\ 1 \in DOMAIN s /\ Head(s) = s[1] /\ Head(s) \in S
         /\ Len(Tail(s)) = Len(s) - 1 /\ Len(s) \in Nat /\ Len(s) >= 1
         /\ \A i \in DOMAIN Tail(s) : i \in Nat /\ i + 1 \in DOMAIN s /\ i + 1 # 1 /\ Tail(s)[i] = s[i + 1]
<1>1. /\ Head(s) \in S /\ Tail(s) \in Seq(S) /\ Len(Tail(s)) = Len(s) - 1 /\ Head(s) = s[1]
      /\ \A i \in 1 .. Len(Tail(s)) : Tail(s)[i] = s[i + 1]
  BY HeadTailProperties
<1>2. DOMAIN s = 1 .. Len(s) /\ Len(s) \in Nat /\ Len(s) # 0 /\ DOMAIN Tail(s) = 1 .. Len(Tail(s))
  BY <1>1, LenProperties, EmptySeq
<1>3. Len(s) >= 1
  BY <1>2
<1>4. ASSUME NEW i \in 1 .. Len(Tail(s))
      PROVE  i \in Nat /\ i + 1 \in 1 .. Len(s) /\ i + 1 # 1
  BY <1>1, <1>2
<1>5. QED
  BY <1>1, <1>2, <1>3, <1>4

(* A process that is leaving is nowhere else.                              *)
SolaSalida(p) ==
  Saliendo(p) => /\ ~Asentado(p) /\ EnNew(p) = 0 /\ p \notin ToSet(cola_new)
                 /\ Veces(p, despacho) = 0 /\ cpu.pid # p /\ EnMotivos(p) = 0

LEMMA SalidaSola ==
  ASSUME UnLugarInv, NEW p \in Pids
  PROVE  SolaSalida(p)
<1> SUFFICES ASSUME Saliendo(p)
             PROVE  /\ ~Asentado(p) /\ EnNew(p) = 0 /\ p \notin ToSet(cola_new)
                    /\ Veces(p, despacho) = 0 /\ cpu.pid # p /\ EnMotivos(p) = 0
  BY DEF SolaSalida
<1>1. TipoInv /\ Separado(p)
  BY DEF UnLugarInv
<1>2. PICK n, l, e \in Nat : n = EnNew(p) /\ l = Veces(p, cola_ready) /\ e = EnExec(p)
  BY <1>1, CuentasNat
<1>3. PICK a, b, c, d \in Nat : a = Veces(p, despacho) /\ b = EnMotivos(p) /\ c = Uno(cpu.pid = p) /\ d = Uno(EnDesalojo(p))
  BY <1>1, CuentasNat
<1>4. e = a + c + d + b
  BY <1>2, <1>3 DEF EnExec, EnMotivos
<1>5. d = 1
  BY <1>3 DEF EnDesalojo, Saliendo, Uno
<1>6. n + l + e <= 1
  BY <1>1, <1>2 DEF Separado, Suelto
<1>7. n = 0 /\ l = 0 /\ e = 1 /\ a = 0 /\ b = 0 /\ c = 0
  BY <1>4, <1>5, <1>6
<1>8. cpu.pid # p
  BY <1>3, <1>7 DEF Uno
<1>9. ~EnAlgunBlock(p)
  BY <1>1, <1>2, <1>7 DEF EnAlgunBlock, Separado, Suelto
<1>10. Veces(p, cola_new) = 0 /\ largo.pid # p
  <2>1. PICK x, y \in Nat : x = Veces(p, cola_new) /\ y = Uno(largo.pid = p)
    BY <1>1, CuentasNat
  <2>2. x + y = 0
    BY <1>2, <1>7, <2>1 DEF EnNew
  <2>3. x = 0 /\ y = 0
    BY <2>2
  <2>4. QED
    BY <2>1, <2>3 DEF Uno
<1>11. p \notin ToSet(cola_new)
  <2>1. cola_new \in Seq(Pids)
    BY <1>1 DEF TipoInv, TypeOK, TipoColas
  <2>2. Ocurrencias(p, cola_new) = 0
    BY <1>10, VecesOcurrencias
  <2>3. ~(Ocurrencias(p, cola_new) > 0)
    BY <2>2
  <2>4. QED
    BY <2>1, <2>3, OcurrenciasNat
<1>12. QED
  BY <1>2, <1>3, <1>7, <1>8, <1>9, <1>10, <1>11 DEF Asentado

LEMMA SalidaSolaPrima ==
  ASSUME NEW p \in Pids
  PROVE  UnLugarInv' => SolaSalida(p)'
<1>1. UnLugarInv => SolaSalida(p)
  BY SalidaSola
<1>2. QED
  BY <1>1, PTL

LEMMA ElementTipo ==
  ASSUME NEW S, NEW s \in Seq(S)
  PROVE  \A i \in DOMAIN s : s[i] \in S
BY ElementOfSeq, LenProperties

(* A step that moves no settled PCB.                                       *)
LEMMA AsentadoIgual ==
  ASSUME UNCHANGED <<cola_ready, cola_block, largo, desalojo, gestor, despacho, motivos, cpu>>,
         NEW p, Asentado(p)'
  PROVE  Asentado(p)
<1>1. /\ Veces(p, cola_ready)' = Veces(p, cola_ready) /\ Veces(p, despacho)' = Veces(p, despacho)
      /\ EnAlgunBlock(p)' = EnAlgunBlock(p)
  BY DEF Veces, EnAlgunBlock, EnRecurso
<1>2. EnExec(p)' = EnExec(p) /\ Saliendo(p)' = Saliendo(p)
  BY <1>1 DEF EnExec, EnDesalojo, Saliendo
<1>3. QED
  BY <1>1, <1>2 DEF Asentado

(* Only planificador_largo_plazo settles a process.                        *)
LEMMA AsentadoSi ==
  ASSUME UnLugarInv, UnLugarInv', [Next]_vars, UNCHANGED <<cola_new, largo>>,
         NEW p \in Pids, Saliendo(p) => Saliendo(p)', Asentado(p)'
  PROVE  Asentado(p)
<1>1. ~Saliendo(p)' /\ ~Saliendo(p)
  BY SalidaSolaPrima DEF SolaSalida
<1>2. TipoInv /\ TipoInv' /\ ManosExactas
  BY DEF UnLugarInv
<1>3. /\ EnNew(p) \in Nat /\ Veces(p, cola_ready) \in Nat /\ EnExec(p) \in Nat
      /\ Veces(p, cola_ready)' \in Nat /\ EnExec(p)' \in Nat
      /\ \A r \in Recursos : EnRecurso(p, r) \in Nat /\ EnRecurso(p, r)' \in Nat
  BY <1>2, CuentasNat, CuentasNatPrima DEF Numeros
<1>4. EnNew(p)' = EnNew(p) /\ (largo'.pid = p <=> largo.pid = p)
  BY DEF EnNew, Veces
<1>5. Quieto(p) \/ Mueve(p)
  BY <1>2, PasoPcb DEF PasoDePcb
<1>6. CASE Veces(p, cola_ready) > 0 \/ EnExec(p) > 0 \/ EnAlgunBlock(p)
  BY <1>1, <1>6 DEF Asentado
<1>7. CASE /\ Veces(p, cola_ready) = 0 /\ EnExec(p) = 0 /\ \A r \in Recursos : EnRecurso(p, r) = 0
  <2>1. CASE Quieto(p)
    BY <1>4, <1>7, <2>1 DEF Asentado, Quieto, MismosRecursos, EnAlgunBlock
  <2>2. CASE Nace(p)
    BY <1>4, <1>7, <2>2 DEF Asentado, Nace, MismosRecursos, EnAlgunBlock
  <2>3. CASE Ingresa(p)
    BY <1>3, <1>4, <2>3 DEF Ingresa, Cambia
  <2>4. CASE PasaDe(p)
    BY <1>3, <1>4, <1>7, <2>4 DEF PasaDe, Cambia
  <2>5. ASSUME NEW r \in Recursos, Bloquea(p, r) \/ Desbloquea(p, r)
        PROVE  FALSE
    BY <1>3, <1>7, <2>5 DEF Bloquea, Desbloquea, Cambia
  <2>6. QED
    BY <1>5, <2>1, <2>2, <2>3, <2>4, <2>5 DEF Mueve
<1>8. QED
  BY <1>3, <1>6, <1>7 DEF EnAlgunBlock

-----------------------------------------------------------------------------
(* The conversation.                                                       *)
LEMMA TiposDialogo ==
  ASSUME TipoInv
  PROVE  /\ pedidos \in Seq(Pedido) /\ respuestas \in Seq(Respuesta) /\ memoria \subseteq Pids
         /\ cola_new \in Seq(Pids)
         /\ hilo \in [Hilos -> [pc : Pc.hilo, arg : Nat, lineas : Nat]]
         /\ \A h \in Pendientes : hilo[h].arg \in Pids
         /\ "desalojo" \notin Hilos
         /\ \A i \in DOMAIN pedidos : pedidos[i] \in Pedido
         /\ \A i \in DOMAIN respuestas : respuestas[i] \in Respuesta
         /\ \A m \in Pedido : m.quien \in Hilos \cup {"desalojo"} /\ m.pid \in Pids
         /\ \A m \in Respuesta : m.quien \in Hilos \cup {"desalojo"}
<1>1. /\ pedidos \in Seq(Pedido) /\ respuestas \in Seq(Respuesta) /\ memoria \subseteq Pids
      /\ cola_new \in Seq(Pids)
      /\ hilo \in [Hilos -> [pc : Pc.hilo, arg : Nat, lineas : Nat]]
  BY DEF TipoInv, TypeOK, TipoConexion, TipoColas, TipoConsola
<1>2. \A h \in Pendientes : hilo[h].arg \in Pids
  BY DEF TipoInv, EnMano, HiloEnMano, Pendientes
<1>3. /\ \A i \in DOMAIN pedidos : pedidos[i] \in Pedido
      /\ \A i \in DOMAIN respuestas : respuestas[i] \in Respuesta
  BY <1>1, ElementTipo
<1>4. /\ \A m \in Pedido : m.quien \in Hilos \cup {"desalojo"} /\ m.pid \in Pids
      /\ \A m \in Respuesta : m.quien \in Hilos \cup {"desalojo"}
  BY DEF Pedido, Respuesta
<1>5. QED
  BY <1>1, <1>2, <1>3, <1>4, ConstantesAssumption

(* What is true of each message, message by message.                       *)
LEMMA CadaMensaje ==
  ASSUME TipoInv, Dialogo
  PROVE  /\ \A i \in DOMAIN pedidos : Espera(pedidos[i].quien) /\ PedidoBien(pedidos[i])
         /\ \A i \in DOMAIN respuestas : Espera(respuestas[i].quien) /\ RespuestaBien(respuestas[i])
BY TiposDialogo DEF Dialogo, Esta

(* A thread that goes on waiting, or one that never did.                   *)
LEMMA SigueEsperando ==
  ASSUME TipoInv, NEW q, UNCHANGED memoria,
         \A h \in Hilos \ {q} : hilo[h].pc = "recibe" => hilo'[h] = hilo[h],
         q # "desalojo" => (desalojo.pc = "exit_recibe" => desalojo' = desalojo)
  PROVE  /\ \A m \in Pedido : m.quien # q /\ Espera(m.quien) /\ PedidoBien(m)
                                => Espera(m.quien)' /\ PedidoBien(m)'
         /\ \A m \in Respuesta : m.quien # q /\ Espera(m.quien) /\ RespuestaBien(m)
                                => Espera(m.quien)' /\ RespuestaBien(m)'
<1> USE TiposDialogo
<1>1. ASSUME NEW m \in Pedido, m.quien # q, Espera(m.quien), PedidoBien(m)
      PROVE  Espera(m.quien)' /\ PedidoBien(m)'
  <2>1. CASE m.quien = "desalojo"
    BY <1>1, <2>1 DEF Espera, PedidoBien
  <2>2. CASE m.quien # "desalojo"
    <3>1. m.quien \in Hilos \ {q} /\ hilo[m.quien].pc = "recibe"
      BY <1>1, <2>2 DEF Espera
    <3>2. QED
      BY <1>1, <2>2, <3>1 DEF Espera, PedidoBien
  <2>3. QED
    BY <2>1, <2>2
<1>2. ASSUME NEW m \in Respuesta, m.quien # q, Espera(m.quien), RespuestaBien(m)
      PROVE  Espera(m.quien)' /\ RespuestaBien(m)'
  <2>1. CASE m.quien = "desalojo"
    BY <1>2, <2>1 DEF Espera, RespuestaBien
  <2>2. CASE m.quien # "desalojo"
    <3>1. m.quien \in Hilos \ {q} /\ hilo[m.quien].pc = "recibe"
      BY <1>2, <2>2 DEF Espera
    <3>2. QED
      BY <1>2, <2>2, <3>1 DEF Espera, RespuestaBien
  <2>3. QED
    BY <2>1, <2>2
<1>3. QED
  BY <1>1, <1>2

(* A step that sends and takes no message, of threads that wait for none.  *)
LEMMA DialogoIgual ==
  ASSUME TipoInv, Dialogo, UNCHANGED <<pedidos, respuestas, memoria>>,
         \A h \in Hilos : hilo[h].pc = "recibe" => hilo'[h] = hilo[h],
         desalojo.pc = "exit_recibe" => desalojo' = desalojo
  PROVE  Dialogo'
<1> USE TiposDialogo
<1>1. ASSUME NEW m \in Pedido, Esta(m, pedidos)'
      PROVE  Espera(m.quien)' /\ PedidoBien(m)'
  <2>1. Esta(m, pedidos)
    BY <1>1 DEF Esta
  <2>2. Espera(m.quien) /\ PedidoBien(m)
    BY <2>1 DEF Dialogo
  <2>3. PICK q \in {"otro", "desalojo"} : m.quien # q
    OBVIOUS
  <2>4. QED
    BY <2>2, <2>3, SigueEsperando
<1>2. ASSUME NEW m \in Respuesta, Esta(m, respuestas)'
      PROVE  Espera(m.quien)' /\ RespuestaBien(m)'
  <2>1. Esta(m, respuestas)
    BY <1>2 DEF Esta
  <2>2. Espera(m.quien) /\ RespuestaBien(m)
    BY <2>1 DEF Dialogo
  <2>3. PICK q \in {"otro", "desalojo"} : m.quien # q
    OBVIOUS
  <2>4. QED
    BY <2>2, <2>3, SigueEsperando
<1>3. QED
  BY <1>1, <1>2 DEF Dialogo

(* A thread asks MEMORIA for something and waits.                          *)
LEMMA DialogoPide ==
  ASSUME TipoInv, Dialogo, NEW q \in Hilos \cup {"desalojo"}, ~Espera(q), Espera(q)',
         NEW m \in Pedido, m.quien = q, PedidoBien(m)',
         pedidos' = Append(pedidos, m), UNCHANGED <<respuestas, memoria>>,
         \A h \in Hilos \ {q} : hilo'[h] = hilo[h],
         q # "desalojo" => desalojo' = desalojo
  PROVE  Dialogo'
<1> USE TiposDialogo
<1>0. \A i \in DOMAIN pedidos' : \/ i \in DOMAIN pedidos /\ i # Len(pedidos) + 1 /\ pedidos'[i] = pedidos[i]
                                 \/ i = Len(pedidos) + 1 /\ pedidos'[i] = m
  BY ElementosAppend
<1>1. /\ \A i \in DOMAIN pedidos : pedidos[i].quien # q
      /\ \A i \in DOMAIN respuestas : respuestas[i].quien # q
  BY CadaMensaje
<1>2. ASSUME NEW n \in Pedido, Esta(n, pedidos)'
      PROVE  Espera(n.quien)' /\ PedidoBien(n)'
  <2>0. PICK i \in DOMAIN pedidos' : pedidos'[i] = n
    BY <1>2 DEF Esta
  <2>1. n = m \/ (Esta(n, pedidos) /\ n.quien # q)
    <3>1. CASE i \in DOMAIN pedidos /\ pedidos'[i] = pedidos[i]
      <4>1. pedidos[i] = n /\ n.quien # q
        BY <1>1, <2>0, <3>1
      <4>2. QED
        BY <3>1, <4>1 DEF Esta
    <3>2. CASE pedidos'[i] = m
      <4>1. n = m
        BY <2>0, <3>2, Zenon
      <4>2. QED
        BY <4>1
    <3>3. QED
      BY <1>0, <3>1, <3>2
  <2>2. CASE Esta(n, pedidos) /\ n.quien # q
    <3>1. Espera(n.quien) /\ PedidoBien(n)
      BY <2>2 DEF Dialogo
    <3>2. QED
      BY <2>2, <3>1, SigueEsperando
  <2>3. QED
    BY <2>1, <2>2
<1>3. ASSUME NEW n \in Respuesta, Esta(n, respuestas)'
      PROVE  Espera(n.quien)' /\ RespuestaBien(n)'
  <2>1. Esta(n, respuestas) /\ n.quien # q
    BY <1>1, <1>3 DEF Esta
  <2>2. Espera(n.quien) /\ RespuestaBien(n)
    BY <2>1 DEF Dialogo
  <2>3. QED
    BY <2>1, <2>2, SigueEsperando
<1>5. \A i, j \in DOMAIN pedidos' : pedidos'[i].quien = pedidos'[j].quien => i = j
  BY <1>0, <1>1 DEF Dialogo
<1>6. \A i \in DOMAIN pedidos', j \in DOMAIN respuestas : pedidos'[i].quien # respuestas[j].quien
  BY <1>0, <1>1 DEF Dialogo
<1>7. QED
  BY <1>2, <1>3, <1>5, <1>6 DEF Dialogo

(* A thread takes its answer.                                              *)
LEMMA DialogoRecibe ==
  ASSUME TipoInv, Dialogo, NEW q \in Hilos \cup {"desalojo"},
         respuestas # <<>>, Head(respuestas).quien = q,
         respuestas' = Tail(respuestas), UNCHANGED <<pedidos, memoria>>,
         \A h \in Hilos \ {q} : hilo'[h] = hilo[h],
         q # "desalojo" => desalojo' = desalojo
  PROVE  Dialogo' /\ RespuestaBien(Head(respuestas))
<1> USE TiposDialogo
<1>0. /\ 1 \in DOMAIN respuestas /\ Head(respuestas) = respuestas[1]
      /\ \A i \in DOMAIN respuestas' : i \in Nat /\ i + 1 \in DOMAIN respuestas /\ i + 1 # 1
                                       /\ respuestas'[i] = respuestas[i + 1]
  BY ElementosTail
<1>1. /\ \A i \in DOMAIN pedidos : pedidos[i].quien # q
      /\ \A i \in DOMAIN respuestas : i # 1 => respuestas[i].quien # q
  BY <1>0 DEF Dialogo
<1>2. ASSUME NEW m \in Pedido, Esta(m, pedidos)'
      PROVE  Espera(m.quien)' /\ PedidoBien(m)'
  <2>1. Esta(m, pedidos) /\ m.quien # q
    BY <1>1, <1>2 DEF Esta
  <2>2. Espera(m.quien) /\ PedidoBien(m)
    BY <2>1 DEF Dialogo
  <2>3. QED
    BY <2>1, <2>2, SigueEsperando
<1>3. ASSUME NEW m \in Respuesta, Esta(m, respuestas)'
      PROVE  Espera(m.quien)' /\ RespuestaBien(m)'
  <2>1. Esta(m, respuestas) /\ m.quien # q
    BY <1>0, <1>1, <1>3 DEF Esta
  <2>2. Espera(m.quien) /\ RespuestaBien(m)
    BY <2>1 DEF Dialogo
  <2>3. QED
    BY <2>1, <2>2, SigueEsperando
<1>5. \A i, j \in DOMAIN respuestas' : respuestas'[i].quien = respuestas'[j].quien => i = j
  <2> SUFFICES ASSUME NEW i \in DOMAIN respuestas', NEW j \in DOMAIN respuestas',
                      respuestas'[i].quien = respuestas'[j].quien
               PROVE  i = j
    OBVIOUS
  <2>1. i + 1 = j + 1 /\ i \in Nat /\ j \in Nat
    BY <1>0 DEF Dialogo
  <2>2. QED
    BY <2>1
<1>6. \A i \in DOMAIN pedidos, j \in DOMAIN respuestas' : pedidos[i].quien # respuestas'[j].quien
  BY <1>0 DEF Dialogo
<1>7. RespuestaBien(Head(respuestas))
  BY <1>0, CadaMensaje
<1>8. QED
  BY <1>2, <1>3, <1>5, <1>6, <1>7 DEF Dialogo

(* What the process that asks for its end is not.                          *)
LEMMA SaleDeNew ==
  ASSUME UnLugarInv, NewEnMemoria, NEW p \in Pids, Saliendo(p)
  PROVE  /\ \A i \in DOMAIN cola_new : cola_new[i] # p
         /\ \A h \in Pendientes : hilo[h].arg # p
<1>1. cola_new \in Seq(Pids) /\ p \notin ToSet(cola_new)
  BY SalidaSola DEF UnLugarInv, TipoInv, TypeOK, TipoColas, SolaSalida
<1>2. \A i \in DOMAIN cola_new : cola_new[i] # p
  BY <1>1 DEF ToSet
<1>3. ASSUME NEW h \in Pendientes
      PROVE  hilo[h].arg # p
  <2>1. cola_new # <<>> /\ cola_new[Len(cola_new)] = hilo[h].arg
    BY DEF NewEnMemoria
  <2>2. Len(cola_new) \in DOMAIN cola_new
    BY <1>1, <2>1, ElementosTail, LenProperties
  <2>3. QED
    BY <1>2, <2>1, <2>2
<1>4. QED
  BY <1>2, <1>3

(* MEMORIA answers.                                                        *)
LEMMA MemoriaAtiende ==
  ASSUME UnLugarInv, Dialogo, NewEnMemoria, AsentadosEnMemoria, AtenderKernel
  PROVE  Dialogo' /\ NewEnMemoria' /\ AsentadosEnMemoria'
<1> USE TiposDialogo DEF UnLugarInv
<1>1. UNCHANGED <<kernel, cola_new, cola_ready, cola_block, hilo, result, largo, desalojo, gestor, despacho, motivos, cpu>>
  BY DEF AtenderKernel, consola, procesador
<1>2. pedidos # <<>> /\ pedidos' = Tail(pedidos)
  BY DEF AtenderKernel
<1>3. /\ 1 \in DOMAIN pedidos /\ Head(pedidos) = pedidos[1] /\ Head(pedidos) \in Pedido
      /\ pedidos' \in Seq(Pedido)
      /\ \A i \in DOMAIN pedidos' : i \in Nat /\ i + 1 \in DOMAIN pedidos /\ i + 1 # 1
                                    /\ pedidos'[i] = pedidos[i + 1]
  BY <1>2, ElementosTail
<1>4. PICK m \in Pedido : m = pedidos[1]
  BY <1>3
<1>5. Espera(m.quien) /\ PedidoBien(m) /\ m.quien \in Hilos \cup {"desalojo"} /\ m.pid \in Pids
  BY <1>3, <1>4, CadaMensaje
<1>6. PICK a \in Respuesta :
        /\ respuestas' = Append(respuestas, a) /\ a.quien = m.quien
        /\ \/ /\ m.op = "CREAR_PROCESO"
              /\ \/ a.valor = OK /\ memoria' = memoria \cup {m.pid}
                 \/ a.valor = ERROR /\ memoria' = memoria
           \/ m.op = "ELIMINAR_PROCESO" /\ m.pid \in memoria /\ a.valor = OK /\ memoria' = memoria \ {m.pid}
           \/ m.op = "ELIMINAR_PROCESO" /\ m.pid \notin memoria
  <2>1. m.op \in {"CREAR_PROCESO", "ELIMINAR_PROCESO"}
    BY DEF Pedido
  <2>2. CASE m.op = "CREAR_PROCESO" /\ m.ruta = "valida"
    <3>1. /\ respuestas' = Append(respuestas, [valor |-> OK, quien |-> m.quien])
          /\ memoria' = memoria \cup {m.pid}
      BY <1>3, <1>4, <2>2 DEF AtenderKernel
    <3>2. [valor |-> OK, quien |-> m.quien] \in Respuesta
      BY <1>5 DEF Respuesta
    <3>3. QED
      BY <2>2, <3>1, <3>2
  <2>3. CASE m.op = "CREAR_PROCESO" /\ m.ruta # "valida"
    <3>1. /\ respuestas' = Append(respuestas, [valor |-> ERROR, quien |-> m.quien])
          /\ memoria' = memoria
      BY <1>3, <1>4, <2>3 DEF AtenderKernel
    <3>2. [valor |-> ERROR, quien |-> m.quien] \in Respuesta
      BY <1>5 DEF Respuesta
    <3>3. QED
      BY <2>3, <3>1, <3>2
  <2>4. CASE m.op = "ELIMINAR_PROCESO" /\ m.pid \in memoria
    <3>1. /\ respuestas' = Append(respuestas, [valor |-> OK, quien |-> m.quien])
          /\ memoria' = memoria \ {m.pid}
      BY <1>3, <1>4, <2>4 DEF AtenderKernel
    <3>2. [valor |-> OK, quien |-> m.quien] \in Respuesta
      BY <1>5 DEF Respuesta
    <3>3. QED
      BY <2>4, <3>1, <3>2
  <2>5. CASE m.op = "ELIMINAR_PROCESO" /\ m.pid \notin memoria
    <3>1. respuestas' = Append(respuestas, [valor |-> ERROR, quien |-> m.quien])
      BY <1>3, <1>4, <2>5 DEF AtenderKernel
    <3>2. [valor |-> ERROR, quien |-> m.quien] \in Respuesta
      BY <1>5 DEF Respuesta
    <3>3. QED
      BY <2>5, <3>1, <3>2
  <2>6. QED
    BY <2>1, <2>2, <2>3, <2>4, <2>5
<1>7. \/ memoria \subseteq memoria' /\ m.quien # "desalojo" /\ (a.valor = OK => m.pid \in memoria')
      \/ /\ m.quien = "desalojo" /\ Saliendo(m.pid) /\ a.valor = OK /\ memoria' = memoria \ {m.pid}
  <2>1. CASE m.quien = "desalojo"
    <3>1. m.op = "ELIMINAR_PROCESO" /\ m.pid = desalojo.pid /\ m.pid \in memoria /\ desalojo.pc = "exit_recibe"
      BY <1>5, <2>1 DEF PedidoBien, Espera
    <3>2. QED
      BY <1>6, <2>1, <3>1 DEF Saliendo
  <2>2. CASE m.quien # "desalojo"
    <3>1. m.op = "CREAR_PROCESO"
      BY <1>5, <2>2 DEF PedidoBien
    <3>2. QED
      BY <1>6, <2>2, <3>1 DEF OK, ERROR
  <2>3. QED
    BY <2>1, <2>2
<1>8. ASSUME NEW p \in memoria, p \notin memoria'
      PROVE  p \in Pids /\ Saliendo(p)
  BY <1>5, <1>7, <1>8
<1>9. Dialogo'
  <2>1. \A i \in DOMAIN respuestas' : \/ i \in DOMAIN respuestas /\ i # Len(respuestas) + 1 /\ respuestas'[i] = respuestas[i]
                                      \/ i = Len(respuestas) + 1 /\ respuestas'[i] = a
    BY <1>6, ElementosAppend
  <2>2. /\ \A i \in DOMAIN pedidos : i # 1 => pedidos[i].quien # m.quien
        /\ \A i \in DOMAIN respuestas : respuestas[i].quien # m.quien
    BY <1>3, <1>4 DEF Dialogo
  <2>3. ASSUME NEW n \in Pedido, Esta(n, pedidos)'
        PROVE  Espera(n.quien)' /\ PedidoBien(n)'
    <3>1. Esta(n, pedidos) /\ n.quien # m.quien
      BY <1>3, <2>2, <2>3 DEF Esta
    <3>2. Espera(n.quien) /\ PedidoBien(n)
      BY <3>1 DEF Dialogo
    <3>3. n.quien = "desalojo" => n.pid \in memoria'
      BY <1>7, <3>1, <3>2 DEF PedidoBien
    <3>4. QED
      BY <1>1, <3>2, <3>3 DEF Espera, PedidoBien
  <2>4. ASSUME NEW n \in Respuesta, Esta(n, respuestas)
        PROVE  Espera(n.quien)' /\ RespuestaBien(n)'
    <3>1. Espera(n.quien) /\ RespuestaBien(n) /\ n.quien \in Hilos \cup {"desalojo"}
      BY <2>4 DEF Dialogo
    <3>2. CASE n.quien = "desalojo"
      BY <1>1, <3>1, <3>2 DEF Espera, RespuestaBien
    <3>3. CASE n.quien \in Hilos /\ n.quien # "desalojo"
      <4>1. PICK h \in Hilos : h = n.quien
        BY <3>3
      <4>2. h \in Pendientes
        BY <3>1, <3>3, <4>1 DEF Espera, Pendientes
      <4>3. hilo[h].arg \in memoria => hilo[h].arg \in memoria'
        BY <1>8, <4>2, SaleDeNew
      <4>4. QED
        BY <1>1, <3>1, <3>3, <4>1, <4>3 DEF Espera, RespuestaBien
    <3>4. QED
      BY <3>1, <3>2, <3>3
  <2>5. Espera(a.quien)' /\ RespuestaBien(a)'
    <3>1. Espera(a.quien)'
      BY <1>1, <1>5, <1>6 DEF Espera
    <3>2. CASE m.quien = "desalojo"
      <4>1. a.quien = "desalojo" /\ a.valor = OK
        BY <1>6, <1>7, <3>2
      <4>2. QED
        BY <3>1, <4>1 DEF RespuestaBien
    <3>3. CASE m.quien # "desalojo"
      <4>1. m.pid = hilo[m.quien].arg
        BY <1>5, <3>3 DEF PedidoBien
      <4>2. a.quien = m.quien /\ (a.valor = OK => m.pid \in memoria') /\ hilo' = hilo
        BY <1>1, <1>6, <1>7, <3>3
      <4>3. QED
        BY <3>1, <3>3, <4>1, <4>2 DEF RespuestaBien
    <3>4. QED
      BY <3>2, <3>3
  <2>6. ASSUME NEW n \in Respuesta, Esta(n, respuestas)'
        PROVE  Espera(n.quien)' /\ RespuestaBien(n)'
    <3>1. n = a \/ Esta(n, respuestas)
      BY <2>1, <2>6 DEF Esta
    <3>2. QED
      BY <2>4, <2>5, <3>1
  <2>7. \A i, j \in DOMAIN pedidos' : pedidos'[i].quien = pedidos'[j].quien => i = j
    <3> SUFFICES ASSUME NEW i \in DOMAIN pedidos', NEW j \in DOMAIN pedidos',
                        pedidos'[i].quien = pedidos'[j].quien
                 PROVE  i = j
      OBVIOUS
    <3>1. PICK k, l \in DOMAIN pedidos : /\ k = i + 1 /\ l = j + 1 /\ i \in Nat /\ j \in Nat
                                        /\ pedidos'[i] = pedidos[k] /\ pedidos'[j] = pedidos[l]
      BY <1>3
    <3>2. pedidos[k].quien = pedidos[l].quien
      BY <3>1
    <3>3. k = l
      BY <3>2 DEF Dialogo
    <3>4. QED
      BY <3>1, <3>3
  <2>8. \A i, j \in DOMAIN respuestas' : respuestas'[i].quien = respuestas'[j].quien => i = j
    BY <1>6, <2>1, <2>2 DEF Dialogo
  <2>9. \A i \in DOMAIN pedidos', j \in DOMAIN respuestas' : pedidos'[i].quien # respuestas'[j].quien
    <3> SUFFICES ASSUME NEW i \in DOMAIN pedidos', NEW j \in DOMAIN respuestas'
                 PROVE  pedidos'[i].quien # respuestas'[j].quien
      OBVIOUS
    <3>1. i + 1 \in DOMAIN pedidos /\ i + 1 # 1 /\ pedidos'[i] = pedidos[i + 1]
      BY <1>3
    <3>2. CASE j \in DOMAIN respuestas /\ respuestas'[j] = respuestas[j]
      BY <3>1, <3>2 DEF Dialogo
    <3>3. CASE respuestas'[j] = a
      BY <1>6, <2>2, <3>1, <3>3
    <3>4. QED
      BY <2>1, <3>2, <3>3
  <2>10. QED
    BY <2>3, <2>6, <2>7, <2>8, <2>9 DEF Dialogo
<1>10. NewEnMemoria'
  <2>1. Pendientes' = Pendientes
    BY <1>1 DEF Pendientes
  <2>2. ASSUME NEW p \in memoria, (\E i \in DOMAIN cola_new : cola_new[i] = p) \/ (\E h \in Pendientes : hilo[h].arg = p)
        PROVE  p \in memoria'
    BY <1>8, <2>2, SaleDeNew
  <2>3. \A h \in Hilos : hilo[h].pc = "evalua" => h \in Pendientes
    BY DEF Pendientes
  <2>4. QED
    BY <1>1, <2>1, <2>2, <2>3 DEF NewEnMemoria
<1>11. AsentadosEnMemoria'
  <2> SUFFICES ASSUME NEW p \in Pids, Asentado(p)'
               PROVE  p \in memoria'
    BY DEF AsentadosEnMemoria
  <2>1. Asentado(p) /\ ~Saliendo(p)
    <3>1. Asentado(p)
      BY <1>1, AsentadoIgual
    <3>2. QED
      BY <3>1, SalidaSola DEF SolaSalida
  <2>2. QED
    BY <1>8, <2>1 DEF AsentadosEnMemoria
<1>12. QED
  BY <1>9, <1>10, <1>11

-----------------------------------------------------------------------------
(* The console thread.                                                     *)
LEMMA OrdenDialoga ==
  ASSUME DeAUna, TipoInv, Dialogo, NewEnMemoria, NEW h \in Hilos, Orden(h)
  PROVE  Dialogo' /\ NewEnMemoria'
<1> USE TiposDialogo
<1>1. UNCHANGED <<cola_new, pedidos, respuestas, memoria, desalojo>> /\ hilo[h].pc = "libre"
  BY DEF Orden, CrearPcb, Multiprogramacion, DetenerPlanificacion,
         IniciarPlanificacion, Comando, alta, procesador
<1>2. /\ hilo'[h].pc \in {"new", "fija", "para_corto", "libre", "abre_new"}
      /\ \A k \in Hilos : k # h => hilo'[k] = hilo[k]
  <2>1. CASE CrearPcb(h)
    BY <2>1 DEF CrearPcb, Ejecutar
  <2>2. CASE Multiprogramacion(h)
    BY <2>2 DEF Multiprogramacion, Ejecutar
  <2>3. CASE DetenerPlanificacion(h)
    BY <2>3 DEF DetenerPlanificacion, Ejecutar
  <2>4. CASE IniciarPlanificacion(h)
    BY <2>4 DEF IniciarPlanificacion, Ejecutar
  <2>5. QED
    BY <2>1, <2>2, <2>3, <2>4 DEF Orden
<1>3. Dialogo'
  BY <1>1, <1>2, DialogoIgual
<1>4. Pendientes = {} /\ Pendientes' = {} /\ \A k \in Hilos : hilo'[k].pc # "evalua"
  BY <1>1, <1>2 DEF DeAUna, Pendientes
<1>5. NewEnMemoria'
  BY <1>1, <1>4 DEF NewEnMemoria
<1>6. QED
  BY <1>3, <1>5

(* What sacar_pcb_lista leaves in NEW.                                     *)
LEMMA SigueEnNew ==
  ASSUME UnLugarInv, NEW p \in Pids, NEW q \in Pids,
         q \in ToSet(RemoveFirst(cola_new, p))
  PROVE  q # p /\ q \in ToSet(cola_new)
<1>0. cola_new \in Seq(Pids) /\ RemoveFirst(cola_new, p) \in Seq(Pids)
  BY RemoveFirstTipo DEF UnLugarInv, TipoInv, TypeOK, TipoColas
<1>1. PICK a, b \in Nat : /\ a = Ocurrencias(q, cola_new) /\ b = Ocurrencias(q, RemoveFirst(cola_new, p))
  BY <1>0, OcurrenciasNat
<1>2. b > 0
  BY <1>0, <1>1, OcurrenciasNat
<1>3. b = a - Cuenta(q = p /\ p \in ToSet(cola_new))
  BY <1>0, <1>1, OcurrenciasRemoveFirst
<1>4. a <= 1
  <2>1. PICK x, y, l, e \in Nat : x = Veces(q, cola_new) /\ y = Uno(largo.pid = q) /\ l = Veces(q, cola_ready) /\ e = EnExec(q)
    BY CuentasNat DEF UnLugarInv
  <2>2. x + y + l + e <= 1
    BY <2>1 DEF UnLugarInv, Separado, Suelto, EnNew
  <2>3. x = a
    BY <1>1, <2>1, VecesOcurrencias
  <2>4. QED
    BY <1>1, <2>1, <2>2, <2>3
<1>5. a > 0
  BY <1>1, <1>2, <1>3 DEF Cuenta
<1>6. q \in ToSet(cola_new)
  BY <1>0, <1>1, <1>5, OcurrenciasNat
<1>7. q # p
  BY <1>1, <1>2, <1>3, <1>4, <1>6 DEF Cuenta
<1>8. QED
  BY <1>6, <1>7

(* The steps in which it says nothing to MEMORIA.                          *)
LEMMA ConsolaCalla ==
  ASSUME DeAUna, UnLugarInv, Dialogo, NewEnMemoria, NEW h \in Hilos, Consola(h),
         ~EnviarProcesoMemoria(h), ~RecibirResultado(h)
  PROVE  Dialogo' /\ NewEnMemoria'
<1> USE TiposDialogo DEF UnLugarInv
<1>1. UNCHANGED <<pedidos, respuestas, memoria, desalojo, result>>
  BY DEF Consola, IngresarANew, ProcesoCreado, ErrorAlCrear, DescartarDeNew,
         FijarGrado, DetenerCorto, DetenerLargo, RetenerNew, RetenerReady, RetenerBlock, BajarPlanificacion,
     LiberarNew, LiberarReady, LiberarBlock, LevantarPlanificacion, Reanudar, alta
<1>2. PICK pc, arg :
        /\ hilo'[h].pc = pc /\ hilo'[h].arg = arg
        /\ \A k \in Hilos : k # h => hilo'[k] = hilo[k]
        /\ \/ hilo[h].pc = "new" /\ pc = "cupo" /\ arg = hilo[h].arg /\ cola_new' = Append(cola_new, arg)
           \/ hilo[h].pc = "evalua" /\ result = OK /\ pc = "libre" /\ UNCHANGED cola_new
           \/ hilo[h].pc = "evalua" /\ pc = "descarta" /\ arg = hilo[h].arg /\ UNCHANGED cola_new
           \/ /\ hilo[h].pc = "descarta" /\ pc = "libre"
              /\ cola_new' = RemoveFirst(cola_new, hilo[h].arg)
           \/ /\ hilo[h].pc \in SinAdmitir
              /\ pc \in SinAdmitir \cup {"libre"} /\ UNCHANGED cola_new
  <2>1. CASE IngresarANew(h)
    BY <2>1 DEF IngresarANew, IrHilo
  <2>2. CASE ProcesoCreado(h)
    BY <2>2 DEF ProcesoCreado, IrHiloCon
  <2>3. CASE ErrorAlCrear(h)
    BY <2>3 DEF ErrorAlCrear, IrHilo, alta
  <2>4. CASE DescartarDeNew(h)
    BY <2>4 DEF DescartarDeNew, IrHiloCon
  <2>5. CASE FijarGrado(h)
    BY <2>5 DEF FijarGrado, IrHiloCon, alta, SinAdmitir
  <2>7. CASE RetenerBlock(h) \/ LiberarBlock(h)
    BY <2>7 DEF RetenerBlock, LiberarBlock, alta, SinAdmitir, Parando, Abriendo
  <2>6. CASE \/ DetenerCorto(h) \/ DetenerLargo(h) \/ RetenerNew(h) \/ RetenerReady(h) \/ BajarPlanificacion(h)
             \/ LiberarNew(h) \/ LiberarReady(h) \/ LevantarPlanificacion(h) \/ Reanudar(h)
    <3>1. PICK sig : /\ hilo' = [hilo EXCEPT ![h].pc = sig] /\ UNCHANGED cola_new
                     /\ hilo[h].pc \in SinAdmitir
                     /\ sig \in SinAdmitir \cup {"libre"}
      <4> USE DEF IrHilo, alta, SinAdmitir, Parando, Abriendo
      <4>1. CASE DetenerCorto(h)
        BY <4>1 DEF DetenerCorto
      <4>2. CASE DetenerLargo(h)
        BY <4>2 DEF DetenerLargo
      <4>3. CASE RetenerNew(h)
        BY <4>3 DEF RetenerNew
      <4>4. CASE RetenerReady(h)
        BY <4>4 DEF RetenerReady
      <4>5. CASE BajarPlanificacion(h)
        BY <4>5 DEF BajarPlanificacion
      <4>6. CASE LiberarNew(h)
        BY <4>6 DEF LiberarNew
      <4>7. CASE LiberarReady(h)
        BY <4>7 DEF LiberarReady
      <4>8. CASE LevantarPlanificacion(h)
        BY <4>8 DEF LevantarPlanificacion
      <4>9. CASE Reanudar(h)
        BY <4>9 DEF Reanudar
      <4>10. QED
        BY <2>6, <4>1, <4>2, <4>3, <4>4, <4>5, <4>6, <4>7, <4>8, <4>9
    <3>2. /\ hilo'[h].pc = sig /\ hilo'[h].arg = hilo[h].arg
          /\ \A k \in Hilos : k # h => hilo'[k] = hilo[k]
      BY <3>1
    <3>3. QED
      BY <3>1, <3>2
  <2>8. QED
    BY <2>1, <2>2, <2>3, <2>4, <2>5, <2>6, <2>7 DEF Consola
<1>3. /\ hilo'[h].pc = pc /\ hilo'[h].arg = arg
      /\ \A k \in Hilos : k # h => hilo'[k] = hilo[k]
  BY <1>2
<1>4. Dialogo'
  BY <1>1, <1>2, <1>3, DialogoIgual DEF SinAdmitir, Parando, Abriendo
<1>5. \A k \in Hilos : k = h
  BY DEF DeAUna
<1>6. CASE hilo[h].pc = "new" /\ pc = "cupo" /\ arg = hilo[h].arg /\ cola_new' = Append(cola_new, arg)
  <2>1. arg \in Pids
    BY <1>6 DEF TipoInv, EnMano, HiloEnMano
  <2>2. /\ cola_new' # <<>> /\ Len(cola_new') = Len(cola_new) + 1 /\ cola_new'[Len(cola_new) + 1] = arg
        /\ \A i \in DOMAIN cola_new' : \/ i \in DOMAIN cola_new /\ cola_new'[i] = cola_new[i]
                                       \/ i = Len(cola_new) + 1
    BY <1>6, <2>1, ElementosAppend
  <2>3. Pendientes = {} /\ Pendientes' = {h}
    BY <1>3, <1>5, <1>6 DEF Pendientes
  <2>4. \A i \in DOMAIN cola_new : cola_new[i] \in memoria
    BY <2>3 DEF NewEnMemoria
  <2>5. \A k \in Pendientes' : cola_new' # <<>> /\ cola_new'[Len(cola_new')] = hilo'[k].arg
    BY <1>3, <2>2, <2>3
  <2>6. \A k \in Hilos : hilo'[k].pc # "evalua"
    BY <1>3, <1>5, <1>6
  <2>7. \A i \in DOMAIN cola_new' : cola_new'[i] \in memoria \/ (i = Len(cola_new') /\ Pendientes' # {})
    BY <2>2, <2>3, <2>4
  <2>8. QED
    BY <1>1, <1>4, <2>5, <2>6, <2>7 DEF NewEnMemoria
<1>7. CASE hilo[h].pc = "evalua" /\ result = OK /\ pc = "libre" /\ UNCHANGED cola_new
  <2>1. Pendientes = {h} /\ Pendientes' = {}
    BY <1>3, <1>5, <1>7 DEF Pendientes
  <2>2. hilo[h].arg \in memoria /\ cola_new[Len(cola_new)] = hilo[h].arg
    BY <1>7, <2>1 DEF NewEnMemoria
  <2>3. \A i \in DOMAIN cola_new : cola_new[i] \in memoria
    BY <2>2 DEF NewEnMemoria
  <2>4. \A k \in Hilos : hilo'[k].pc # "evalua"
    BY <1>3, <1>5, <1>7
  <2>5. QED
    BY <1>1, <1>4, <1>7, <2>1, <2>3, <2>4 DEF NewEnMemoria
<1>8. CASE hilo[h].pc = "evalua" /\ pc = "descarta" /\ arg = hilo[h].arg /\ UNCHANGED cola_new
  <2>1. Pendientes = {h} /\ Pendientes' = {h}
    BY <1>3, <1>5, <1>8 DEF Pendientes
  <2>2. \A k \in Hilos : hilo'[k].pc # "evalua"
    BY <1>3, <1>5, <1>8
  <2>3. QED
    BY <1>1, <1>3, <1>4, <1>8, <2>1, <2>2 DEF NewEnMemoria
<1>9. CASE /\ hilo[h].pc = "descarta" /\ pc = "libre"
           /\ cola_new' = RemoveFirst(cola_new, hilo[h].arg)
  <2>1. Pendientes = {h} /\ Pendientes' = {}
    BY <1>3, <1>5, <1>9 DEF Pendientes
  <2>2. \A k \in Hilos : hilo'[k].pc # "evalua"
    BY <1>3, <1>5, <1>9
  <2>3. PICK p \in Pids : p = hilo[h].arg
    BY <2>1
  <2>4. cola_new # <<>> /\ cola_new[Len(cola_new)] = p
    BY <2>1, <2>3 DEF NewEnMemoria
  <2>5. cola_new' \in Seq(Pids)
    BY <1>9, RemoveFirstTipo
  <2>6. ASSUME NEW q \in Pids, q \in ToSet(cola_new')
        PROVE  q # p /\ q \in ToSet(cola_new)
    BY <1>9, <2>3, <2>6, SigueEnNew
  <2>7. \A q \in Pids \ {p} : q \in ToSet(cola_new) => q \in memoria
    BY <2>4 DEF NewEnMemoria, ToSet
  <2>8. \A i \in DOMAIN cola_new' : cola_new'[i] \in Pids /\ cola_new'[i] \in ToSet(cola_new')
    BY <2>5, ElementTipo DEF ToSet
  <2>9. \A i \in DOMAIN cola_new' : cola_new'[i] \in memoria
    BY <2>6, <2>7, <2>8
  <2>10. QED
    BY <1>1, <1>4, <2>1, <2>2, <2>9 DEF NewEnMemoria
<1>10. CASE /\ hilo[h].pc \in SinAdmitir
            /\ pc \in SinAdmitir \cup {"libre"} /\ UNCHANGED cola_new
  <2>1. Pendientes = {} /\ Pendientes' = {} /\ \A k \in Hilos : hilo'[k].pc # "evalua"
    BY <1>3, <1>5, <1>10 DEF Pendientes, SinAdmitir, Parando, Abriendo
  <2>2. QED
    BY <1>1, <1>4, <1>10, <2>1 DEF NewEnMemoria
<1>11. QED
  BY <1>2, <1>6, <1>7, <1>8, <1>9, <1>10

(* The steps in which it does.                                             *)
LEMMA ConsolaHabla ==
  ASSUME DeAUna, TipoInv, Dialogo, NewEnMemoria, NEW h \in Hilos, Consola(h),
         EnviarProcesoMemoria(h) \/ RecibirResultado(h)
  PROVE  Dialogo' /\ NewEnMemoria'
<1> USE TiposDialogo
<1>0. h # "desalojo"
  BY ConstantesAssumption
<1>1. UNCHANGED <<memoria, desalojo, cola_new>>
  BY DEF Consola, EnviarProcesoMemoria, RecibirResultado
<1>2. \A k \in Hilos : k = h
  BY DEF DeAUna
<1>3. CASE EnviarProcesoMemoria(h)
  <2>1. hilo[h].pc = "cupo" /\ hilo' = [hilo EXCEPT ![h].pc = "recibe"] /\ UNCHANGED <<result, respuestas>>
    BY <1>3 DEF EnviarProcesoMemoria, IrHilo
  <2>2. hilo'[h].pc = "recibe" /\ hilo'[h].arg = hilo[h].arg /\ hilo[h].arg \in Pids
        /\ \A k \in Hilos : k # h => hilo'[k] = hilo[k]
    BY <2>1 DEF Pendientes
  <2>3. PICK ruta \in RUTAS :
          pedidos' = Append(pedidos, [op |-> "CREAR_PROCESO", pid |-> hilo[h].arg,
                                      ruta |-> ruta, quien |-> h])
    BY <1>3 DEF EnviarProcesoMemoria
  <2>4. PICK m \in Pedido : /\ m = [op |-> "CREAR_PROCESO", pid |-> hilo[h].arg, ruta |-> ruta, quien |-> h]
    BY <2>2 DEF Pedido
  <2>5. m.quien = h /\ PedidoBien(m)'
    BY <1>0, <2>2, <2>4 DEF PedidoBien
  <2>6. ~Espera(h) /\ Espera(h)'
    BY <1>0, <2>1, <2>2 DEF Espera
  <2>7. pedidos' = Append(pedidos, m)
    BY <2>3, <2>4
  <2>8. Dialogo'
    BY <1>1, <2>1, <2>2, <2>5, <2>6, <2>7, DialogoPide
  <2>9. Pendientes = {h} /\ Pendientes' = {h} /\ \A k \in Hilos : hilo'[k].pc # "evalua"
    BY <1>2, <2>1, <2>2 DEF Pendientes
  <2>10. QED
    BY <1>1, <2>2, <2>8, <2>9 DEF NewEnMemoria
<1>4. CASE RecibirResultado(h)
  <2>1. /\ hilo[h].pc = "recibe" /\ hilo' = [hilo EXCEPT ![h].pc = "evalua"]
        /\ respuestas # <<>> /\ respuestas' = Tail(respuestas) /\ UNCHANGED pedidos
        /\ result' = Head(respuestas).valor /\ Head(respuestas).quien = h
    BY <1>4 DEF RecibirResultado, PuedeRecibir, IrHilo, DeAUna
  <2>2. hilo'[h].pc = "evalua" /\ hilo'[h].arg = hilo[h].arg
        /\ \A k \in Hilos : k # h => hilo'[k] = hilo[k]
    BY <2>1
  <2>3. Dialogo' /\ RespuestaBien(Head(respuestas))
    BY <1>0, <1>1, <2>1, <2>2, DialogoRecibe
  <2>4. result' = OK => hilo[h].arg \in memoria
    BY <1>0, <2>1, <2>3 DEF RespuestaBien
  <2>5. Pendientes = {h} /\ Pendientes' = {h}
    BY <1>2, <2>1, <2>2 DEF Pendientes
  <2>6. QED
    BY <1>1, <1>2, <2>2, <2>3, <2>4, <2>5 DEF NewEnMemoria
<1>5. QED
  BY <1>3, <1>4

(* The planner of the long term takes a PCB that MEMORIA has.              *)
LEMMA LargoConMemoria ==
  ASSUME ColasInv, UnLugarInv, Dialogo, NewEnMemoria, AsentadosEnMemoria, PlanificadorLargo
  PROVE  Dialogo' /\ NewEnMemoria' /\ AsentadosEnMemoria'
<1> USE TiposDialogo DEF UnLugarInv
<1>1. /\ UNCHANGED <<hilo, result, memoria, pedidos, respuestas, desalojo>>
      /\ UNCHANGED <<cola_block, gestor, despacho, motivos, cpu>>
  BY DEF PlanificadorLargo, consola, conexion, procesador
<1>2. Dialogo'
  BY <1>1, DialogoIgual
<1>3. Pendientes' = Pendientes
  BY <1>1 DEF Pendientes
<1>4. ASSUME NEW p
      PROVE  /\ EnAlgunBlock(p)' = EnAlgunBlock(p)
             /\ (EnExec(p) > 0 /\ ~Saliendo(p))' = (EnExec(p) > 0 /\ ~Saliendo(p))
  <2>1. EnAlgunBlock(p)' = EnAlgunBlock(p) /\ Veces(p, despacho)' = Veces(p, despacho)
    BY <1>1 DEF EnAlgunBlock, EnRecurso, Veces
  <2>2. EnExec(p)' = EnExec(p) /\ Saliendo(p)' = Saliendo(p)
    BY <1>1, <2>1 DEF EnExec, EnDesalojo, Saliendo
  <2>3. QED
    BY <2>1, <2>2
<1>5. CASE LargoToma
  <2>1. cola_new # <<>> /\ largo.pc = "toma"
    BY <1>5, HayPcb DEF LargoToma
  <2>2. largo' = [pc |-> "ingresa", pid |-> Head(cola_new)] /\ cola_new' = Tail(cola_new) /\ UNCHANGED cola_ready
    BY <1>5, <2>1 DEF LargoToma
  <2>3. /\ 1 \in DOMAIN cola_new /\ Head(cola_new) = cola_new[1]
        /\ Len(cola_new') = Len(cola_new) - 1 /\ Len(cola_new) \in Nat /\ Len(cola_new) >= 1
        /\ \A i \in DOMAIN cola_new' : i \in Nat /\ i + 1 \in DOMAIN cola_new /\ cola_new'[i] = cola_new[i + 1]
        /\ cola_new' \in Seq(Pids)
    BY <2>1, <2>2, ElementosTail
  <2>4. Pendientes # {} => Len(cola_new) >= 2
    <3> SUFFICES ASSUME Pendientes # {} PROVE Len(cola_new) >= 2
      OBVIOUS
    <3>1. PICK a, b, c \in Nat : a = Len(cola_new) /\ b = Cardinality(Pendientes) /\ c = sem["sem_pcb_espera_ready"]
      BY TiposColas
    <3>2. b # 0
      BY <3>1, TiposColas, FS_EmptySet
    <3>3. a >= c + 1 + b
      BY <2>1, <3>1 DEF ColasInv, NewCoherente, Uno
    <3>4. QED
      BY <3>1, <3>2, <3>3
  <2>5. Head(cola_new) \in memoria
    <3>1. cola_new[1] \in memoria \/ (1 = Len(cola_new) /\ Pendientes # {})
      BY <2>3 DEF NewEnMemoria
    <3>2. ~(1 = Len(cola_new) /\ Pendientes # {})
      <4>1. PICK a \in Nat : a = Len(cola_new)
        BY <2>3
      <4>2. CASE Pendientes # {}
        <5>1. a >= 2
          BY <2>4, <4>1, <4>2
        <5>2. 1 # a
          BY <5>1
        <5>3. QED
          BY <4>1, <5>2
      <4>3. QED
        BY <4>2, Zenon
    <3>3. QED
      BY <2>3, <3>1, <3>2
  <2>6. NewEnMemoria'
    <3>1. ASSUME NEW h \in Pendientes
          PROVE  cola_new' # <<>> /\ cola_new'[Len(cola_new')] = hilo[h].arg
      <4>1. Len(cola_new') >= 1 /\ Len(cola_new') + 1 = Len(cola_new)
        BY <2>3, <2>4
      <4>2. cola_new' # <<>> /\ Len(cola_new') \in DOMAIN cola_new'
        BY <2>3, <4>1, LenProperties, EmptySeq
      <4>3. cola_new'[Len(cola_new')] = cola_new[Len(cola_new)]
        BY <2>3, <4>1, <4>2
      <4>4. QED
        BY <4>2, <4>3 DEF NewEnMemoria
    <3>2. ASSUME NEW i \in DOMAIN cola_new'
          PROVE  cola_new'[i] \in memoria \/ (i = Len(cola_new') /\ Pendientes # {})
      <4>0. PICK k \in DOMAIN cola_new : k = i + 1
        BY <2>3
      <4>1. cola_new[k] \in memoria \/ (k = Len(cola_new) /\ Pendientes # {})
        BY DEF NewEnMemoria
      <4>2. i + 1 = Len(cola_new) => i = Len(cola_new')
        BY <2>3
      <4>3. QED
        BY <2>3, <4>0, <4>1, <4>2
    <3>3. QED
      BY <1>1, <1>3, <3>1, <3>2 DEF NewEnMemoria
  <2>7. ASSUME NEW p \in Pids, Asentado(p)'
        PROVE  p \in memoria'
    <3>1. Veces(p, cola_ready)' = Veces(p, cola_ready) /\ largo'.pid = Head(cola_new)
      BY <2>2 DEF Veces
    <3>2. Asentado(p) \/ p = Head(cola_new)
      BY <1>4, <2>7, <3>1 DEF Asentado
    <3>3. QED
      BY <1>1, <2>5, <3>2 DEF AsentadosEnMemoria
  <2>8. QED
    BY <1>2, <2>6, <2>7 DEF AsentadosEnMemoria
<1>6. CASE ~LargoToma
  <2>1. UNCHANGED cola_new
    BY <1>6 DEF PlanificadorLargo, LargoEspera, LargoIngresa, LargoAvisa, LargoCompuerta, LargoReanuda
  <2>2. NewEnMemoria'
    BY <1>1, <1>3, <2>1 DEF NewEnMemoria
  <2>3. CASE LargoIngresa
    <3>1. cola_ready' = Append(cola_ready, largo.pid) /\ largo'.pid = NADIE /\ largo.pid \in Pids
      BY <2>3 DEF LargoIngresa, TipoInv, EnMano
    <3>2. ASSUME NEW p \in Pids, Asentado(p)'
          PROVE  p \in memoria'
      <4>1. p # NADIE
        BY DEF Pids, NADIE
      <4>2. Veces(p, cola_ready)' > 0 => Veces(p, cola_ready) > 0 \/ largo.pid = p
        <5>1. Veces(p, cola_ready)' = Veces(p, cola_ready) + Uno(largo.pid = p)
          BY <3>1, VecesAppend DEF TipoInv, TypeOK, TipoColas
        <5>2. Veces(p, cola_ready) \in Nat
          BY CuentasNat
        <5>3. QED
          BY <5>1, <5>2 DEF Uno
      <4>3. Asentado(p)
        BY <1>4, <3>1, <3>2, <4>1, <4>2 DEF Asentado
      <4>4. QED
        BY <1>1, <4>3 DEF AsentadosEnMemoria
    <3>3. QED
      BY <1>2, <2>2, <3>2 DEF AsentadosEnMemoria
  <2>4. CASE ~LargoIngresa
    <3>1. UNCHANGED cola_ready /\ largo'.pid = largo.pid
      <4>1. largo \in [pc : Pc.largo, pid : Pids \cup {NADIE}]
        BY DEF TipoInv, TypeOK, TipoPlanificadores
      <4>2. LargoEspera \/ LargoAvisa \/ LargoCompuerta \/ LargoReanuda
        BY <1>6, <2>4 DEF PlanificadorLargo
      <4>3. UNCHANGED cola_ready /\ \E pc : largo' = [largo EXCEPT !.pc = pc]
        BY <4>2 DEF LargoEspera, LargoAvisa, LargoCompuerta, LargoReanuda
      <4>4. QED
        BY <4>1, <4>3
    <3>2. ASSUME NEW p \in Pids, Asentado(p)'
          PROVE  p \in memoria'
      <4>1. Veces(p, cola_ready)' = Veces(p, cola_ready)
        BY <3>1 DEF Veces
      <4>2. Asentado(p)
        BY <1>4, <3>1, <3>2, <4>1 DEF Asentado
      <4>3. QED
        BY <1>1, <4>2 DEF AsentadosEnMemoria
    <3>3. QED
      BY <1>2, <2>2, <3>2 DEF AsentadosEnMemoria
  <2>5. QED
    BY <2>3, <2>4
<1>7. QED
  BY <1>5, <1>6

(* The eviction thread asks for the end of a process that MEMORIA has, and *)
(* the answer is always that it is done.                                   *)
LEMMA DesalojoConMemoria ==
  ASSUME DeAUna, UnLugarInv, UnLugarInv', [Next]_vars, Dialogo, NewEnMemoria, AsentadosEnMemoria, Desalojo
  PROVE  /\ Dialogo' /\ NewEnMemoria' /\ AsentadosEnMemoria'
         /\ UNCHANGED kernel \/ AbortarPorDobleFree
<1> USE TiposDialogo DEF UnLugarInv
<1>1. /\ UNCHANGED <<hilo, result, memoria, cola_new, cola_ready, largo, gestor, cpu>>
  BY DEF Desalojo, consola
<1>2. Pendientes' = Pendientes
  BY <1>1 DEF Pendientes
<1>3. NewEnMemoria'
  BY <1>1, <1>2 DEF NewEnMemoria
<1>4. ASSUME NEW p \in Pids, Saliendo(p) => Saliendo(p)', Asentado(p)'
      PROVE  p \in memoria'
  <2>1. Asentado(p)
    BY <1>1, <1>4, AsentadoSi
  <2>2. QED
    BY <1>1, <2>1 DEF AsentadosEnMemoria
<1>5. CASE ExitLibera
  <2>1. /\ desalojo.pc = "exit" /\ desalojo' = [desalojo EXCEPT !.pc = "exit_recibe"]
        /\ pedidos' = Append(pedidos, [op |-> "ELIMINAR_PROCESO", pid |-> desalojo.pid,
                                       ruta |-> NINGUNO, quien |-> "desalojo"])
        /\ UNCHANGED <<kernel, respuestas>>
    BY <1>5 DEF ExitLibera, IrDesalojo
  <2>2. desalojo'.pc = "exit_recibe" /\ desalojo'.pid = desalojo.pid
    BY <2>1 DEF TipoInv, TypeOK, TipoManejadores
  <2>3. PICK p \in Pids : p = desalojo.pid
    BY <2>1 DEF TipoInv, EnMano, DesalojoEnMano, Pc
  <2>4. p \in memoria
    <3>1. EnDesalojo(p) /\ ~Saliendo(p)
      BY <2>1, <2>3 DEF EnDesalojo, Saliendo
    <3>2. EnExec(p) > 0
      <4>1. PICK a, b, c \in Nat : a = Veces(p, despacho) /\ b = EnMotivos(p) /\ c = Uno(cpu.pid = p)
        BY CuentasNat
      <4>2. EnExec(p) = a + c + 1 + b
        BY <3>1, <4>1 DEF EnExec, EnMotivos, Uno
      <4>3. QED
        BY <4>1, <4>2
    <3>3. QED
      BY <3>1, <3>2 DEF Asentado, AsentadosEnMemoria
  <2>5. PICK m \in Pedido : m = [op |-> "ELIMINAR_PROCESO", pid |-> desalojo.pid, ruta |-> NINGUNO, quien |-> "desalojo"]
    BY <2>3 DEF Pedido
  <2>6. m.quien = "desalojo" /\ PedidoBien(m)' /\ pedidos' = Append(pedidos, m)
    BY <1>1, <2>1, <2>2, <2>3, <2>4, <2>5 DEF PedidoBien
  <2>7. ~Espera("desalojo") /\ Espera("desalojo")'
    BY <2>1, <2>2 DEF Espera
  <2>8. Dialogo'
    BY <1>1, <2>1, <2>6, <2>7, DialogoPide
  <2>9. \A q \in Pids : ~Saliendo(q)
    BY <2>1 DEF Saliendo
  <2>10. QED
    BY <1>3, <1>4, <2>1, <2>8, <2>9 DEF AsentadosEnMemoria
<1>6. CASE ExitConfirma
  <2>1. /\ desalojo.pc = "exit_recibe" /\ respuestas # <<>> /\ Head(respuestas).quien = "desalojo"
        /\ respuestas' = Tail(respuestas) /\ UNCHANGED pedidos
    BY <1>6 DEF ExitConfirma, PuedeRecibir, DeAUna
  <2>2. Dialogo' /\ RespuestaBien(Head(respuestas))
    BY <1>1, <2>1, DialogoRecibe
  <2>3. Head(respuestas).valor = OK
    BY <2>1, <2>2 DEF RespuestaBien
  <2>4. desalojo' = [desalojo EXCEPT !.pc = "fin", !.pid = NADIE] /\ UNCHANGED kernel
    BY <1>6, <2>3 DEF ExitConfirma
  <2>5. desalojo'.pid = NADIE
    BY <2>4 DEF TipoInv, TypeOK, TipoManejadores
  <2>6. ASSUME NEW p \in Pids, Asentado(p)'
        PROVE  p \in memoria'
    <3>1. CASE Saliendo(p)
      <4>1. /\ ~Asentado(p) /\ Veces(p, despacho) = 0 /\ cpu.pid # p /\ EnMotivos(p) = 0
        BY <3>1, SalidaSola DEF SolaSalida
      <4>2. UNCHANGED <<cola_block, despacho, motivos>>
        BY <1>6, <2>1 DEF Desalojo, RecibirMotivo, ManejarWaitSignal, WaitInvalido, WaitAsigna,
                          WaitConfirma, WaitSinInstancias, WaitBloquea, WaitAvisa, ManejarSignal,
                          SignalInvalido, ManejarExit
      <4>3. Veces(p, despacho)' = 0 /\ cpu'.pid # p /\ EnMotivos(p)' = 0
        BY <1>1, <4>1, <4>2 DEF Veces, EnMotivos
      <4>4. ~EnDesalojo(p)'
        BY <2>5 DEF EnDesalojo, NADIE, Pids
      <4>5. EnExec(p)' = 0
        BY <4>3, <4>4 DEF EnExec, EnMotivos, Uno
      <4>6. EnAlgunBlock(p)' = EnAlgunBlock(p) /\ Veces(p, cola_ready)' = Veces(p, cola_ready)
        BY <1>1, <4>2 DEF EnAlgunBlock, EnRecurso, Veces
      <4>7. QED
        BY <1>1, <2>6, <4>1, <4>5, <4>6 DEF Asentado
    <3>2. QED
      BY <1>4, <2>6, <3>1
  <2>7. QED
    BY <1>3, <2>2, <2>4, <2>6 DEF AsentadosEnMemoria
<1>7. CASE ~ExitLibera /\ ~ExitConfirma
  <2>1. UNCHANGED <<pedidos, respuestas>>
    BY <1>7 DEF Desalojo, RecibirMotivo, ManejarWaitSignal, ManejarExit, AbortarPorDobleFree, FinDesalojo
  <2>2. desalojo.pc # "exit_recibe"
    BY <1>7 DEF Desalojo, RecibirMotivo, ManejarWaitSignal, ManejarExit, AbortarPorDobleFree, FinDesalojo,
           WaitInvalido, WaitAsigna, WaitConfirma, WaitSinInstancias, WaitBloquea, WaitAvisa,
           ManejarSignal, SignalInvalido
  <2>3. UNCHANGED kernel \/ AbortarPorDobleFree
    BY <1>7 DEF Desalojo, RecibirMotivo, ManejarWaitSignal, ManejarExit, FinDesalojo
  <2>4. Dialogo'
    BY <1>1, <2>1, <2>2, DialogoIgual
  <2>5. \A p \in Pids : ~Saliendo(p)
    BY <2>2 DEF Saliendo
  <2>6. QED
    BY <1>3, <1>4, <2>3, <2>4, <2>5 DEF AsentadosEnMemoria
<1>8. QED
  BY <1>5, <1>6, <1>7

(* The threads that talk to nobody, and the CPU.                           *)
LEMMA AjenosConMemoria ==
  ASSUME UnLugarInv, UnLugarInv', [Next]_vars, Dialogo, NewEnMemoria, AsentadosEnMemoria,
         HiloMultiprogramacion \/ PlanificadorCorto \/ Cpu \/ (\E r \in Recursos : Gestor(r))
  PROVE  Dialogo' /\ NewEnMemoria' /\ AsentadosEnMemoria'
<1> USE TiposDialogo DEF UnLugarInv
<1>1. UNCHANGED <<cola_new, hilo, result, memoria, pedidos, respuestas, desalojo, largo>>
  <2>1. CASE HiloMultiprogramacion
    BY <2>1 DEF HiloMultiprogramacion, BajarMultiprogramacion, alta
  <2>2. CASE PlanificadorCorto \/ Cpu
    BY <2>2 DEF PlanificadorCorto, Cpu, consola, conexion
  <2>3. CASE \E r \in Recursos : Gestor(r)
    BY <2>3 DEF Gestor, consola, conexion
  <2>4. QED
    BY <2>1, <2>2, <2>3
<1>2. Dialogo'
  BY <1>1, DialogoIgual
<1>3. Pendientes' = Pendientes
  BY <1>1 DEF Pendientes
<1>4. NewEnMemoria'
  BY <1>1, <1>3 DEF NewEnMemoria
<1>5. ASSUME NEW p \in Pids, Asentado(p)'
      PROVE  p \in memoria'
  <2>1. Saliendo(p) => Saliendo(p)'
    BY <1>1 DEF Saliendo
  <2>2. Asentado(p)
    BY <1>1, <1>5, <2>1, AsentadoSi
  <2>3. QED
    BY <1>1, <2>2 DEF AsentadosEnMemoria
<1>6. QED
  BY <1>2, <1>4, <1>5 DEF AsentadosEnMemoria

(* The CPU never waits in vain for an instruction.                         *)
LEMMA CpuConMemoria ==
  ASSUME UnLugarInv, AsentadosEnMemoria, cpu.pc # "colgada", Cpu
  PROVE  cpu'.pc # "colgada"
<1> USE DEF UnLugarInv
<1>1. CASE CpuFetch
  <2>1. PICK p \in Pids : p = cpu.pid
    BY <1>1 DEF CpuFetch, TipoInv, EnMano
  <2>2. ~Saliendo(p)
    BY <2>1, SalidaSola DEF SolaSalida
  <2>3. EnExec(p) > 0
    <3>1. PICK a, b, c \in Nat : a = Veces(p, despacho) /\ b = EnMotivos(p) /\ c = Uno(EnDesalojo(p))
      BY CuentasNat
    <3>2. EnExec(p) = a + 1 + c + b
      BY <2>1, <3>1 DEF EnExec, EnMotivos, Uno
    <3>3. QED
      BY <3>1, <3>2
  <2>4. cpu.pid \in memoria
    BY <2>1, <2>2, <2>3 DEF Asentado, AsentadosEnMemoria
  <2>5. QED
    BY <1>1, <2>4 DEF CpuFetch, TipoInv, TypeOK, TipoProcesador
<1>2. CASE CpuRecibe \/ CpuExit \/ CpuRecurso
  <2>1. cpu' \in {[pc |-> "pide", pid |-> Head(despacho)], [pc |-> "libre", pid |-> NADIE]}
    BY <1>2 DEF CpuRecibe, CpuExit, CpuRecurso, Desalojar
  <2>2. QED
    BY <2>1
<1>3. QED
  BY <1>1, <1>2 DEF Cpu

(* Every step.                                                             *)
LEMMA ConMemoriaPaso ==
  ASSUME DeAUna
  PROVE  ConMemoriaInv /\ [Next]_vars => ConMemoriaInv'
<1> SUFFICES ASSUME ConMemoriaInv, [Next]_vars PROVE ConMemoriaInv'
  OBVIOUS
<1>1. /\ ColasInv /\ UnLugarInv /\ Dialogo /\ NewEnMemoria /\ AsentadosEnMemoria
      /\ cpu.pc # "colgada" /\ SoloAbortaPorDobleFree /\ TipoInv
  BY DEF ConMemoriaInv, UnLugarInv
<1>2. ColasInv' /\ UnLugarInv'
  BY <1>1, ColasPaso, UnLugarPaso
<1>3. CASE UNCHANGED vars
  <2>1. UNCHANGED <<kernel, cola_new, cola_ready, cola_block, hilo, result, largo, desalojo, gestor,
                    memoria, pedidos, respuestas, despacho, motivos, cpu>>
    BY <1>3 DEF vars, consola, conexion, procesador
  <2>2. Dialogo' /\ Pendientes' = Pendientes
    BY <1>1, <2>1, DialogoIgual DEF Pendientes
  <2>3. NewEnMemoria'
    BY <1>1, <2>1, <2>2 DEF NewEnMemoria
  <2>4. AsentadosEnMemoria'
    BY <1>1, <2>1, AsentadoIgual DEF AsentadosEnMemoria
  <2>5. QED
    BY <1>1, <1>2, <2>1, <2>2, <2>3, <2>4 DEF ConMemoriaInv, SoloAbortaPorDobleFree
<1>4. CASE Next
  <2>1. kernel = "activo"
    BY <1>4 DEF Next, Orden, Consola, HiloMultiprogramacion, ConectarInterfaz, PlanificadorLargo, PlanificadorCorto,
                AtenderKernel, Cpu, Desalojo, Gestor, Activo
  <2>2. ASSUME NEW h \in Hilos, Orden(h) \/ Consola(h)
        PROVE  ConMemoriaInv'
    <3>1. UNCHANGED <<kernel, cola_ready, cola_block, largo, desalojo, gestor, memoria, despacho, motivos, cpu>>
      BY <2>2 DEF Orden, Consola, procesador
    <3>2. Dialogo' /\ NewEnMemoria'
      BY <1>1, <2>2, OrdenDialoga, ConsolaCalla, ConsolaHabla
    <3>3. AsentadosEnMemoria'
      BY <1>1, <3>1, AsentadoIgual DEF AsentadosEnMemoria
    <3>4. QED
      BY <1>1, <1>2, <2>1, <3>1, <3>2, <3>3 DEF ConMemoriaInv, SoloAbortaPorDobleFree
  <2>3. CASE PlanificadorLargo
    <3>1. UNCHANGED <<kernel, cpu>>
      <4>1. UNCHANGED cpu
        BY <2>3 DEF PlanificadorLargo, procesador
      <4>2. UNCHANGED kernel
        BY <1>1, <2>3, HayPcb DEF PlanificadorLargo, LargoEspera, LargoToma, LargoIngresa,
                                  LargoAvisa, LargoCompuerta, LargoReanuda
      <4>3. QED
        BY <4>1, <4>2
    <3>2. QED
      BY <1>1, <1>2, <2>1, <2>3, <3>1, LargoConMemoria DEF ConMemoriaInv, SoloAbortaPorDobleFree
  <2>4. CASE AtenderKernel
    <3>1. UNCHANGED <<kernel, cpu>>
      BY <2>4 DEF AtenderKernel, procesador
    <3>2. QED
      BY <1>1, <1>2, <2>1, <2>4, <3>1, MemoriaAtiende DEF ConMemoriaInv, SoloAbortaPorDobleFree
  <2>5. CASE Desalojo
    <3>1. UNCHANGED cpu
      BY <2>5 DEF Desalojo
    <3>2. Dialogo' /\ NewEnMemoria' /\ AsentadosEnMemoria' /\ (UNCHANGED kernel \/ AbortarPorDobleFree)
      BY <1>1, <1>2, <2>5, DesalojoConMemoria
    <3>3. SoloAbortaPorDobleFree'
      BY <2>1, <3>2 DEF SoloAbortaPorDobleFree, AbortarPorDobleFree
    <3>4. QED
      BY <1>1, <1>2, <3>1, <3>2, <3>3 DEF ConMemoriaInv
  <2>6. CASE HiloMultiprogramacion \/ PlanificadorCorto \/ Cpu \/ (\E r \in Recursos : Gestor(r))
    <3>1. UNCHANGED kernel
      BY <1>1, <2>6, HayPcb DEF HiloMultiprogramacion, PlanificadorCorto, CortoEspera, CortoDespacha,
                                CortoFinExec, CortoCompuerta, CortoReanuda, Cpu, Gestor
    <3>2. cpu'.pc # "colgada"
      <4>1. CASE Cpu
        BY <1>1, <4>1, CpuConMemoria
      <4>2. CASE HiloMultiprogramacion \/ PlanificadorCorto \/ (\E r \in Recursos : Gestor(r))
        BY <1>1, <4>2 DEF HiloMultiprogramacion, PlanificadorCorto, Gestor, procesador
      <4>3. QED
        BY <2>6, <4>1, <4>2
    <3>3. Dialogo' /\ NewEnMemoria' /\ AsentadosEnMemoria'
      BY <1>1, <1>2, <2>6, AjenosConMemoria
    <3>4. QED
      BY <1>2, <2>1, <3>1, <3>2, <3>3 DEF ConMemoriaInv, SoloAbortaPorDobleFree
  <2>7. ~ConectarInterfaz
    BY DEF DeAUna, ConectarInterfaz
  <2>8. QED
    BY <1>4, <2>2, <2>3, <2>4, <2>5, <2>6, <2>7 DEF Next
<1>5. QED
  BY <1>3, <1>4

LEMMA ConMemoriaInit == Init => ConMemoriaInv
<1> SUFFICES ASSUME Init PROVE ConMemoriaInv
  OBVIOUS
<1>1. ColasInv /\ UnLugarInv
  BY ColasInit, UnLugarInit
<1>2. DOMAIN <<>> = {}
  BY EmptySeq, LenProperties
<1>3. Dialogo
  BY <1>2 DEF Init, Dialogo, Esta
<1>4. NewEnMemoria
  BY <1>2 DEF Init, NewEnMemoria, Pendientes
<1>5. ASSUME NEW p \in Pids
      PROVE  ~Asentado(p)
  <2>1. p > lastPID /\ largo.pid # p
    BY DEF Init, Pids, NADIE
  <2>2. Ausente(p)
    BY <1>1, <2>1 DEF UnLugarInv, Separado
  <2>3. PICK n, l, e \in Nat : n = EnNew(p) /\ l = Veces(p, cola_ready) /\ e = EnExec(p)
    BY <1>1, CuentasNat DEF UnLugarInv
  <2>4. n + l + e = 0
    BY <2>2, <2>3 DEF Ausente, Suelto
  <2>5. l = 0 /\ e = 0
    BY <2>4
  <2>6. QED
    BY <2>1, <2>2, <2>3, <2>5 DEF Ausente, Asentado, EnAlgunBlock
<1>6. cpu.pc # "colgada" /\ SoloAbortaPorDobleFree
  BY DEF Init, SoloAbortaPorDobleFree
<1>7. QED
  BY <1>1, <1>3, <1>4, <1>5, <1>6 DEF ConMemoriaInv, AsentadosEnMemoria

LEMMA ConMemoriaInvariante ==
  ASSUME DeAUna
  PROVE  Spec => []ConMemoriaInv
<1>1. ConMemoriaInv /\ [Next]_vars => ConMemoriaInv'
  BY ConMemoriaPaso
<1>2. QED
  BY <1>1, ConMemoriaInit, PTL DEF Spec

(* With one console thread, replies taken by the thread that asked and no  *)
(* interface that connects meanwhile: MEMORIA has every process that is    *)
(* READY, dispatched or blocked, so the CPU never waits for an instruction *)
(* that does not come.                                                     *)
THEOREM ReadyConMemoriaDeAUna ==
  ASSUME DeAUna
  PROVE  Spec => []ReadyConMemoria
<1>1. ConMemoriaInv => ReadyConMemoria
  <2> SUFFICES ASSUME ConMemoriaInv, NEW p \in Pids,
                      Veces(p, cola_ready) + Veces(p, despacho) + Bloqueado(p) > 0
               PROVE  p \in memoria
    BY DEF ReadyConMemoria, ConMemoriaInv
  <2>1. UnLugarInv /\ AsentadosEnMemoria /\ TipoInv /\ Separado(p)
    BY DEF ConMemoriaInv, UnLugarInv
  <2>2. Bloqueado(p) \in {0, 1} /\ (Bloqueado(p) = 0 <=> \A r \in Recursos : EnRecurso(p, r) = 0)
    BY <2>1, UnaVezEnBlock
  <2>3. PICK a, b, c, d, e \in Nat : /\ a = Veces(p, cola_ready) /\ b = Veces(p, despacho) /\ c = Uno(cpu.pid = p)
                                     /\ d = Uno(EnDesalojo(p)) /\ e = EnMotivos(p)
    BY <2>1, CuentasNat
  <2>4. a > 0 \/ b > 0 \/ Bloqueado(p) # 0
    BY <2>2, <2>3
  <2>5. CASE a > 0
    BY <2>1, <2>3, <2>5 DEF Asentado, AsentadosEnMemoria
  <2>6. CASE b > 0
    <3>1. EnExec(p) = b + c + d + e
      BY <2>3 DEF EnExec, EnMotivos
    <3>2. EnExec(p) > 0
      BY <2>6, <3>1
    <3>3. ~Saliendo(p)
      BY <2>1, <2>3, <2>6, SalidaSola DEF SolaSalida
    <3>4. QED
      BY <2>1, <3>2, <3>3 DEF Asentado, AsentadosEnMemoria
  <2>7. CASE Bloqueado(p) # 0
    <3>1. EnAlgunBlock(p)
      BY <2>1, <2>2, <2>7, CuentasNat DEF EnAlgunBlock
    <3>2. QED
      BY <2>1, <3>1 DEF Asentado, AsentadosEnMemoria
  <2>8. QED
    BY <2>4, <2>5, <2>6, <2>7
<1>2. Spec => []ConMemoriaInv
  BY ConMemoriaInvariante
<1>3. QED
  BY <1>1, <1>2, PTL

(* Under the same hypotheses the kernel ends only by freeing a name twice: *)
(* MEMORIA always has the process that manejar_exit wants eliminated, and  *)
(* no planner gets NULL.                                                   *)
THEOREM SoloAbortaPorDobleFreeDeAUna ==
  ASSUME DeAUna
  PROVE  Spec => []SoloAbortaPorDobleFree
<1>1. ConMemoriaInv => SoloAbortaPorDobleFree
  BY DEF ConMemoriaInv
<1>2. Spec => []ConMemoriaInv
  BY ConMemoriaInvariante
<1>3. QED
  BY <1>1, <1>2, PTL

-----------------------------------------------------------------------------
(* Slots.  Who is in the system, as a place and not as a count.            *)
Vivo(p) ==
  \/ Esta(p, cola_new) \/ largo.pid = p \/ Esta(p, cola_ready)
  \/ Esta(p, despacho) \/ cpu.pid = p \/ EnDesalojo(p) \/ \E i \in DOMAIN motivos : motivos[i].pid = p
  \/ \E r \in Recursos : Esta(p, cola_block[r]) \/ (gestor[r].pc = "ingresa" /\ gestor[r].pid = p)

Ocupa(p) == Vivo(p) /\ \A h \in Hilos : hilo[h].pc \in {"new", "cupo"} => hilo[h].arg # p

Ocupados == {p \in Pids : OcupaCupo(p)}

(* With accepted programs every answer is OK.                              *)
Admitidos ==
  /\ \A i \in DOMAIN pedidos : pedidos[i].op = "CREAR_PROCESO" => pedidos[i].ruta = "valida"
  /\ \A i \in DOMAIN respuestas : respuestas[i].valor = OK
  /\ \A h \in Hilos : hilo[h].pc = "evalua" => result = OK
  /\ \A h \in Hilos : hilo[h].pc # "descarta"

CuposInv == ConMemoriaInv /\ Admitidos /\ CuposConservados

LEMMA VivoCuentas ==
  ASSUME UnLugarInv, NEW p \in Pids
  PROVE  /\ Vivo(p) <=> ~Ausente(p)
         /\ Copias(p) > 0 <=> Vivo(p) \/ PorNacer(p) # {}
<1>0. TipoInv /\ Separado(p)
  BY DEF UnLugarInv
<1>1. /\ cola_new \in Seq(Pids) /\ cola_ready \in Seq(Pids) /\ despacho \in Seq(Pids)
      /\ \A r \in Recursos : cola_block[r] \in Seq(Pids)
  BY <1>0 DEF TipoInv, TypeOK, TipoColas, TipoProcesador
<1>2. ASSUME NEW s \in Seq(Pids)
      PROVE  Esta(p, s) <=> Veces(p, s) # 0
  BY VecesPocas DEF Esta
<1>3. EnMotivos(p) # 0 <=> \E i \in DOMAIN motivos : motivos[i].pid = p
  <2>1. motivos \in Seq(Motivo)
    BY <1>0 DEF TipoInv, TypeOK, TipoProcesador
  <2>2. LosPid(motivos) \in Seq(Pids) /\ EnMotivos(p) = Ocurrencias(p, LosPid(motivos))
    BY <2>1, MotivosPid
  <2>3. Ocurrencias(p, LosPid(motivos)) = 0 <=> \A i \in DOMAIN LosPid(motivos) : LosPid(motivos)[i] # p
    BY <2>2, OcurrenciasNat
  <2>4. QED
    BY <2>2, <2>3 DEF LosPid
<1>14. /\ Uno(largo.pid = p) \in Nat /\ Uno(cpu.pid = p) \in Nat /\ Uno(EnDesalojo(p)) \in Nat
       /\ Veces(p, cola_new) \in Nat /\ Veces(p, cola_ready) \in Nat /\ Veces(p, despacho) \in Nat /\ EnMotivos(p) \in Nat
  BY <1>0, CuentasNat DEF Uno
<1>4. PICK a, b, c, d, e, f, g \in Nat :
        /\ a = Veces(p, cola_new) /\ b = Uno(largo.pid = p) /\ c = Veces(p, cola_ready)
        /\ d = Veces(p, despacho) /\ e = Uno(cpu.pid = p) /\ f = Uno(EnDesalojo(p)) /\ g = EnMotivos(p)
  BY <1>14
<1>5. /\ (a # 0 <=> Esta(p, cola_new)) /\ (b # 0 <=> largo.pid = p) /\ (c # 0 <=> Esta(p, cola_ready))
      /\ (d # 0 <=> Esta(p, despacho)) /\ (e # 0 <=> cpu.pid = p) /\ (f # 0 <=> EnDesalojo(p))
      /\ (g # 0 <=> \E i \in DOMAIN motivos : motivos[i].pid = p)
  <2>1. b # 0 <=> largo.pid = p
    BY <1>4 DEF Uno
  <2>2. (e # 0 <=> cpu.pid = p) /\ (f # 0 <=> EnDesalojo(p))
    BY <1>4 DEF Uno
  <2>3. (a # 0 <=> Esta(p, cola_new)) /\ (c # 0 <=> Esta(p, cola_ready)) /\ (d # 0 <=> Esta(p, despacho))
    BY <1>1, <1>2, <1>4
  <2>4. g # 0 <=> \E i \in DOMAIN motivos : motivos[i].pid = p
    BY <1>3, <1>4
  <2>5. QED
    BY <2>1, <2>2, <2>3, <2>4
<1>6. ASSUME NEW r \in Recursos
      PROVE  EnRecurso(p, r) # 0 <=> Esta(p, cola_block[r]) \/ (gestor[r].pc = "ingresa" /\ gestor[r].pid = p)
  <2>1. PICK x, y \in Nat : x = Veces(p, cola_block[r]) /\ y = Uno(gestor[r].pc = "ingresa" /\ gestor[r].pid = p)
    BY <1>0, CuentasNat
  <2>2. EnRecurso(p, r) = x + y
    BY <2>1 DEF EnRecurso
  <2>3. x # 0 <=> Esta(p, cola_block[r])
    BY <1>1, <1>2, <2>1
  <2>4. y # 0 <=> (gestor[r].pc = "ingresa" /\ gestor[r].pid = p)
    BY <2>1 DEF Uno
  <2>5. x + y # 0 <=> x # 0 \/ y # 0
    OBVIOUS
  <2>6. QED
    BY <2>2, <2>3, <2>4, <2>5
<1>7. Suelto(p) = a + b + c + (d + e + f + g)
  BY <1>4 DEF Suelto, EnNew, EnExec, EnMotivos
<1>8. Suelto(p) # 0 <=> a # 0 \/ b # 0 \/ c # 0 \/ d # 0 \/ e # 0 \/ f # 0 \/ g # 0
  BY <1>7
<1>9. Vivo(p) <=> ~Ausente(p)
  <2>1. Vivo(p) <=> (Suelto(p) # 0 \/ \E r \in Recursos : EnRecurso(p, r) # 0)
    BY <1>5, <1>6, <1>8, Zenon DEF Vivo
  <2>2. QED
    BY <2>1 DEF Ausente
<1>10. Bloqueado(p) \in Nat /\ (Bloqueado(p) = 0 <=> \A r \in Recursos : EnRecurso(p, r) = 0)
  BY <1>0, UnaVezEnBlock
<1>11. Cardinality(PorNacer(p)) \in Nat /\ (Cardinality(PorNacer(p)) = 0 <=> PorNacer(p) = {})
  BY <1>0, ALoSumoUno DEF Separado
<1>12. PICK s, x, y \in Nat : s = Suelto(p) /\ x = Bloqueado(p) /\ y = Cardinality(PorNacer(p))
  BY <1>7, <1>10, <1>11
<1>13. Copias(p) = s + x + y
  BY <1>12 DEF Copias, Suelto
<1>15. s + x + y > 0 <=> s # 0 \/ x # 0 \/ y # 0
  OBVIOUS
<1>16. QED
  BY <1>9, <1>10, <1>11, <1>12, <1>13, <1>15 DEF Ausente

LEMMA OcupaSi ==
  ASSUME NEW p \in Pids
  PROVE  UnLugarInv => (OcupaCupo(p) <=> Ocupa(p))
<1> SUFFICES ASSUME UnLugarInv PROVE OcupaCupo(p) <=> Ocupa(p)
  OBVIOUS
<1>1. Copias(p) > 0 <=> Vivo(p) \/ PorNacer(p) # {}
  BY VivoCuentas
<1>2. (\A h \in Hilos : hilo[h].pc \in {"new", "cupo"} => hilo[h].arg # p) => PorNacer(p) = {}
  BY DEF PorNacer
<1>3. QED
  BY <1>1, <1>2 DEF OcupaCupo, Ocupa

LEMMA OcupaSiPrima ==
  ASSUME NEW p \in Pids
  PROVE  UnLugarInv' => (OcupaCupo(p) <=> Ocupa(p))'
<1>1. UnLugarInv => (OcupaCupo(p) <=> Ocupa(p))
  BY OcupaSi
<1>2. QED
  BY <1>1, PTL

(* How many slots are taken, before and after.                             *)
LEMMA OcupadosFinito == IsFiniteSet(Ocupados) /\ Cardinality(Ocupados) \in Nat
<1>1. IsFiniteSet(Pids) /\ Ocupados \subseteq Pids
  BY ConstantesAssumption, FS_Interval DEF Pids, Ocupados
<1>2. QED
  BY <1>1, FS_Subset, FS_CardinalityType

LEMMA CuposIguales ==
  ASSUME UnLugarInv, UnLugarInv', \A p \in Pids : Ocupa(p)' <=> Ocupa(p)
  PROVE  Ocupados' = Ocupados
<1>1. \A p \in Pids : (OcupaCupo(p) <=> Ocupa(p)) /\ (OcupaCupo(p)' <=> Ocupa(p)')
  BY OcupaSi, OcupaSiPrima
<1>2. QED
  BY <1>1 DEF Ocupados, Pids

LEMMA CupoMas ==
  ASSUME UnLugarInv, UnLugarInv', NEW q \in Pids, ~Ocupa(q), Ocupa(q)',
         \A p \in Pids \ {q} : Ocupa(p)' <=> Ocupa(p)
  PROVE  Cardinality(Ocupados') = Cardinality(Ocupados) + 1
<1>1. \A p \in Pids : (OcupaCupo(p) <=> Ocupa(p)) /\ (OcupaCupo(p)' <=> Ocupa(p)')
  BY OcupaSi, OcupaSiPrima
<1>2. q \notin Ocupados /\ Ocupados' = Ocupados \cup {q}
  BY <1>1 DEF Ocupados, Pids
<1>3. QED
  BY <1>2, OcupadosFinito, FS_AddElement

LEMMA CupoMenos ==
  ASSUME UnLugarInv, UnLugarInv', NEW q \in Pids, Ocupa(q), ~Ocupa(q)',
         \A p \in Pids \ {q} : Ocupa(p)' <=> Ocupa(p)
  PROVE  Cardinality(Ocupados') = Cardinality(Ocupados) - 1
<1>1. \A p \in Pids : (OcupaCupo(p) <=> Ocupa(p)) /\ (OcupaCupo(p)' <=> Ocupa(p)')
  BY OcupaSi, OcupaSiPrima
<1>2. q \in Ocupados /\ Ocupados' = Ocupados \ {q}
  BY <1>1 DEF Ocupados, Pids
<1>3. QED
  BY <1>2, OcupadosFinito, FS_RemoveElement

(* The degree, with one thread.                                            *)
LEMMA GradoDe ==
  ASSUME DeAUna, NEW h \in Hilos
  PROVE  GradoVigente = IF hilo[h].pc = "fija" THEN hilo[h].arg ELSE GRADO
<1>1. \A k \in Hilos : k = h
  BY DEF DeAUna
<1>2. CASE hilo[h].pc = "fija"
  <2>1. (CHOOSE k \in Hilos : hilo[k].pc = "fija") = h
    BY <1>1, <1>2
  <2>2. QED
    BY <1>2, <2>1 DEF GradoVigente
<1>3. CASE hilo[h].pc # "fija"
  BY <1>1, <1>3 DEF GradoVigente
<1>4. QED
  BY <1>2, <1>3

LEMMA GradoDePrima ==
  ASSUME DeAUna, NEW h \in Hilos
  PROVE  GradoVigente' = IF hilo'[h].pc = "fija" THEN hilo'[h].arg ELSE GRADO'
<1>1. GradoVigente = IF hilo[h].pc = "fija" THEN hilo[h].arg ELSE GRADO
  BY GradoDe
<1>2. (GradoVigente = IF hilo[h].pc = "fija" THEN hilo[h].arg ELSE GRADO)'
  BY <1>1, PTL
<1>3. QED
  BY <1>2

LEMMA GradoIgual ==
  ASSUME DeAUna, UNCHANGED <<hilo, GRADO>>
  PROVE  GradoVigente' = GradoVigente
<1>1. CASE Hilos = {}
  BY <1>1 DEF GradoVigente
<1>2. ASSUME NEW h \in Hilos
      PROVE  GradoVigente' = GradoVigente
  BY GradoDe, GradoDePrima
<1>3. QED
  BY <1>1, <1>2

-----------------------------------------------------------------------------
(* Nobody leaves or comes but by the steps that say so.                    *)
LEMMA EstaAppend ==
  ASSUME NEW S, NEW s \in Seq(S), NEW m \in S, NEW p
  PROVE  /\ Esta(p, s) => \E i \in DOMAIN Append(s, m) : Append(s, m)[i] = p
         /\ \E i \in DOMAIN Append(s, m) : Append(s, m)[i] = m
<1>1. /\ Len(Append(s, m)) = Len(s) + 1 /\ Append(s, m)[Len(s) + 1] = m
      /\ \A i \in 1 .. Len(s) : Append(s, m)[i] = s[i]
      /\ Append(s, m) \in Seq(S)
  BY AppendProperties
<1>2. DOMAIN s = 1 .. Len(s) /\ Len(s) \in Nat /\ DOMAIN Append(s, m) = 1 .. Len(s) + 1
  BY <1>1, LenProperties
<1>3. Len(s) + 1 \in DOMAIN Append(s, m) /\ \A i \in 1 .. Len(s) : i \in DOMAIN Append(s, m)
  BY <1>2
<1>4. QED
  BY <1>1, <1>2, <1>3 DEF Esta

LEMMA EstaTail ==
  ASSUME NEW S, NEW s \in Seq(S), s # <<>>, NEW p, Esta(p, s)
  PROVE  p = Head(s) \/ \E i \in DOMAIN Tail(s) : Tail(s)[i] = p
<1>1. /\ Tail(s) \in Seq(S) /\ Len(Tail(s)) = Len(s) - 1 /\ Head(s) = s[1]
      /\ \A i \in 1 .. Len(Tail(s)) : Tail(s)[i] = s[i + 1]
  BY HeadTailProperties
<1>2. DOMAIN s = 1 .. Len(s) /\ Len(s) \in Nat /\ DOMAIN Tail(s) = 1 .. Len(Tail(s))
  BY <1>1, LenProperties
<1>3. PICK i \in 1 .. Len(s) : s[i] = p
  BY <1>2 DEF Esta
<1>4. CASE i = 1
  BY <1>1, <1>3, <1>4
<1>5. CASE i # 1
  <2>1. PICK j : j = i - 1
    OBVIOUS
  <2>2. j \in DOMAIN Tail(s) /\ i = j + 1
    BY <1>1, <1>2, <1>5, <2>1
  <2>3. Tail(s)[j] = p
    BY <1>1, <1>2, <1>3, <2>2
  <2>4. QED
    BY <2>2, <2>3
<1>6. QED
  BY <1>4, <1>5

LEMMA VivoMismo ==
  ASSUME NEW p,
         UNCHANGED <<cola_new, largo, cola_ready, despacho, cpu, desalojo, motivos, cola_block, gestor>>
  PROVE  Vivo(p)' <=> Vivo(p)
BY DEF Vivo, Esta, EnDesalojo

LEMMA LargoVivo ==
  ASSUME UnLugarInv, PlanificadorLargo, NEW p \in Pids, Vivo(p)
  PROVE  Vivo(p)'
<1> USE DEF UnLugarInv
<1>0. /\ UNCHANGED <<cola_block, gestor, desalojo, despacho, motivos, cpu>>
      /\ cola_new \in Seq(Pids) /\ cola_ready \in Seq(Pids) /\ p # NADIE
      /\ largo \in [pc : Pc.largo, pid : Pids \cup {NADIE}]
  BY DEF PlanificadorLargo, procesador, TipoInv, TypeOK, TipoColas, TipoPlanificadores, Pids, NADIE
<1>1. CASE LargoToma /\ cola_new # <<>>
  <2>1. largo'.pid = Head(cola_new) /\ cola_new' = Tail(cola_new) /\ UNCHANGED cola_ready /\ largo.pid = NADIE
    BY <1>1 DEF LargoToma, ManosExactas
  <2>2. Esta(p, cola_new) => largo'.pid = p \/ Esta(p, cola_new)'
    BY <1>0, <1>1, <2>1, EstaTail DEF Esta
  <2>3. QED
    BY <1>0, <2>1, <2>2 DEF Vivo, Esta, EnDesalojo
<1>2. CASE LargoIngresa
  <2>1. cola_ready' = Append(cola_ready, largo.pid) /\ UNCHANGED cola_new /\ largo.pid \in Pids
    BY <1>2 DEF LargoIngresa, TipoInv, EnMano
  <2>2. Esta(p, cola_ready) \/ largo.pid = p => Esta(p, cola_ready)'
    <3>1. PICK s \in Seq(Pids), d \in Pids : s = cola_ready /\ d = largo.pid
      BY <1>0, <2>1
    <3>2. Esta(p, s) \/ p = d => \E i \in DOMAIN Append(s, d) : Append(s, d)[i] = p
      BY EstaAppend
    <3>3. QED
      BY <2>1, <3>1, <3>2 DEF Esta
  <2>3. QED
    BY <1>0, <2>1, <2>2 DEF Vivo, Esta, EnDesalojo
<1>3. CASE ~(LargoToma /\ cola_new # <<>>) /\ ~LargoIngresa
  <2>1. UNCHANGED <<cola_new, cola_ready>>
    BY <1>3 DEF PlanificadorLargo, LargoEspera, LargoToma, LargoAvisa, LargoCompuerta, LargoReanuda
  <2>2. UNCHANGED largo \/ \E pc : largo' = [largo EXCEPT !.pc = pc]
    BY <1>3 DEF PlanificadorLargo, LargoEspera, LargoToma, LargoAvisa, LargoCompuerta, LargoReanuda
  <2>3. largo'.pid = largo.pid
    BY <1>0, <2>2
  <2>4. QED
    BY <1>0, <2>1, <2>3 DEF Vivo, Esta, EnDesalojo
<1>4. QED
  BY <1>1, <1>2, <1>3

LEMMA CortoVivo ==
  ASSUME UnLugarInv, PlanificadorCorto, NEW p \in Pids, Vivo(p)
  PROVE  Vivo(p)'
<1> USE DEF UnLugarInv
<1>0. /\ UNCHANGED <<cola_new, largo, cola_block, gestor, desalojo, motivos, cpu>>
      /\ despacho \in Seq(Pids) /\ cola_ready \in Seq(Pids)
  BY DEF PlanificadorCorto, TipoInv, TypeOK, TipoColas, TipoProcesador
<1>1. CASE CortoDespacha /\ cola_ready # <<>>
  <2>1. despacho' = Append(despacho, Head(cola_ready)) /\ cola_ready' = Tail(cola_ready) /\ Head(cola_ready) \in Pids
    BY <1>0, <1>1, HeadTailProperties DEF CortoDespacha
  <2>2. Esta(p, cola_ready) => p = Head(cola_ready) \/ Esta(p, cola_ready)'
    BY <1>0, <1>1, <2>1, EstaTail DEF Esta
  <2>3. Esta(p, despacho) \/ p = Head(cola_ready) => Esta(p, despacho)'
    <3>1. PICK s \in Seq(Pids), d \in Pids : s = despacho /\ d = Head(cola_ready)
      BY <1>0, <2>1
    <3>2. Esta(p, s) \/ p = d => \E i \in DOMAIN Append(s, d) : Append(s, d)[i] = p
      BY EstaAppend
    <3>3. QED
      BY <2>1, <3>1, <3>2 DEF Esta
  <2>4. QED
    BY <1>0, <2>2, <2>3 DEF Vivo, Esta, EnDesalojo
<1>2. CASE ~(CortoDespacha /\ cola_ready # <<>>)
  <2>1. UNCHANGED <<cola_ready, despacho>>
    BY <1>2 DEF PlanificadorCorto, CortoEspera, CortoDespacha, CortoFinExec, CortoCompuerta, CortoReanuda
  <2>2. QED
    BY <1>0, <2>1, VivoMismo
<1>3. QED
  BY <1>1, <1>2

LEMMA CpuVivo ==
  ASSUME UnLugarInv, Cpu, NEW p \in Pids, Vivo(p)
  PROVE  Vivo(p)'
<1> USE DEF UnLugarInv
<1>0. /\ UNCHANGED <<cola_new, cola_ready, largo, cola_block, gestor, desalojo>>
      /\ despacho \in Seq(Pids) /\ motivos \in Seq(Motivo) /\ p # NADIE
      /\ cpu \in [pc : Pc.cpu, pid : Pids \cup {NADIE}]
  BY DEF Cpu, TipoInv, TypeOK, TipoProcesador, Pids, NADIE
<1>1. CASE CpuRecibe
  <2>1. cpu'.pid = Head(despacho) /\ despacho' = Tail(despacho) /\ UNCHANGED motivos /\ cpu.pid = NADIE /\ despacho # <<>>
    BY <1>1 DEF CpuRecibe, ManosExactas
  <2>2. Esta(p, despacho) => cpu'.pid = p \/ Esta(p, despacho)'
    BY <1>0, <2>1, EstaTail DEF Esta
  <2>3. QED
    BY <1>0, <2>1, <2>2 DEF Vivo, Esta, EnDesalojo
<1>2. CASE CpuFetch
  <2>1. cpu'.pid = cpu.pid /\ UNCHANGED <<despacho, motivos>>
    BY <1>0, <1>2 DEF CpuFetch
  <2>2. QED
    BY <1>0, <2>1 DEF Vivo, Esta, EnDesalojo
<1>3. CASE CpuExit \/ CpuRecurso
  <2>1. UNCHANGED despacho /\ cpu.pid \in Pids
        /\ \E m \in Motivo : m.pid = cpu.pid /\ motivos' = Append(motivos, m)
    <3>1. CASE CpuExit
      BY <3>1 DEF CpuExit, Desalojar, Motivo, Motivos, NombresMsg, TipoInv, EnMano
    <3>2. CASE CpuRecurso
      BY <3>2 DEF CpuRecurso, Desalojar, Motivo, Motivos, NombresMsg, TipoInv, EnMano
    <3>3. QED
      BY <1>3, <3>1, <3>2
  <2>2. PICK m \in Motivo : m.pid = cpu.pid /\ motivos' = Append(motivos, m)
    BY <2>1
  <2>3. /\ \A n : Esta(n, motivos) => \E i \in DOMAIN motivos' : motivos'[i] = n
        /\ \E i \in DOMAIN motivos' : motivos'[i] = m
    BY <1>0, <2>2, EstaAppend
  <2>4. ASSUME cpu.pid = p \/ \E i \in DOMAIN motivos : motivos[i].pid = p
        PROVE  \E i \in DOMAIN motivos' : motivos'[i].pid = p
    BY <2>2, <2>3, <2>4 DEF Esta
  <2>5. QED
    BY <1>0, <2>1, <2>4 DEF Vivo, Esta, EnDesalojo
<1>4. QED
  BY <1>1, <1>2, <1>3 DEF Cpu

LEMMA DesalojoVivo ==
  ASSUME UnLugarInv, Desalojo, ~ExitConfirma, NEW p \in Pids, Vivo(p)
  PROVE  Vivo(p)'
<1> USE DEF UnLugarInv
<1>0. /\ UNCHANGED <<cola_new, cola_ready, largo, gestor, cpu>>
      /\ despacho \in Seq(Pids) /\ motivos \in Seq(Motivo) /\ p # NADIE
      /\ cola_block \in [Recursos -> Seq(Pids)]
      /\ desalojo \in [pc : Pc.desalojo, pid : Pids \cup {NADIE}, recurso : NombresMsg]
  BY DEF Desalojo, TipoInv, TypeOK, TipoProcesador, TipoColas, TipoManejadores, Pids, NADIE
<1>1. CASE RecibirMotivo
  <2>1. /\ motivos # <<>> /\ motivos' = Tail(motivos) /\ UNCHANGED <<cola_block, despacho>>
        /\ desalojo'.pid = Head(motivos).pid /\ desalojo.pid = NADIE
    BY <1>1 DEF RecibirMotivo, ManosExactas
  <2>2. desalojo'.pc \in {"exit", "wait", "signal"}
    <3>1. Head(motivos) \in Motivo
      BY <1>0, <2>1, HeadTailProperties
    <3>2. Head(motivos).motivo \in Motivos
      BY <3>1 DEF Motivo
    <3>3. QED
      BY <1>1, <3>2 DEF RecibirMotivo, Motivos
  <2>3. ASSUME NEW i \in DOMAIN motivos, motivos[i].pid = p
        PROVE  EnDesalojo(p)' \/ \E j \in DOMAIN motivos' : motivos'[j].pid = p
    <3>1. PICK m : m = motivos[i]
      OBVIOUS
    <3>2. Esta(m, motivos)
      BY <3>1 DEF Esta
    <3>3. m = Head(motivos) \/ \E j \in DOMAIN Tail(motivos) : Tail(motivos)[j] = m
      BY <1>0, <2>1, <3>2, EstaTail
    <3>4. m = Head(motivos) \/ \E j \in DOMAIN motivos' : motivos'[j] = m
      BY <2>1, <3>3
    <3>5. QED
      BY <2>1, <2>2, <2>3, <3>1, <3>4 DEF EnDesalojo
  <2>4. ~EnDesalojo(p)
    BY <1>0, <2>1 DEF EnDesalojo
  <2>5. QED
    BY <1>0, <2>1, <2>3, <2>4 DEF Vivo, Esta
<1>2. CASE WaitConfirma \/ ManejarSignal
  <2>1. desalojo.pid \in Pids
    BY <1>2 DEF WaitConfirma, ManejarSignal, TipoInv, EnMano, DesalojoEnMano, Pc
  <2>2. despacho' = Append(despacho, desalojo.pid) /\ UNCHANGED cola_block
    BY <1>2 DEF WaitConfirma, ManejarSignal
  <2>3. UNCHANGED motivos
    BY <1>2 DEF Desalojo, RecibirMotivo, ManejarWaitSignal, ManejarExit, WaitConfirma, ManejarSignal
  <2>4. Esta(p, despacho) \/ p = desalojo.pid => Esta(p, despacho)'
    <3>1. Esta(p, despacho) \/ p = desalojo.pid
            => \E i \in DOMAIN Append(despacho, desalojo.pid) : Append(despacho, desalojo.pid)[i] = p
      <4>1. PICK s \in Seq(Pids), d \in Pids : s = despacho /\ d = desalojo.pid
        BY <1>0, <2>1
      <4>2. Esta(p, s) \/ p = d => \E i \in DOMAIN Append(s, d) : Append(s, d)[i] = p
        BY EstaAppend
      <4>3. QED
        BY <4>1, <4>2
    <3>2. QED
      BY <2>2, <3>1 DEF Esta
  <2>5. QED
    BY <1>0, <2>2, <2>3, <2>4 DEF Vivo, Esta, EnDesalojo
<1>3. CASE WaitBloquea
  <2>1. desalojo.pid \in Pids /\ desalojo.recurso \in Recursos
    BY <1>3 DEF WaitBloquea, TipoInv, EnMano, DesalojoEnMano, Pc
  <2>2. /\ cola_block' = [cola_block EXCEPT ![desalojo.recurso] = Append(@, desalojo.pid)]
        /\ UNCHANGED <<despacho, motivos>>
    BY <1>3 DEF WaitBloquea, Desalojo, RecibirMotivo, ManejarWaitSignal, ManejarExit
  <2>3. ASSUME NEW r \in Recursos, Esta(p, cola_block[r]) \/ (r = desalojo.recurso /\ p = desalojo.pid)
        PROVE  Esta(p, cola_block[r])'
    <3>1. CASE r = desalojo.recurso
      <4>1. PICK s : s = cola_block[r]
        OBVIOUS
      <4>2. s \in Seq(Pids) /\ cola_block'[r] = Append(s, desalojo.pid)
        BY <1>0, <2>1, <2>2, <3>1, <4>1
      <4>3. Esta(p, s) \/ p = desalojo.pid
        BY <2>3, <3>1, <4>1
      <4>4. \E i \in DOMAIN Append(s, desalojo.pid) : Append(s, desalojo.pid)[i] = p
        BY <2>1, <4>2, <4>3, EstaAppend
      <4>5. QED
        BY <4>2, <4>4 DEF Esta
    <3>2. CASE r # desalojo.recurso
      BY <1>0, <2>2, <2>3, <3>2 DEF Esta
    <3>3. QED
      BY <3>1, <3>2
  <2>4. QED
    BY <1>0, <2>1, <2>2, <2>3 DEF Vivo, Esta, EnDesalojo
<1>4. CASE ~RecibirMotivo /\ ~WaitConfirma /\ ~ManejarSignal /\ ~WaitBloquea
  <2>1. UNCHANGED <<cola_block, despacho, motivos>>
    BY <1>4 DEF Desalojo, ManejarWaitSignal, WaitInvalido, WaitAsigna, WaitSinInstancias, WaitAvisa,
                SignalInvalido, ManejarExit
  <2>2. EnDesalojo(p) => EnDesalojo(p)'
    <3>1. CASE WaitInvalido \/ WaitAsigna \/ WaitSinInstancias \/ WaitAvisa \/ ExitLibera
      <4>1. /\ desalojo.pc \in {"wait", "avisa", "exit"}
            /\ \E pc \in {"exit", "confirma", "bloquea", "fin", "exit_recibe"} :
                 /\ desalojo' = [desalojo EXCEPT !.pc = pc]
                 /\ pc = "fin" => desalojo.pc = "avisa"
        BY <3>1 DEF WaitInvalido, WaitAsigna, WaitSinInstancias, WaitAvisa, ExitLibera, IrDesalojo
      <4>2. QED
        BY <1>0, <4>1 DEF EnDesalojo
    <3>2. CASE SignalInvalido
      BY <1>0, <3>2 DEF SignalInvalido, EnDesalojo
    <3>3. CASE AbortarPorDobleFree \/ FinDesalojo
      BY <3>3 DEF AbortarPorDobleFree, FinDesalojo, EnDesalojo
    <3>4. QED
      BY <1>4, <3>1, <3>2, <3>3 DEF Desalojo, ManejarWaitSignal, ManejarExit
  <2>3. QED
    BY <1>0, <2>1, <2>2 DEF Vivo, Esta
<1>5. QED
  BY <1>1, <1>2, <1>3, <1>4

LEMMA GestorVivo ==
  ASSUME UnLugarInv, NEW r \in Recursos, Gestor(r), NEW p \in Pids, Vivo(p)
  PROVE  Vivo(p)'
<1> USE DEF UnLugarInv
<1>0. /\ UNCHANGED <<cola_new, largo, desalojo, despacho, motivos, cpu>>
      /\ cola_ready \in Seq(Pids) /\ p # NADIE
      /\ cola_block \in [Recursos -> Seq(Pids)]
      /\ gestor \in [Recursos -> [pc : Pc.gestor, pid : Pids \cup {NADIE}]]
  BY DEF Gestor, procesador, TipoInv, TypeOK, TipoColas, TipoManejadores, Pids, NADIE
<1> DEFINE Mano(s) == gestor[s].pc = "ingresa" /\ gestor[s].pid = p
<1>1. CASE GestorSaca(r)
  <2>1. gestor[r].pc = "saca" /\ cola_block[r] # <<>> /\ Head(cola_block[r]) = gestor[r].pid
    BY <1>1 DEF GestorSaca, ManosExactas
  <2>2. /\ cola_block' = [cola_block EXCEPT ![r] = Tail(cola_block[r])] /\ UNCHANGED cola_ready
        /\ gestor' = [gestor EXCEPT ![r].pc = "ingresa"]
    BY <1>1, <2>1 DEF GestorSaca, IrGestor
  <2>3. Esta(p, cola_block[r]) => Esta(p, cola_block[r])' \/ Mano(r)'
    <3>1. Esta(p, cola_block[r]) => p = Head(cola_block[r]) \/ \E i \in DOMAIN Tail(cola_block[r]) : Tail(cola_block[r])[i] = p
      BY <1>0, <2>1, EstaTail
    <3>2. cola_block'[r] = Tail(cola_block[r]) /\ gestor'[r].pc = "ingresa" /\ gestor'[r].pid = gestor[r].pid
      BY <1>0, <2>2
    <3>3. QED
      BY <2>1, <3>1, <3>2 DEF Esta
  <2>4. \A s \in Recursos \ {r} : cola_block'[s] = cola_block[s] /\ gestor'[s] = gestor[s]
    BY <1>0, <2>2
  <2>5. ~Mano(r)
    BY <2>1
  <2>6. ASSUME NEW s \in Recursos, Esta(p, cola_block[s]) \/ Mano(s)
        PROVE  Esta(p, cola_block[s])' \/ Mano(s)'
    BY <2>3, <2>4, <2>5, <2>6 DEF Esta
  <2>7. QED
    BY <1>0, <2>2, <2>6 DEF Vivo, Esta, EnDesalojo
<1>2. CASE GestorIngresa(r)
  <2>1. /\ gestor[r].pc = "ingresa" /\ UNCHANGED cola_block
        /\ cola_ready' = Append(cola_ready, gestor[r].pid) /\ \A s \in Recursos \ {r} : gestor'[s] = gestor[s]
    BY <1>0, <1>2 DEF GestorIngresa
  <2>2. gestor[r].pid \in Pids
    BY <2>1 DEF TipoInv, EnMano
  <2>3. Esta(p, cola_ready) \/ p = gestor[r].pid => Esta(p, cola_ready)'
    <3>1. Esta(p, cola_ready) \/ p = gestor[r].pid
            => \E i \in DOMAIN Append(cola_ready, gestor[r].pid) : Append(cola_ready, gestor[r].pid)[i] = p
      BY <1>0, <2>2, EstaAppend
    <3>2. QED
      BY <2>1, <3>1 DEF Esta
  <2>4. QED
    BY <1>0, <2>1, <2>3 DEF Vivo, Esta, EnDesalojo
<1>3. CASE ~GestorSaca(r) /\ ~GestorIngresa(r)
  <2>1. UNCHANGED <<cola_ready, cola_block>>
    BY <1>3 DEF Gestor, GestorEsperaBlock, GestorEsperaInstancia, GestorAsigna, GestorAvisa
  <2>2. gestor[r].pc # "ingresa" /\ \A s \in Recursos \ {r} : gestor'[s] = gestor[s]
    BY <1>0, <1>3 DEF Gestor, GestorEsperaBlock, GestorEsperaInstancia, GestorAsigna, GestorAvisa, IrGestor
  <2>3. QED
    BY <1>0, <2>1, <2>2 DEF Vivo, Esta, EnDesalojo
<1>4. QED
  BY <1>1, <1>2, <1>3 DEF Gestor

(* While no console thread moves, nobody comes.                            *)
LEMMA NadieEntra ==
  ASSUME UnLugarInv, UnLugarInv', [Next]_vars, UNCHANGED <<hilo, lastPID>>, NEW p \in Pids, Ausente(p)
  PROVE  Ausente(p)'
<1>1. TipoInv /\ TipoInv' /\ ManosExactas
  BY DEF UnLugarInv
<1>2. PICK n, l, e \in Nat : n = EnNew(p) /\ l = Veces(p, cola_ready) /\ e = EnExec(p)
  BY <1>1, CuentasNat
<1>3. n = 0 /\ l = 0 /\ e = 0 /\ \A r \in Recursos : EnRecurso(p, r) = 0
  <2>1. n + l + e = 0
    BY <1>2 DEF Ausente, Suelto
  <2>2. QED
    BY <2>1 DEF Ausente
<1>4. PICK m, k, f \in Nat : m = EnNew(p)' /\ k = Veces(p, cola_ready)' /\ f = EnExec(p)'
  BY <1>1, CuentasNatPrima DEF Numeros
<1>5. \A r \in Recursos : EnRecurso(p, r)' \in Nat
  BY <1>1, CuentasNatPrima DEF Numeros
<1>6. Quieto(p) \/ Mueve(p)
  BY <1>1, PasoPcb DEF PasoDePcb
<1>7. CASE Quieto(p)
  BY <1>7 DEF Quieto, MismosRecursos, Ausente, Suelto
<1>8. CASE Nace(p)
  BY <1>8 DEF Nace
<1>9. CASE Ingresa(p)
  BY <1>9 DEF Ingresa, PorNacer
<1>10. CASE PasaDe(p)
  <2>1. m = n - 1 \/ k = l - 1 \/ f = e - 1
    BY <1>2, <1>4, <1>10 DEF PasaDe, Cambia
  <2>2. QED
    BY <1>3, <2>1
<1>11. ASSUME NEW r \in Recursos, Bloquea(p, r)
       PROVE  FALSE
  <2>1. f = e - 1
    BY <1>2, <1>4, <1>11 DEF Bloquea, Cambia
  <2>2. QED
    BY <1>3, <2>1
<1>12. ASSUME NEW r \in Recursos, Desbloquea(p, r)
       PROVE  FALSE
  <2>1. PICK x \in Nat : x = EnRecurso(p, r)'
    BY <1>5
  <2>2. x = 0 - 1
    BY <1>3, <1>12, <2>1 DEF Desbloquea
  <2>3. QED
    BY <2>2
<1>13. QED
  BY <1>6, <1>7, <1>8, <1>9, <1>10, <1>11, <1>12 DEF Mueve

LEMMA VivoCuentasPrima ==
  ASSUME NEW p \in Pids
  PROVE  UnLugarInv' => (Vivo(p) <=> ~Ausente(p))'
<1>1. UnLugarInv => (Vivo(p) <=> ~Ausente(p))
  BY VivoCuentas
<1>2. QED
  BY <1>1, PTL

(* What keeps the number of slots taken.                                   *)
LEMMA CuposQuietos ==
  ASSUME UnLugarInv, UnLugarInv', [Next]_vars, UNCHANGED <<hilo, lastPID>>,
         \A p \in Pids : Vivo(p) => Vivo(p)'
  PROVE  Ocupados' = Ocupados
<1>1. ASSUME NEW p \in Pids
      PROVE  Vivo(p)' <=> Vivo(p)
  <2>1. Vivo(p) <=> ~Ausente(p)
    BY VivoCuentas
  <2>2. (Vivo(p) <=> ~Ausente(p))'
    BY VivoCuentasPrima
  <2>3. Ausente(p) => Ausente(p)'
    BY NadieEntra
  <2>4. QED
    BY <2>1, <2>2, <2>3
<1>2. \A p \in Pids : Ocupa(p)' <=> Ocupa(p)
  BY <1>1 DEF Ocupa
<1>3. QED
  BY <1>2, CuposIguales

(* A console thread that neither brings a process nor gets it a slot.      *)
LEMMA CuposConsola ==
  ASSUME DeAUna, UnLugarInv, UnLugarInv', NEW h \in Hilos,
         UNCHANGED <<cola_new, largo, cola_ready, despacho, cpu, desalojo, motivos, cola_block, gestor>>,
         hilo[h].pc \notin {"new", "cupo"}, hilo'[h].pc \notin {"new", "cupo"}
  PROVE  Ocupados' = Ocupados
<1>1. \A k \in Hilos : k = h
  BY DEF DeAUna
<1>2. \A p \in Pids : Ocupa(p)' <=> Ocupa(p)
  BY <1>1, VivoMismo DEF Ocupa
<1>3. QED
  BY <1>2, CuposIguales

LEMMA CuposCrear ==
  ASSUME DeAUna, UnLugarInv, UnLugarInv', NEW h \in Hilos, CrearPcb(h),
         UNCHANGED <<cola_new, largo, cola_ready, despacho, cpu, desalojo, motivos, cola_block, gestor>>
  PROVE  Ocupados' = Ocupados
<1>0. TipoInv /\ \A k \in Hilos : k = h
  BY DEF UnLugarInv, DeAUna
<1>1. hilo[h].pc = "libre" /\ hilo'[h].pc = "new" /\ hilo'[h].arg = lastPID + 1 /\ lastPID + 1 \in Pids
  <2>1. hilo \in [Hilos -> [pc : Pc.hilo, arg : Nat, lineas : Nat]] /\ lastPID \in 0 .. MAX_PID
    BY <1>0 DEF TipoInv, TypeOK, TipoConsola
  <2>2. QED
    BY <2>1, ConstantesAssumption DEF CrearPcb, Comando, Ejecutar, Pids
<1>2. ~Vivo(lastPID + 1)
  <2>1. PICK q \in Pids : q = lastPID + 1
    BY <1>1
  <2>2. q > lastPID
    BY <2>1, <1>0 DEF TipoInv, TypeOK, TipoConsola
  <2>3. Ausente(q)
    BY <2>2 DEF UnLugarInv, Separado
  <2>4. QED
    BY <2>1, <2>3, VivoCuentas
<1>3. ASSUME NEW p \in Pids
      PROVE  Ocupa(p)' <=> Ocupa(p)
  <2>1. Vivo(p)' <=> Vivo(p)
    BY VivoMismo
  <2>2. QED
    BY <1>0, <1>1, <1>2, <2>1 DEF Ocupa
<1>4. QED
  BY <1>3, CuposIguales

LEMMA CuposNew ==
  ASSUME DeAUna, UnLugarInv, UnLugarInv', NEW h \in Hilos, IngresarANew(h),
         UNCHANGED <<largo, cola_ready, despacho, cpu, desalojo, motivos, cola_block, gestor>>
  PROVE  Ocupados' = Ocupados
<1>0. TipoInv /\ \A k \in Hilos : k = h
  BY DEF UnLugarInv, DeAUna
<1>1. /\ hilo[h].pc = "new" /\ hilo'[h].pc = "cupo" /\ hilo'[h].arg = hilo[h].arg
      /\ cola_new' = Append(cola_new, hilo[h].arg)
  <2>1. hilo \in [Hilos -> [pc : Pc.hilo, arg : Nat, lineas : Nat]]
    BY <1>0 DEF TipoInv, TypeOK, TipoConsola
  <2>2. QED
    BY <2>1 DEF IngresarANew, IrHilo
<1>2. cola_new \in Seq(Pids) /\ hilo[h].arg \in Pids
  BY <1>0, <1>1 DEF TipoInv, TypeOK, TipoColas, EnMano, HiloEnMano
<1>3. ASSUME NEW p \in Pids
      PROVE  Ocupa(p)' <=> Ocupa(p)
  <2>1. CASE p = hilo[h].arg
    BY <1>1, <2>1 DEF Ocupa
  <2>2. CASE p # hilo[h].arg
    <3>1. Esta(p, cola_new)' <=> Esta(p, cola_new)
      <4>1. /\ Esta(p, cola_new) => \E i \in DOMAIN cola_new' : cola_new'[i] = p
            /\ \A i \in DOMAIN cola_new' : (i \in DOMAIN cola_new /\ cola_new'[i] = cola_new[i]) \/ cola_new'[i] = hilo[h].arg
        BY <1>1, <1>2, EstaAppend, ElementosAppend
      <4>2. QED
        BY <2>2, <4>1 DEF Esta
    <3>2. Vivo(p)' <=> Vivo(p)
      BY <3>1 DEF Vivo, Esta, EnDesalojo
    <3>3. QED
      BY <1>0, <1>1, <2>2, <3>2 DEF Ocupa
  <2>3. QED
    BY <2>1, <2>2
<1>4. QED
  BY <1>3, CuposIguales

LEMMA CuposEnviar ==
  ASSUME DeAUna, ConMemoriaInv, UnLugarInv', NEW h \in Hilos, EnviarProcesoMemoria(h),
         UNCHANGED <<cola_new, largo, cola_ready, despacho, cpu, desalojo, motivos, cola_block, gestor>>
  PROVE  Cardinality(Ocupados') = Cardinality(Ocupados) + 1
<1>0. UnLugarInv /\ TipoInv /\ NewEnMemoria /\ \A k \in Hilos : k = h
  BY DEF ConMemoriaInv, UnLugarInv, DeAUna
<1>1. hilo[h].pc = "cupo" /\ hilo'[h].pc = "recibe" /\ hilo'[h].arg = hilo[h].arg
  <2>1. hilo \in [Hilos -> [pc : Pc.hilo, arg : Nat, lineas : Nat]]
    BY <1>0 DEF TipoInv, TypeOK, TipoConsola
  <2>2. QED
    BY <2>1 DEF EnviarProcesoMemoria, IrHilo
<1>2. PICK q \in Pids : q = hilo[h].arg
  BY <1>0, <1>1 DEF TipoInv, EnMano, HiloEnMano
<1>3. Vivo(q)
  <2>1. cola_new # <<>> /\ cola_new[Len(cola_new)] = q
    BY <1>0, <1>1, <1>2 DEF NewEnMemoria, Pendientes
  <2>2. cola_new \in Seq(Pids)
    BY <1>0 DEF TipoInv, TypeOK, TipoColas
  <2>3. Len(cola_new) \in DOMAIN cola_new
    BY <2>1, <2>2, ElementosTail, LenProperties
  <2>4. QED
    BY <2>1, <2>3 DEF Vivo, Esta
<1>4. \A p \in Pids : Vivo(p)' <=> Vivo(p)
  BY VivoMismo
<1>5. ~Ocupa(q) /\ Ocupa(q)'
  BY <1>0, <1>1, <1>2, <1>3, <1>4 DEF Ocupa
<1>6. \A p \in Pids \ {q} : Ocupa(p)' <=> Ocupa(p)
  BY <1>0, <1>1, <1>2, <1>4 DEF Ocupa
<1>7. QED
  BY <1>0, <1>5, <1>6, CupoMas

LEMMA CuposExit ==
  ASSUME ConMemoriaInv, UnLugarInv', [Next]_vars, Desalojo, ExitConfirma, Head(respuestas).valor = OK
  PROVE  Cardinality(Ocupados') = Cardinality(Ocupados) - 1
<1>0. UnLugarInv /\ TipoInv
  BY DEF ConMemoriaInv, UnLugarInv
<1>1. /\ desalojo.pc = "exit_recibe" /\ desalojo'.pid = NADIE /\ desalojo'.pc = "fin"
      /\ UNCHANGED <<cola_new, cola_ready, largo, cola_block, gestor, cpu, despacho, motivos, hilo, lastPID>>
  <2>1. UNCHANGED <<cola_block, despacho, motivos>>
    BY <1>0 DEF Desalojo, ExitConfirma, RecibirMotivo, ManejarWaitSignal, ManejarExit, WaitInvalido, WaitAsigna,
       WaitConfirma, WaitSinInstancias, WaitBloquea, WaitAvisa, ManejarSignal, SignalInvalido
  <2>2. desalojo \in [pc : Pc.desalojo, pid : Pids \cup {NADIE}, recurso : NombresMsg]
    BY <1>0 DEF TipoInv, TypeOK, TipoManejadores
  <2>3. QED
    BY <2>1, <2>2 DEF Desalojo, ExitConfirma, consola
<1>2. PICK q \in Pids : q = desalojo.pid
  BY <1>0, <1>1 DEF TipoInv, EnMano, DesalojoEnMano, Pc
<1>3. Vivo(q)
  BY <1>1, <1>2 DEF Vivo, EnDesalojo
<1>4. Separado(q) /\ Saliendo(q) /\ SolaSalida(q)
  BY <1>0, <1>1, <1>2, SalidaSola DEF UnLugarInv, Saliendo
<1>5. ASSUME NEW h \in Hilos, hilo[h].pc \in {"new", "cupo"}
      PROVE  hilo[h].arg # q
  <2>1. SUFFICES ASSUME hilo[h].arg = q PROVE FALSE
    OBVIOUS
  <2>2. CASE hilo[h].pc = "new"
    <3>1. ~(Vivo(q))
      BY <1>0, <1>4, <2>1, <2>2, VivoCuentas DEF Separado, PorNacer
    <3>2. QED
      BY <1>3, <3>1
  <2>3. CASE hilo[h].pc = "cupo"
    <3>1. cola_new # <<>> /\ cola_new[Len(cola_new)] = q
      BY <2>1, <2>3 DEF ConMemoriaInv, NewEnMemoria, Pendientes
    <3>2. cola_new \in Seq(Pids)
      BY <1>0 DEF TipoInv, TypeOK, TipoColas
    <3>3. Len(cola_new) \in DOMAIN cola_new
      BY <3>1, <3>2, ElementosTail, LenProperties
    <3>4. Esta(q, cola_new)
      BY <3>1, <3>3 DEF Esta
    <3>5. q \in ToSet(cola_new)
      BY <3>4 DEF Esta, ToSet
    <3>6. QED
      BY <1>4, <3>5 DEF SolaSalida
  <2>4. QED
    BY <1>5, <2>2, <2>3
<1>6. Ocupa(q)
  BY <1>3, <1>5 DEF Ocupa
<1>7. ~Vivo(q)'
  <2>1. /\ cola_ready \in Seq(Pids) /\ despacho \in Seq(Pids) /\ motivos \in Seq(Motivo)
        /\ \A r \in Recursos : cola_block[r] \in Seq(Pids)
    BY <1>0 DEF TipoInv, TypeOK, TipoColas, TipoProcesador
  <2>2. ~Esta(q, cola_new) /\ largo.pid # q /\ cpu.pid # q /\ ~EnAlgunBlock(q)
    BY <1>4 DEF SolaSalida, Asentado, Esta, ToSet
  <2>3. ~Esta(q, cola_ready) /\ ~Esta(q, despacho)
    <3>1. Veces(q, cola_ready) = 0 /\ Veces(q, despacho) = 0
      BY <1>0, <1>4, CuentasNat DEF SolaSalida, Asentado
    <3>2. QED
      BY <2>1, <3>1, VecesPocas DEF Esta
  <2>4. ~ \E i \in DOMAIN motivos : motivos[i].pid = q
    <3>1. LosPid(motivos) \in Seq(Pids) /\ Ocurrencias(q, LosPid(motivos)) = 0
      BY <1>4, <2>1, MotivosPid DEF SolaSalida
    <3>2. \A i \in DOMAIN LosPid(motivos) : LosPid(motivos)[i] # q
      BY <3>1, OcurrenciasNat
    <3>3. QED
      BY <3>2 DEF LosPid
  <2>5. ASSUME NEW r \in Recursos
        PROVE  ~Esta(q, cola_block[r]) /\ ~(gestor[r].pc = "ingresa" /\ gestor[r].pid = q)
    <3>1. PICK x, y \in Nat : x = Veces(q, cola_block[r]) /\ y = Uno(gestor[r].pc = "ingresa" /\ gestor[r].pid = q)
      BY <1>0, CuentasNat
    <3>2. EnRecurso(q, r) = x + y /\ ~(EnRecurso(q, r) > 0)
      BY <2>2, <3>1 DEF EnRecurso, EnAlgunBlock
    <3>3. x = 0 /\ y = 0
      BY <3>2
    <3>4. PICK s \in Seq(Pids) : s = cola_block[r]
      BY <2>1
    <3>5. Veces(q, s) = 0
      BY <3>1, <3>3, <3>4
    <3>6. ~Esta(q, cola_block[r])
      BY <3>4, <3>5, VecesPocas DEF Esta
    <3>7. QED
      BY <3>1, <3>3, <3>6 DEF Uno
  <2>6. ~EnDesalojo(q)'
    BY <1>1 DEF EnDesalojo
  <2>7. QED
    BY <1>1, <2>2, <2>3, <2>4, <2>5, <2>6 DEF Vivo, Esta
<1>8. \A p \in Pids \ {q} : Vivo(p)' <=> Vivo(p)
  BY <1>1, <1>2 DEF Vivo, Esta, EnDesalojo, NADIE, Pids
<1>9. ~Ocupa(q)' /\ \A p \in Pids \ {q} : Ocupa(p)' <=> Ocupa(p)
  BY <1>1, <1>7, <1>8 DEF Ocupa
<1>10. QED
  BY <1>0, <1>6, <1>9, CupoMenos

(* Nothing but accepted programs, so nothing but OK.                       *)
LEMMA AdmitidosConsola ==
  ASSUME RUTAS \subseteq {"valida"}, TipoInv, Admitidos, NEW h \in Hilos, Orden(h) \/ Consola(h)
  PROVE  Admitidos'
<1>0. /\ hilo \in [Hilos -> [pc : Pc.hilo, arg : Nat, lineas : Nat]]
      /\ pedidos \in Seq(Pedido) /\ respuestas \in Seq(Respuesta)
  BY DEF TipoInv, TypeOK, TipoConsola, TipoConexion
<1>1. hilo[h].pc # "descarta" /\ (hilo[h].pc = "evalua" => result = OK)
  BY DEF Admitidos
<1>2. \A k \in Hilos \ {h} : hilo'[k] = hilo[k]
  BY <1>0 DEF Orden, Consola, CrearPcb, Multiprogramacion, DetenerPlanificacion, IniciarPlanificacion,
     IngresarANew, EnviarProcesoMemoria, RecibirResultado, ProcesoCreado, ErrorAlCrear, DescartarDeNew,
     FijarGrado, DetenerCorto, DetenerLargo, RetenerNew, RetenerReady, RetenerBlock, BajarPlanificacion,
     LiberarNew, LiberarReady, LiberarBlock, LevantarPlanificacion, Reanudar, Ejecutar, IrHilo, IrHiloCon
<1>3. CASE RecibirResultado(h)
  <2>1. respuestas # <<>> /\ respuestas' = Tail(respuestas) /\ result' = Head(respuestas).valor
        /\ UNCHANGED pedidos /\ hilo'[h].pc = "evalua"
    BY <1>0, <1>3 DEF RecibirResultado, PuedeRecibir, IrHilo
  <2>2. /\ 1 \in DOMAIN respuestas /\ Head(respuestas) = respuestas[1]
        /\ \A i \in DOMAIN respuestas' : i + 1 \in DOMAIN respuestas /\ respuestas'[i] = respuestas[i + 1]
    BY <1>0, <2>1, ElementosTail
  <2>3. result' = OK /\ \A i \in DOMAIN respuestas' : respuestas'[i].valor = OK
    BY <2>1, <2>2 DEF Admitidos
  <2>4. QED
    BY <1>2, <2>1, <2>3 DEF Admitidos
<1>4. CASE EnviarProcesoMemoria(h)
  <2>1. PICK ruta \in RUTAS :
          pedidos' = Append(pedidos, [op |-> "CREAR_PROCESO", pid |-> hilo[h].arg, ruta |-> ruta, quien |-> h])
    BY <1>4 DEF EnviarProcesoMemoria
  <2>2. PICK m : m = [op |-> "CREAR_PROCESO", pid |-> hilo[h].arg, ruta |-> ruta, quien |-> h]
    OBVIOUS
  <2>3. m \in Pedido /\ m.ruta = "valida" /\ pedidos' = Append(pedidos, m)
    <3>1. hilo[h].arg \in Pids
      BY <1>4 DEF TipoInv, EnMano, HiloEnMano, EnviarProcesoMemoria
    <3>2. QED
      BY <2>1, <2>2, <3>1 DEF Pedido
  <2>4. \A i \in DOMAIN pedidos' : (i \in DOMAIN pedidos /\ pedidos'[i] = pedidos[i]) \/ pedidos'[i] = m
    BY <1>0, <2>3, ElementosAppend
  <2>5. UNCHANGED <<respuestas, result>> /\ hilo'[h].pc = "recibe"
    BY <1>0, <1>4 DEF EnviarProcesoMemoria, IrHilo
  <2>6. \A i \in DOMAIN pedidos' : pedidos'[i].op = "CREAR_PROCESO" => pedidos'[i].ruta = "valida"
    BY <2>3, <2>4 DEF Admitidos
  <2>7. QED
    BY <1>2, <2>5, <2>6 DEF Admitidos
<1>5. CASE ~RecibirResultado(h) /\ ~EnviarProcesoMemoria(h)
  <2>1. UNCHANGED <<pedidos, respuestas, result>>
    BY <1>5 DEF Orden, Consola, CrearPcb, Multiprogramacion, DetenerPlanificacion, IniciarPlanificacion,
       IngresarANew, ProcesoCreado, ErrorAlCrear, DescartarDeNew, FijarGrado, DetenerCorto, DetenerLargo,
       RetenerNew, RetenerReady, RetenerBlock, BajarPlanificacion,
     LiberarNew, LiberarReady, LiberarBlock, LevantarPlanificacion, Reanudar, alta
  <2>2. hilo'[h].pc \notin {"evalua", "descarta"}
    <3>1. CASE Orden(h)
      BY <1>0, <3>1 DEF Orden, CrearPcb, Multiprogramacion, DetenerPlanificacion, IniciarPlanificacion, Ejecutar
    <3>2. CASE Consola(h)
      BY <1>0, <1>1, <1>5, <3>2 DEF Consola, IngresarANew, ProcesoCreado, ErrorAlCrear, DescartarDeNew,
         FijarGrado, DetenerCorto, DetenerLargo, RetenerNew, RetenerReady, RetenerBlock, BajarPlanificacion,
     LiberarNew, LiberarReady, LiberarBlock, LevantarPlanificacion, Reanudar, IrHilo, IrHiloCon
    <3>3. QED
      BY <3>1, <3>2
  <2>3. QED
    BY <1>2, <2>1, <2>2 DEF Admitidos
<1>6. QED
  BY <1>3, <1>4, <1>5

LEMMA AdmitidosMemoria ==
  ASSUME TipoInv, Dialogo, Admitidos, AtenderKernel
  PROVE  Admitidos'
<1>0. /\ pedidos \in Seq(Pedido) /\ respuestas \in Seq(Respuesta) /\ pedidos # <<>>
      /\ pedidos' = Tail(pedidos) /\ UNCHANGED <<hilo, result>>
  BY DEF TipoInv, TypeOK, TipoConexion, AtenderKernel, consola
<1>1. /\ 1 \in DOMAIN pedidos /\ Head(pedidos) = pedidos[1]
      /\ \A i \in DOMAIN pedidos' : i + 1 \in DOMAIN pedidos /\ pedidos'[i] = pedidos[i + 1]
  BY <1>0, ElementosTail
<1>2. PICK p \in Pedido : p = Head(pedidos)
  BY <1>0, ElementosTail
<1>3. IF p.op = "CREAR_PROCESO" THEN p.ruta = "valida" ELSE p.pid \in memoria
  <2>1. PedidoBien(p)
    BY <1>1, <1>2, CadaMensaje
  <2>2. p.op = "CREAR_PROCESO" => p.ruta = "valida"
    BY <1>1, <1>2 DEF Admitidos
  <2>3. QED
    BY <2>1, <2>2 DEF PedidoBien
<1>4. PICK m : m = [valor |-> OK, quien |-> p.quien]
  OBVIOUS
<1>5. respuestas' = Append(respuestas, m) /\ m \in Respuesta /\ m.valor = OK
  <2>1. respuestas' = Append(respuestas, m)
    BY <1>2, <1>3, <1>4 DEF AtenderKernel
  <2>2. QED
    BY <1>2, <1>4, <2>1 DEF Pedido, Respuesta
<1>6. \A i \in DOMAIN respuestas' : (i \in DOMAIN respuestas /\ respuestas'[i] = respuestas[i]) \/ respuestas'[i] = m
  BY <1>0, <1>5, ElementosAppend
<1>7. QED
  BY <1>0, <1>1, <1>5, <1>6 DEF Admitidos

LEMMA AdmitidosDesalojo ==
  ASSUME TipoInv, Admitidos, Desalojo
  PROVE  Admitidos'
<1>0. /\ pedidos \in Seq(Pedido) /\ respuestas \in Seq(Respuesta) /\ UNCHANGED <<hilo, result>>
  BY DEF TipoInv, TypeOK, TipoConexion, Desalojo, consola
<1>1. CASE ExitLibera
  <2>1. PICK m : m = [op |-> "ELIMINAR_PROCESO", pid |-> desalojo.pid, ruta |-> NINGUNO, quien |-> "desalojo"]
    OBVIOUS
  <2>2. desalojo.pid \in Pids
    BY <1>1 DEF ExitLibera, TipoInv, EnMano, DesalojoEnMano, Pc
  <2>3. m \in Pedido /\ m.op # "CREAR_PROCESO" /\ pedidos' = Append(pedidos, m) /\ UNCHANGED respuestas
    BY <1>1, <2>1, <2>2 DEF ExitLibera, Pedido
  <2>4. \A i \in DOMAIN pedidos' : (i \in DOMAIN pedidos /\ pedidos'[i] = pedidos[i]) \/ pedidos'[i] = m
    BY <1>0, <2>3, ElementosAppend
  <2>5. QED
    BY <1>0, <2>3, <2>4 DEF Admitidos
<1>2. CASE ExitConfirma
  <2>1. respuestas # <<>> /\ respuestas' = Tail(respuestas) /\ UNCHANGED pedidos
    BY <1>2 DEF ExitConfirma, PuedeRecibir
  <2>2. \A i \in DOMAIN respuestas' : i + 1 \in DOMAIN respuestas /\ respuestas'[i] = respuestas[i + 1]
    BY <1>0, <2>1, ElementosTail
  <2>3. QED
    BY <1>0, <2>1, <2>2 DEF Admitidos
<1>3. CASE ~ExitLibera /\ ~ExitConfirma
  <2>1. UNCHANGED <<pedidos, respuestas>>
    BY <1>3 DEF Desalojo, RecibirMotivo, ManejarWaitSignal, ManejarExit, AbortarPorDobleFree, FinDesalojo
  <2>2. QED
    BY <1>0, <2>1 DEF Admitidos
<1>4. QED
  BY <1>1, <1>2, <1>3

LEMMA AdmitidosPaso ==
  ASSUME RUTAS \subseteq {"valida"}, TipoInv, Dialogo, Admitidos, [Next]_vars
  PROVE  Admitidos'
<1>0. CASE ConectarInterfaz
  BY <1>0 DEF Admitidos, ConectarInterfaz, conexion
<1>1. CASE \/ UNCHANGED vars \/ HiloMultiprogramacion \/ PlanificadorLargo \/ PlanificadorCorto \/ Cpu
           \/ \E r \in Recursos : Gestor(r)
  <2>1. UNCHANGED <<pedidos, respuestas, hilo, result>>
    BY <1>1 DEF vars, consola, conexion, HiloMultiprogramacion, BajarMultiprogramacion, alta, PlanificadorLargo,
       PlanificadorCorto, Cpu, Gestor
  <2>2. QED
    BY <2>1 DEF Admitidos
<1>2. QED
  BY <1>0, <1>1, AdmitidosConsola, AdmitidosMemoria, AdmitidosDesalojo DEF Next

-----------------------------------------------------------------------------
(* The slots, step by step.                                                *)
Mult == sem["sem_multiprogramacion"]

LEMMA CuposSon == CuposConservados <=> (Mult + Cardinality(Ocupados) = GradoVigente + bajando)
BY DEF CuposConservados, Ocupados, Mult

LEMMA CuposSonPrima == CuposConservados' <=> (Mult' + Cardinality(Ocupados') = GradoVigente' + bajando')
<1>1. (CuposConservados <=> (Mult + Cardinality(Ocupados) = GradoVigente + bajando))'
  BY CuposSon, PTL
<1>2. QED
  BY <1>1

LEMMA CuposMismos ==
  ASSUME CuposConservados, Mult' = Mult, Ocupados' = Ocupados, bajando' = bajando, GradoVigente' = GradoVigente
  PROVE  CuposConservados'
BY CuposSon, CuposSonPrima

(* With a thread at all, the numbers are numbers.                          *)
LEMMA CuposNat ==
  ASSUME TipoInv
  PROVE  Mult \in Nat /\ bajando \in Nat /\ GRADO \in Nat /\ sem \in [Semaforos -> Nat]
BY DEF TipoInv, TypeOK, TipoConsola, Mult, Semaforos

LEMMA CuposOrden ==
  ASSUME DeAUna, ConMemoriaInv, UnLugarInv', CuposConservados, NEW h \in Hilos, Orden(h)
  PROVE  CuposConservados'
<1>0. /\ UnLugarInv /\ TipoInv /\ hilo \in [Hilos -> [pc : Pc.hilo, arg : Nat, lineas : Nat]]
      /\ UNCHANGED <<cola_new, largo, cola_ready, despacho, cpu, desalojo, motivos, cola_block, gestor, GRADO>>
  BY DEF ConMemoriaInv, UnLugarInv, TipoInv, TypeOK, TipoConsola, Orden, CrearPcb, Multiprogramacion,
     DetenerPlanificacion, IniciarPlanificacion, procesador, grado, alta
<1>1. hilo[h].pc = "libre"
  BY DEF Orden, CrearPcb, Multiprogramacion, DetenerPlanificacion, IniciarPlanificacion, Comando
<1>2. CASE Multiprogramacion(h)
  <2>1. PICK g \in GRADOS \ {GRADO} :
          /\ Ejecutar(h, "fija", g)
          /\ sem' = [sem EXCEPT !["sem_multiprogramacion"] = @ + (IF g > GRADO THEN g - GRADO ELSE 0)]
          /\ bajando' = bajando + (IF g < GRADO THEN GRADO - g ELSE 0)
    BY <1>2 DEF Multiprogramacion
  <2>2. hilo'[h].pc = "fija" /\ hilo'[h].arg = g
    BY <1>0, <2>1 DEF Ejecutar
  <2>3. Ocupados' = Ocupados
    BY <1>0, <1>1, <2>2, CuposConsola
  <2>4. GradoVigente = GRADO /\ GradoVigente' = g
    BY <1>1, <2>2, GradoDe, GradoDePrima
  <2>5. Mult' = Mult + (IF g > GRADO THEN g - GRADO ELSE 0)
    BY <1>0, <2>1, CuposNat DEF Mult, Semaforos
  <2>6. PICK a, b, c, d, o \in Nat : a = Mult /\ b = bajando /\ c = GRADO /\ d = g /\ o = Cardinality(Ocupados)
    BY <1>0, CuposNat, OcupadosFinito, ConstantesAssumption
  <2>7. a + o = c + b
    BY <2>4, <2>6, CuposSon
  <2>8. Mult' = a + (IF d > c THEN d - c ELSE 0) /\ bajando' = b + (IF d < c THEN c - d ELSE 0)
    BY <2>1, <2>5, <2>6
  <2>9. (a + (IF d > c THEN d - c ELSE 0)) + o = d + (b + (IF d < c THEN c - d ELSE 0))
    BY <2>7
  <2>10. QED
    BY <2>3, <2>4, <2>6, <2>8, <2>9, CuposSonPrima
<1>3. CASE CrearPcb(h) \/ DetenerPlanificacion(h) \/ IniciarPlanificacion(h)
  <2>1. hilo'[h].pc # "fija" /\ (~CrearPcb(h) => hilo'[h].pc \notin {"new", "cupo"})
    BY <1>0, <1>3 DEF CrearPcb, DetenerPlanificacion, IniciarPlanificacion, Ejecutar
  <2>2. Ocupados' = Ocupados
    BY <1>0, <1>1, <2>1, CuposConsola, CuposCrear
  <2>3. GradoVigente' = GradoVigente
    BY <1>0, <1>1, <2>1, GradoDe, GradoDePrima
  <2>4. Mult' = Mult /\ bajando' = bajando
    BY <1>3 DEF CrearPcb, DetenerPlanificacion, IniciarPlanificacion, grado, Mult
  <2>5. QED
    BY <2>2, <2>3, <2>4, CuposMismos
<1>4. QED
  BY <1>2, <1>3 DEF Orden

LEMMA CuposConsolaPaso ==
  ASSUME DeAUna, ConMemoriaInv, Admitidos, UnLugarInv', CuposConservados, NEW h \in Hilos, Consola(h)
  PROVE  CuposConservados'
<1>0. /\ UnLugarInv /\ TipoInv /\ hilo \in [Hilos -> [pc : Pc.hilo, arg : Nat, lineas : Nat]]
      /\ UNCHANGED <<largo, cola_ready, despacho, cpu, desalojo, motivos, cola_block, gestor>>
  BY DEF ConMemoriaInv, UnLugarInv, TipoInv, TypeOK, TipoConsola, Consola, procesador
<1>1. ~ErrorAlCrear(h) /\ ~DescartarDeNew(h)
  BY DEF Admitidos, ErrorAlCrear, DescartarDeNew
<1>2. CASE EnviarProcesoMemoria(h)
  <2>1. UNCHANGED <<cola_new, GRADO, bajando>> /\ sem["sem_multiprogramacion"] > 0
        /\ sem' = [sem EXCEPT !["sem_multiprogramacion"] = @ - 1]
        /\ hilo[h].pc = "cupo" /\ hilo'[h].pc = "recibe"
    BY <1>0, <1>2 DEF EnviarProcesoMemoria, SemWait, grado, IrHilo
  <2>2. Cardinality(Ocupados') = Cardinality(Ocupados) + 1
    BY <1>0, <1>2, <2>1, CuposEnviar
  <2>3. GradoVigente = GRADO /\ GradoVigente' = GRADO
    BY <2>1, GradoDe, GradoDePrima
  <2>4. Mult' = Mult - 1
    BY <1>0, <2>1, CuposNat DEF Mult, Semaforos
  <2>5. PICK a, b, c, o \in Nat : a = Mult /\ b = bajando /\ c = GRADO /\ o = Cardinality(Ocupados)
    BY <1>0, CuposNat, OcupadosFinito
  <2>6. a + o = c + b
    BY <2>3, <2>5, CuposSon
  <2>7. (a - 1) + (o + 1) = c + b
    BY <2>6
  <2>8. QED
    BY <2>1, <2>2, <2>3, <2>4, <2>5, <2>7, CuposSonPrima
<1>3. CASE FijarGrado(h)
  <2>1. /\ hilo[h].pc = "fija" /\ hilo'[h].pc = "libre" /\ GRADO' = hilo[h].arg
        /\ UNCHANGED <<cola_new, bajando, sem>>
    BY <1>0, <1>3 DEF FijarGrado, alta, IrHiloCon
  <2>2. Ocupados' = Ocupados
    BY <1>0, <2>1, CuposConsola
  <2>3. GradoVigente' = GradoVigente
    BY <2>1, GradoDe, GradoDePrima
  <2>4. QED
    BY <2>1, <2>2, <2>3, CuposMismos DEF Mult
<1>4. CASE ~EnviarProcesoMemoria(h) /\ ~FijarGrado(h)
  <2>1. /\ hilo[h].pc # "fija" /\ hilo'[h].pc # "fija"
        /\ ~IngresarANew(h) => hilo[h].pc \notin {"new", "cupo"} /\ hilo'[h].pc \notin {"new", "cupo"}
    BY <1>0, <1>1, <1>4 DEF Consola, IngresarANew, RecibirResultado, ProcesoCreado, DetenerCorto, DetenerLargo,
       RetenerNew, RetenerReady, RetenerBlock, BajarPlanificacion,
     LiberarNew, LiberarReady, LiberarBlock, LevantarPlanificacion, Reanudar, IrHilo, IrHiloCon
  <2>2. UNCHANGED <<GRADO, bajando>> /\ (~IngresarANew(h) => UNCHANGED cola_new)
    BY <1>1, <1>4 DEF Consola, IngresarANew, RecibirResultado, ProcesoCreado, DetenerCorto, DetenerLargo,
       RetenerNew, RetenerReady, RetenerBlock, BajarPlanificacion,
     LiberarNew, LiberarReady, LiberarBlock, LevantarPlanificacion, Reanudar, alta, grado
  <2>3. Mult' = Mult
    <3>1. sem \in [Semaforos -> Nat]
      BY <1>0, CuposNat
    <3>2. QED
      BY <1>1, <1>4, <3>1 DEF Consola, IngresarANew, RecibirResultado, ProcesoCreado, DetenerCorto, DetenerLargo,
         RetenerNew, RetenerReady, RetenerBlock, BajarPlanificacion,
     LiberarNew, LiberarReady, LiberarBlock, LevantarPlanificacion, Reanudar, SemWait, SemPost, Mult, Semaforos
  <2>4. Ocupados' = Ocupados
    BY <1>0, <2>1, <2>2, CuposConsola, CuposNew
  <2>5. GradoVigente' = GradoVigente
    BY <2>1, <2>2, GradoDe, GradoDePrima
  <2>6. QED
    BY <2>2, <2>3, <2>4, <2>5, CuposMismos
<1>5. QED
  BY <1>2, <1>3, <1>4

LEMMA CuposAjenos ==
  ASSUME DeAUna, ConMemoriaInv, UnLugarInv', CuposConservados, [Next]_vars,
         \/ UNCHANGED vars \/ PlanificadorLargo \/ PlanificadorCorto \/ AtenderKernel \/ Cpu
         \/ (Desalojo /\ ~ExitConfirma) \/ \E r \in Recursos : Gestor(r)
  PROVE  CuposConservados'
<1>0. UnLugarInv /\ TipoInv /\ sem \in [Semaforos -> Nat]
  BY CuposNat DEF ConMemoriaInv, UnLugarInv
<1>1. UNCHANGED <<hilo, lastPID, GRADO, bajando>>
  BY DEF vars, consola, grado, PlanificadorLargo, PlanificadorCorto, AtenderKernel, Cpu, Desalojo, Gestor
<1>2. Mult' = Mult
  <2>1. CASE UNCHANGED vars \/ AtenderKernel \/ Cpu
    BY <2>1 DEF vars, AtenderKernel, Cpu, Mult
  <2>2. CASE PlanificadorLargo
    BY <1>0, <2>2 DEF PlanificadorLargo, LargoEspera, LargoToma, LargoIngresa, LargoAvisa, LargoCompuerta,
       LargoReanuda, SemWait, SemPost, Mult, Semaforos
  <2>3. CASE PlanificadorCorto
    BY <1>0, <2>3 DEF PlanificadorCorto, CortoEspera, CortoDespacha, CortoFinExec, CortoCompuerta,
       CortoReanuda, SemWait, SemPost, Mult, Semaforos
  <2>4. CASE Desalojo /\ ~ExitConfirma
    BY <1>0, <2>4 DEF Desalojo, RecibirMotivo, ManejarWaitSignal, ManejarExit, ExitLibera, AbortarPorDobleFree,
       FinDesalojo, SemPost, Mult, Semaforos
  <2>5. ASSUME NEW r \in Recursos, Gestor(r)
        PROVE  Mult' = Mult
    BY <1>0, <2>5 DEF Gestor, GestorEsperaBlock, GestorEsperaInstancia, GestorAsigna, GestorSaca, GestorIngresa,
       GestorAvisa, SemPost, Mult, Semaforos
  <2>6. QED
    BY <2>1, <2>2, <2>3, <2>4, <2>5
<1>3. ASSUME NEW p \in Pids, Vivo(p)
      PROVE  Vivo(p)'
  <2>1. CASE UNCHANGED vars \/ AtenderKernel
    BY <1>3, <2>1, VivoMismo DEF vars, AtenderKernel, procesador
  <2>2. QED
    BY <1>0, <1>3, <2>1, LargoVivo, CortoVivo, CpuVivo, DesalojoVivo, GestorVivo
<1>4. Ocupados' = Ocupados
  BY <1>0, <1>1, <1>3, CuposQuietos
<1>5. GradoVigente' = GradoVigente
  BY <1>1, GradoIgual
<1>6. QED
  BY <1>1, <1>2, <1>4, <1>5, CuposMismos

LEMMA GradoNat ==
  ASSUME DeAUna, TipoInv
  PROVE  GradoVigente \in Nat
<1>1. CASE Hilos = {}
  BY <1>1, CuposNat DEF GradoVigente
<1>2. ASSUME NEW h \in Hilos
      PROVE  GradoVigente \in Nat
  BY GradoDe, CuposNat DEF TipoInv, TypeOK, TipoConsola
<1>3. QED
  BY <1>1, <1>2

LEMMA CuposBaja ==
  ASSUME DeAUna, ConMemoriaInv, UnLugarInv', CuposConservados, HiloMultiprogramacion
  PROVE  CuposConservados'
<1>0. UnLugarInv /\ TipoInv /\ sem \in [Semaforos -> Nat]
  BY CuposNat DEF ConMemoriaInv, UnLugarInv
<1>1. /\ UNCHANGED <<hilo, GRADO, cola_new, largo, cola_ready, despacho, cpu, desalojo, motivos, cola_block, gestor>>
      /\ sem' = [sem EXCEPT !["sem_multiprogramacion"] = @ - 1] /\ bajando' = bajando - 1
  BY DEF HiloMultiprogramacion, BajarMultiprogramacion, SemWait, alta, procesador
<1>2. Ocupados' = Ocupados
  <2>1. \A p \in Pids : Ocupa(p)' <=> Ocupa(p)
    BY <1>1, VivoMismo DEF Ocupa
  <2>2. QED
    BY <1>0, <2>1, CuposIguales
<1>3. GradoVigente' = GradoVigente
  BY <1>1, GradoIgual
<1>4. Mult' = Mult - 1
  BY <1>0, <1>1, CuposNat DEF Mult, Semaforos
<1>5. PICK a, b, c, o \in Nat : a = Mult /\ b = bajando /\ c = GradoVigente /\ o = Cardinality(Ocupados)
  BY <1>0, CuposNat, GradoNat, OcupadosFinito
<1>6. a + o = c + b
  BY <1>5, CuposSon
<1>7. (a - 1) + o = c + (b - 1)
  BY <1>6
<1>8. QED
  BY <1>1, <1>2, <1>3, <1>4, <1>5, <1>7, CuposSonPrima

LEMMA CuposDevuelve ==
  ASSUME DeAUna, ConMemoriaInv, Admitidos, UnLugarInv', CuposConservados, [Next]_vars, Desalojo, ExitConfirma
  PROVE  CuposConservados'
<1>0. UnLugarInv /\ TipoInv /\ sem \in [Semaforos -> Nat] /\ respuestas \in Seq(Respuesta)
  BY CuposNat DEF ConMemoriaInv, UnLugarInv, TipoInv, TypeOK, TipoConexion
<1>1. Head(respuestas).valor = OK
  <2>1. respuestas # <<>>
    BY DEF ExitConfirma, PuedeRecibir
  <2>2. 1 \in DOMAIN respuestas /\ Head(respuestas) = respuestas[1]
    BY <1>0, <2>1, ElementosTail
  <2>3. QED
    BY <2>2 DEF Admitidos
<1>2. UNCHANGED <<hilo, GRADO, bajando>> /\ sem' = [sem EXCEPT !["sem_multiprogramacion"] = @ + 1]
  BY <1>1 DEF Desalojo, ExitConfirma, SemPost, consola, grado
<1>3. Cardinality(Ocupados') = Cardinality(Ocupados) - 1
  BY <1>0, <1>1, CuposExit
<1>4. GradoVigente' = GradoVigente
  BY <1>2, GradoIgual
<1>5. Mult' = Mult + 1
  BY <1>0, <1>2 DEF Mult, Semaforos
<1>6. PICK a, b, c, o \in Nat : a = Mult /\ b = bajando /\ c = GradoVigente /\ o = Cardinality(Ocupados)
  BY <1>0, CuposNat, GradoNat, OcupadosFinito
<1>7. a + o = c + b
  BY <1>6, CuposSon
<1>8. (a + 1) + (o - 1) = c + b
  BY <1>7
<1>9. QED
  BY <1>2, <1>3, <1>4, <1>5, <1>6, <1>8, CuposSonPrima

LEMMA CuposPaso ==
  ASSUME DeAUna, RUTAS \subseteq {"valida"}
  PROVE  CuposInv /\ [Next]_vars => CuposInv'
<1> SUFFICES ASSUME CuposInv, [Next]_vars PROVE CuposInv'
  OBVIOUS
<1>1. ConMemoriaInv /\ Admitidos /\ CuposConservados
  BY DEF CuposInv
<1>2. ConMemoriaInv'
  BY <1>1, ConMemoriaPaso
<1>3. TipoInv /\ Dialogo /\ UnLugarInv'
  BY <1>1, <1>2 DEF ConMemoriaInv, UnLugarInv
<1>4. Admitidos'
  BY <1>1, <1>3, AdmitidosPaso
<1>5. CuposConservados'
  <2>1. ~ConectarInterfaz
    BY DEF DeAUna, ConectarInterfaz
  <2>2. QED
    BY <1>1, <1>3, <2>1, CuposOrden, CuposConsolaPaso, CuposAjenos, CuposBaja, CuposDevuelve DEF Next
<1>6. QED
  BY <1>2, <1>4, <1>5 DEF CuposInv

LEMMA CuposInit == DeAUna /\ Init => CuposInv
<1> SUFFICES ASSUME DeAUna, Init PROVE CuposInv
  OBVIOUS
<1>1. ConMemoriaInv
  BY ConMemoriaInit
<1>2. UnLugarInv /\ TipoInv
  BY <1>1 DEF ConMemoriaInv, UnLugarInv
<1>3. DOMAIN <<>> = {}
  BY EmptySeq, LenProperties
<1>4. Admitidos
  BY <1>3 DEF Init, Admitidos
<1>5. ASSUME NEW p \in Pids
      PROVE  ~OcupaCupo(p)
  <2>1. p > lastPID
    BY DEF Init, Pids
  <2>2. Ausente(p)
    BY <1>2, <2>1 DEF UnLugarInv, Separado
  <2>3. QED
    BY <1>2, <2>2, VivoCuentas, OcupaSi DEF Ocupa
<1>6. Ocupados = {}
  BY <1>5 DEF Ocupados
<1>7. Cardinality(Ocupados) = 0
  BY <1>6, FS_EmptySet
<1>8. Mult = GRADO /\ bajando = 0
  BY DEF Init, Mult, Semaforos
<1>9. GradoVigente = GRADO
  BY DEF Init, GradoVigente
<1>10. GRADO \in Nat
  BY <1>2, CuposNat
<1>11. CuposConservados
  BY <1>7, <1>8, <1>9, <1>10, CuposSon
<1>12. QED
  BY <1>1, <1>4, <1>11 DEF CuposInv

(* Under the same hypotheses and with programs MEMORIA accepts, the slots  *)
(* that sem_multiprogramacion counts and those the processes occupy are    *)
(* always the degree, through every MULTIPROGRAMACION command.             *)
THEOREM CuposConservadosDeAUna ==
  ASSUME DeAUna, RUTAS \subseteq {"valida"}
  PROVE  Spec => []CuposConservados
<1>1. CuposInv /\ [Next]_vars => CuposInv'
  BY CuposPaso
<1>2. Init => CuposInv
  BY CuposInit
<1>3. CuposInv => CuposConservados
  BY DEF CuposInv
<1>4. QED
  BY <1>1, <1>2, <1>3, PTL DEF Spec

=============================================================================
