------------------------- MODULE PlanificacionProofs -------------------------
(***************************************************************************)
(* Proofs, for every value of the constants, of what                       *)
(* PropiedadesPlanificacion says of types, of the place of each PCB, of    *)
(* the life of a process, of a planning that is stopped, and of resources. *)
(***************************************************************************)
EXTENDS PropiedadesPlanificacion, ListasProofs

-----------------------------------------------------------------------------
(* Types.  TypeOK alone is not inductive: a thread that is about to add    *)
(* its PCB to a queue must have one in hand.                               *)

HiloEnMano ==
  \A h \in Hilos :
    hilo[h].pc \in {"new", "cupo", "recibe", "evalua", "descarta"}
      => hilo[h].arg \in Pids

DesalojoEnMano ==
  /\ desalojo.pc \in Pc.desalojo \ {"espera", "fin"} => desalojo.pid \in Pids
  /\ desalojo.pc \in {"confirma", "bloquea", "avisa"}
       => desalojo.recurso \in Recursos

EnMano ==
  /\ HiloEnMano
  /\ DesalojoEnMano
  /\ largo.pc = "ingresa" => largo.pid \in Pids
  /\ cpu.pc \in {"pide", "ejecuta"} => cpu.pid \in Pids
  /\ \A r \in Recursos : gestor[r].pc \in {"saca", "ingresa"}
                           => gestor[r].pid \in Pids

TipoInv == TypeOK /\ EnMano

(* The initial state.                                                      *)
LEMMA TipoInit == Init => TipoInv
<1> SUFFICES ASSUME Init PROVE TipoInv
  OBVIOUS
<1> USE ConstantesAssumption DEF Init
<1>1. TipoColas
  BY DEF TipoColas
<1>2. sem \in [Semaforos -> Nat]
  OBVIOUS
<1>3. TipoRecursos
  BY DEF TipoRecursos
<1>4. TipoConsola
  <2>1. hilo \in [Hilos -> [pc : Pc.hilo, arg : Nat, lineas : Nat]]
    BY DEF Pc
  <2>2. lastPID \in 0 .. MAX_PID /\ GRADO \in Nat /\ bajando \in Nat
    OBVIOUS
  <2>3. /\ result \in {OK, ERROR} /\ PLANIFICACION \in BOOLEAN
        /\ retenidos \subseteq {"new", "ready"} /\ block_retenidos \subseteq Recursos
        /\ faltan \in [Hilos -> SUBSET Recursos]
    OBVIOUS
  <2>4. QED
    BY <2>1, <2>2, <2>3 DEF TipoConsola
<1>5. TipoPlanificadores
  BY DEF TipoPlanificadores, Pc
<1>6. TipoManejadores
  BY DEF TipoManejadores, Pc, NombresMsg
<1>7. TipoConexion
  BY DEF TipoConexion
<1>8. TipoProcesador
  BY DEF TipoProcesador, Pc
<1>9. EnMano
  BY DEF EnMano, HiloEnMano, DesalojoEnMano
<1>10. kernel \in {"activo", "abortado"}
  OBVIOUS
<1>11. QED
  BY <1>1, <1>2, <1>3, <1>4, <1>5, <1>6, <1>7, <1>8, <1>9, <1>10 DEF TipoInv, TypeOK

(* The moves of one console thread.                                        *)
LEMMA HiloTipo ==
  ASSUME NEW h \in Hilos, TipoConsola, HiloEnMano,
         NEW pc \in Pc.hilo, NEW arg \in Nat, NEW lineas \in Nat,
         pc \in {"new", "cupo", "recibe", "evalua", "descarta"} => arg \in Pids,
         hilo' = [hilo EXCEPT ![h] = [pc |-> pc, arg |-> arg, lineas |-> lineas]]
  PROVE  /\ hilo' \in [Hilos -> [pc : Pc.hilo, arg : Nat, lineas : Nat]]
         /\ HiloEnMano'
  BY DEF HiloEnMano, TipoConsola

(* A console thread moves on with the same argument.                       *)
LEMMA IrHiloTipo ==
  ASSUME NEW h \in Hilos, TipoConsola, HiloEnMano,
         NEW pc \in Pc.hilo, IrHilo(h, pc),
         pc \in {"new", "cupo", "recibe", "evalua", "descarta"} => hilo[h].arg \in Pids
  PROVE  /\ hilo' \in [Hilos -> [pc : Pc.hilo, arg : Nat, lineas : Nat]]
         /\ HiloEnMano'
<1>1. hilo' \in [Hilos -> [pc : Pc.hilo, arg : Nat, lineas : Nat]]
  BY DEF IrHilo, TipoConsola
<1>2. HiloEnMano'
  BY DEF IrHilo, TipoConsola, HiloEnMano
<1>3. QED
  BY <1>1, <1>2

(* A console thread ends its line.                                         *)
LEMMA IrHiloConTipo ==
  ASSUME NEW h \in Hilos, TipoConsola, HiloEnMano, IrHiloCon(h, "libre", 0)
  PROVE  /\ hilo' \in [Hilos -> [pc : Pc.hilo, arg : Nat, lineas : Nat]]
         /\ HiloEnMano'
<1>1. hilo' \in [Hilos -> [pc : Pc.hilo, arg : Nat, lineas : Nat]]
  <2>1. "libre" \in Pc.hilo /\ 0 \in Nat
    BY DEF Pc
  <2>2. hilo \in [Hilos -> [pc : Pc.hilo, arg : Nat, lineas : Nat]]
    BY DEF TipoConsola
  <2>3. QED
    BY <2>1, <2>2 DEF IrHiloCon
<1>2. HiloEnMano'
  BY DEF IrHiloCon, TipoConsola, HiloEnMano
<1>3. QED
  BY <1>1, <1>2

(* A console thread starts a line.                                         *)
LEMMA EjecutarTipo ==
  ASSUME NEW h \in Hilos, NEW c, Comando(h, c), TipoConsola, HiloEnMano,
         NEW pc \in Pc.hilo, NEW arg \in Nat, Ejecutar(h, pc, arg),
         pc \in {"new", "cupo", "recibe", "evalua", "descarta"} => arg \in Pids
  PROVE  /\ hilo' \in [Hilos -> [pc : Pc.hilo, arg : Nat, lineas : Nat]]
         /\ HiloEnMano'
<1>1. hilo[h].lineas - 1 \in Nat
  BY DEF TipoConsola, Comando
<1>2. QED
  BY <1>1, HiloTipo DEF Ejecutar

(* sem_wait and sem_post.                                                  *)
LEMMA SemTipo ==
  ASSUME sem \in [Semaforos -> Nat], NEW s \in Semaforos,
         SemWait(s) \/ SemPost(s)
  PROVE  sem' \in [Semaforos -> Nat]
  BY DEF SemWait, SemPost

(* What a step of a console thread has to show.                            *)
LEMMA ConsolaResto ==
  ASSUME TipoInv,
         UNCHANGED <<kernel, cola_ready, cola_block, recursos, largo, corto,
                     desalojo, gestor, memoria, procesador>>,
         cola_new' \in Seq(Pids), sem' \in [Semaforos -> Nat],
         TipoConsola', HiloEnMano',
         pedidos' \in Seq(Pedido), respuestas' \in Seq(Respuesta)
  PROVE  TipoInv'
<1> USE DEF TipoInv, TypeOK
<1>1. TipoColas'
  BY DEF TipoColas
<1>2. TipoRecursos'
  BY DEF TipoRecursos, recursos
<1>3. TipoPlanificadores' /\ TipoManejadores'
  BY DEF TipoPlanificadores, TipoManejadores
<1>4. TipoConexion'
  BY DEF TipoConexion
<1>5. TipoProcesador'
  BY DEF TipoProcesador, procesador
<1>6. EnMano'
  BY DEF EnMano, DesalojoEnMano, procesador
<1>7. QED
  BY <1>1, <1>2, <1>3, <1>4, <1>5, <1>6

(* What the user starts.                                                   *)
LEMMA TipoOrden ==
  ASSUME TipoInv, NEW h \in Hilos, Orden(h)
  PROVE  TipoInv'
<1>1. /\ TipoConsola /\ HiloEnMano /\ cola_new \in Seq(Pids)
      /\ sem \in [Semaforos -> Nat]
      /\ pedidos \in Seq(Pedido) /\ respuestas \in Seq(Respuesta)
  BY DEF TipoInv, TypeOK, EnMano, TipoColas, TipoConexion
<1>2. /\ cola_new' = cola_new /\ pedidos' = pedidos /\ respuestas' = respuestas
      /\ result' = result
  BY DEF Orden, CrearPcb, Multiprogramacion, DetenerPlanificacion,
         IniciarPlanificacion, alta
<1> DEFINE H == [Hilos -> [pc : Pc.hilo, arg : Nat, lineas : Nat]]
<1>3. CASE CrearPcb(h)
  <2>1. lastPID + 1 \in Nat /\ lastPID + 1 \in Pids /\ lastPID' \in 0 .. MAX_PID
    BY <1>1, <1>3, ConstantesAssumption DEF CrearPcb, TipoConsola, Pids
  <2>2. hilo' \in H /\ HiloEnMano'
    BY <1>1, <1>3, <2>1, EjecutarTipo DEF CrearPcb, Pc
  <2>3. TipoConsola'
    BY <1>1, <1>2, <1>3, <2>1, <2>2 DEF CrearPcb, TipoConsola, grado, parada
  <2>4. QED
    BY <1>1, <1>2, <1>3, <2>2, <2>3, ConsolaResto DEF CrearPcb, Orden
<1>4. CASE Multiprogramacion(h)
  <2>1. PICK g \in GRADOS \ {GRADO} :
          /\ Ejecutar(h, "fija", g)
          /\ sem' = [sem EXCEPT !["sem_multiprogramacion"] =
                                  @ + (IF g > GRADO THEN g - GRADO ELSE 0)]
          /\ bajando' = bajando + (IF g < GRADO THEN GRADO - g ELSE 0)
    BY <1>4 DEF Multiprogramacion
  <2>2. g \in Nat /\ GRADO \in Nat /\ bajando \in Nat
    BY <1>1, ConstantesAssumption DEF TipoConsola
  <2>3. hilo' \in H /\ HiloEnMano'
    BY <1>1, <1>4, <2>1, <2>2, EjecutarTipo DEF Multiprogramacion, Pc
  <2>4. sem' \in [Semaforos -> Nat] /\ bajando' \in Nat
    <3>1. /\ (IF g > GRADO THEN g - GRADO ELSE 0) \in Nat
          /\ (IF g < GRADO THEN GRADO - g ELSE 0) \in Nat
      BY <2>2
    <3>2. \A n \in Nat : [sem EXCEPT !["sem_multiprogramacion"] = @ + n]
                            \in [Semaforos -> Nat]
      BY <1>1 DEF Semaforos
    <3>3. QED
      BY <2>1, <2>2, <3>1, <3>2
  <2>5. TipoConsola'
    BY <1>1, <1>2, <1>4, <2>3, <2>4
       DEF Multiprogramacion, TipoConsola, alta, parada
  <2>6. QED
    BY <1>1, <1>2, <2>3, <2>4, <2>5, ConsolaResto DEF Orden
<1>5. CASE DetenerPlanificacion(h)
  <2>1. hilo' \in H /\ HiloEnMano'
    BY <1>1, <1>5, EjecutarTipo DEF DetenerPlanificacion, Pc
  <2>2. TipoConsola'
    BY <1>1, <1>2, <1>5, <2>1
       DEF DetenerPlanificacion, TipoConsola, alta, parada, grado
  <2>3. QED
    BY <1>1, <1>2, <1>5, <2>1, <2>2, ConsolaResto DEF DetenerPlanificacion, Orden
<1>6. CASE IniciarPlanificacion(h)
  <2>1. hilo' \in H /\ HiloEnMano'
    BY <1>1, <1>6, EjecutarTipo DEF IniciarPlanificacion, Pc
  <2>2. TipoConsola'
    BY <1>1, <1>2, <1>6, <2>1
       DEF IniciarPlanificacion, TipoConsola, alta, parada, grado
  <2>3. QED
    BY <1>1, <1>2, <1>6, <2>1, <2>2, ConsolaResto DEF IniciarPlanificacion, Orden
<1>7. QED
  BY <1>3, <1>4, <1>5, <1>6 DEF Orden

(* The mutexes that stop the queues.                                       *)
MutexTipo == /\ retenidos \subseteq {"new", "ready"}
             /\ block_retenidos \subseteq Recursos
             /\ faltan \in [Hilos -> SUBSET Recursos]

(* What a console thread does once started.                                *)
LEMMA TipoConsolaPaso ==
  ASSUME TipoInv, NEW h \in Hilos, Consola(h)
  PROVE  TipoInv'
<1>1. /\ TipoConsola /\ HiloEnMano /\ cola_new \in Seq(Pids)
      /\ sem \in [Semaforos -> Nat]
      /\ pedidos \in Seq(Pedido) /\ respuestas \in Seq(Respuesta)
  BY DEF TipoInv, TypeOK, EnMano, TipoColas, TipoConexion
<1> DEFINE H == [Hilos -> [pc : Pc.hilo, arg : Nat, lineas : Nat]]
<1>2. /\ hilo \in H /\ lastPID \in 0 .. MAX_PID /\ result \in {OK, ERROR}
      /\ GRADO \in Nat /\ bajando \in Nat
      /\ PLANIFICACION \in BOOLEAN /\ MutexTipo
      /\ hilo[h].arg \in Nat
  BY <1>1 DEF TipoConsola, MutexTipo
<1>3. SUFFICES /\ cola_new' \in Seq(Pids) /\ sem' \in [Semaforos -> Nat]
               /\ hilo' \in H /\ HiloEnMano'
               /\ lastPID' \in 0 .. MAX_PID /\ result' \in {OK, ERROR}
               /\ GRADO' \in Nat /\ bajando' \in Nat
               /\ PLANIFICACION' \in BOOLEAN /\ MutexTipo'
               /\ pedidos' \in Seq(Pedido) /\ respuestas' \in Seq(Respuesta)
  BY ConsolaResto DEF Consola, TipoConsola, MutexTipo
<1>0. UNCHANGED parada => UNCHANGED PLANIFICACION /\ (MutexTipo => MutexTipo')
  BY DEF parada, MutexTipo
<1> USE <1>1, <1>2, <1>0 DEF grado, alta
<1>4. CASE IngresarANew(h)
  <2>1. hilo[h].arg \in Pids
    BY <1>4 DEF IngresarANew, HiloEnMano
  <2>2. hilo' \in H /\ HiloEnMano'
    BY <1>4, <2>1, IrHiloTipo DEF IngresarANew, Pc
  <2>3. QED
    BY <1>4, <2>1, <2>2 DEF IngresarANew
<1>5. CASE EnviarProcesoMemoria(h)
  <2>1. hilo[h].arg \in Pids
    BY <1>5 DEF EnviarProcesoMemoria, HiloEnMano
  <2>2. hilo' \in H /\ HiloEnMano'
    BY <1>5, <2>1, IrHiloTipo DEF EnviarProcesoMemoria, Pc
  <2>3. pedidos' \in Seq(Pedido)
    BY <1>5, <2>1 DEF EnviarProcesoMemoria, Pedido
  <2>4. sem' \in [Semaforos -> Nat]
    BY <1>5, SemTipo DEF EnviarProcesoMemoria, Semaforos
  <2>5. QED
    BY <1>5, <2>2, <2>3, <2>4 DEF EnviarProcesoMemoria
<1>6. CASE RecibirResultado(h)
  <2>1. hilo' \in H /\ HiloEnMano'
    BY <1>6, IrHiloTipo DEF RecibirResultado, HiloEnMano, Pc
  <2>2. result' \in {OK, ERROR} /\ respuestas' \in Seq(Respuesta)
    <3>1. Head(respuestas) \in Respuesta /\ Tail(respuestas) \in Seq(Respuesta)
      BY <1>6 DEF RecibirResultado, PuedeRecibir
    <3>2. QED
      BY <1>6, <3>1 DEF RecibirResultado, Respuesta
  <2>3. QED
    BY <1>6, <2>1, <2>2 DEF RecibirResultado
<1>7. CASE ProcesoCreado(h)
  <2>1. hilo' \in H /\ HiloEnMano'
    BY <1>7, IrHiloConTipo DEF ProcesoCreado
  <2>2. sem' \in [Semaforos -> Nat]
    BY <1>7, SemTipo DEF ProcesoCreado, Semaforos
  <2>3. QED
    BY <1>7, <2>1, <2>2 DEF ProcesoCreado
<1>8. CASE ErrorAlCrear(h)
  <2>1. hilo' \in H /\ HiloEnMano'
    BY <1>8, IrHiloTipo DEF ErrorAlCrear, HiloEnMano, Pc
  <2>2. QED
    BY <1>8, <2>1 DEF ErrorAlCrear
<1>9. CASE DescartarDeNew(h)
  <2>1. hilo' \in H /\ HiloEnMano'
    BY <1>9, IrHiloConTipo DEF DescartarDeNew
  <2>2. cola_new' \in Seq(Pids)
    BY <1>9, RemoveFirstTipo DEF DescartarDeNew
  <2>3. QED
    BY <1>9, <2>1, <2>2 DEF DescartarDeNew
<1>10. CASE FijarGrado(h)
  <2>1. hilo' \in H /\ HiloEnMano'
    BY <1>10, IrHiloConTipo DEF FijarGrado
  <2>2. QED
    BY <1>10, <2>1 DEF FijarGrado
<1>11. CASE DetenerCorto(h)
  <2>1. hilo' \in H /\ HiloEnMano'
    BY <1>11, IrHiloTipo DEF DetenerCorto, Pc
  <2>2. sem' \in [Semaforos -> Nat]
    BY <1>11, SemTipo DEF DetenerCorto, Semaforos
  <2>3. QED
    BY <1>11, <2>1, <2>2 DEF DetenerCorto
<1>12. CASE DetenerLargo(h)
  <2>1. hilo' \in H /\ HiloEnMano'
    BY <1>12, IrHiloTipo DEF DetenerLargo, Pc
  <2>2. sem' \in [Semaforos -> Nat]
    BY <1>12, SemTipo DEF DetenerLargo, Semaforos
  <2>3. QED
    BY <1>12, <2>1, <2>2 DEF DetenerLargo
<1>16. CASE RetenerNew(h)
  <2>1. hilo' \in H /\ HiloEnMano'
    BY <1>16, IrHiloTipo DEF RetenerNew, Pc
  <2>2. MutexTipo'
    BY <1>16 DEF RetenerNew, MutexTipo
  <2>3. QED
    BY <1>16, <2>1, <2>2 DEF RetenerNew
<1>17. CASE RetenerReady(h)
  <2>1. hilo' \in H /\ HiloEnMano'
    BY <1>17, IrHiloTipo DEF RetenerReady, Pc
  <2>2. MutexTipo'
    BY <1>17 DEF RetenerReady, MutexTipo
  <2>3. QED
    BY <1>17, <2>1, <2>2 DEF RetenerReady
<1>18. CASE RetenerBlock(h)
  <2>1. MutexTipo'
    BY <1>18 DEF RetenerBlock, MutexTipo
  <2>2. QED
    BY <1>18, <2>1 DEF RetenerBlock, HiloEnMano
<1>19. CASE BajarPlanificacion(h)
  <2>1. hilo' \in H /\ HiloEnMano'
    BY <1>19, IrHiloTipo DEF BajarPlanificacion, Pc
  <2>2. MutexTipo'
    BY <1>19 DEF BajarPlanificacion, MutexTipo
  <2>3. QED
    BY <1>19, <2>1, <2>2 DEF BajarPlanificacion
<1>20. CASE LiberarNew(h)
  <2>1. hilo' \in H /\ HiloEnMano'
    BY <1>20, IrHiloTipo DEF LiberarNew, Pc
  <2>2. MutexTipo'
    BY <1>20 DEF LiberarNew, MutexTipo
  <2>3. QED
    BY <1>20, <2>1, <2>2 DEF LiberarNew
<1>21. CASE LiberarReady(h)
  <2>1. hilo' \in H /\ HiloEnMano'
    BY <1>21, IrHiloTipo DEF LiberarReady, Pc
  <2>2. MutexTipo'
    BY <1>21 DEF LiberarReady, MutexTipo
  <2>3. QED
    BY <1>21, <2>1, <2>2 DEF LiberarReady
<1>22. CASE LiberarBlock(h)
  <2>1. MutexTipo'
    BY <1>22 DEF LiberarBlock, MutexTipo
  <2>2. QED
    BY <1>22, <2>1 DEF LiberarBlock, HiloEnMano
<1>23. CASE LevantarPlanificacion(h)
  <2>1. hilo' \in H /\ HiloEnMano'
    BY <1>23, IrHiloTipo DEF LevantarPlanificacion, Pc
  <2>2. MutexTipo'
    BY <1>23 DEF LevantarPlanificacion, MutexTipo
  <2>3. QED
    BY <1>23, <2>1, <2>2 DEF LevantarPlanificacion
<1>14. CASE Reanudar(h)
  <2>1. hilo' \in H /\ HiloEnMano'
    BY <1>14, IrHiloTipo DEF Reanudar, Pc
  <2>2. sem' \in [Semaforos -> Nat]
    <3>1. sem["planificador_corto"] + 2 \in Nat /\ sem["planificador_largo"] + 2 \in Nat
      BY DEF Semaforos
    <3> DEFINE uno == [sem EXCEPT !["planificador_corto"] = @ + 2]
    <3>2. uno \in [Semaforos -> Nat] /\ uno["planificador_largo"] = sem["planificador_largo"]
      BY <3>1 DEF Semaforos
    <3>3. sem' = [uno EXCEPT !["planificador_largo"] = uno["planificador_largo"] + 2]
      BY <1>14 DEF Reanudar
    <3> HIDE DEF uno
    <3>4. QED
      BY <3>1, <3>2, <3>3
  <2>3. QED
    BY <1>14, <2>1, <2>2 DEF Reanudar
<1>15. QED
  BY <1>4, <1>5, <1>6, <1>7, <1>8, <1>9, <1>10, <1>11, <1>12, <1>14, <1>16,
     <1>17, <1>18, <1>19, <1>20, <1>21, <1>22, <1>23 DEF Consola

(* bajar_multiprogramacion.                                                *)
LEMMA TipoBajar ==
  ASSUME TipoInv, HiloMultiprogramacion
  PROVE  TipoInv'
<1>1. /\ TipoConsola /\ HiloEnMano /\ cola_new \in Seq(Pids)
      /\ sem \in [Semaforos -> Nat]
      /\ pedidos \in Seq(Pedido) /\ respuestas \in Seq(Respuesta)
  BY DEF TipoInv, TypeOK, EnMano, TipoColas, TipoConexion
<1>2. sem' \in [Semaforos -> Nat]
  BY <1>1, SemTipo DEF HiloMultiprogramacion, BajarMultiprogramacion, Semaforos
<1>3. bajando' \in Nat
  BY <1>1 DEF HiloMultiprogramacion, BajarMultiprogramacion, TipoConsola
<1>4. TipoConsola' /\ HiloEnMano'
  BY <1>1, <1>3 DEF HiloMultiprogramacion, BajarMultiprogramacion, TipoConsola,
                    HiloEnMano, parada, alta
<1>5. QED
  BY <1>1, <1>2, <1>4, ConsolaResto
     DEF HiloMultiprogramacion, BajarMultiprogramacion, alta

(* The handshake of an interface.                                          *)
LEMMA TipoConectar ==
  ASSUME TipoInv, ConectarInterfaz
  PROVE  TipoInv'
<1>1. /\ TipoConsola /\ HiloEnMano /\ cola_new \in Seq(Pids)
      /\ sem \in [Semaforos -> Nat]
      /\ pedidos \in Seq(Pedido) /\ respuestas \in Seq(Respuesta)
  BY DEF TipoInv, TypeOK, EnMano, TipoColas, TipoConexion
<1>2. TipoConsola' /\ HiloEnMano'
  BY <1>1 DEF ConectarInterfaz, TipoConsola, HiloEnMano, parada, grado
<1>3. QED
  BY <1>1, <1>2, ConsolaResto DEF ConectarInterfaz, conexion

(* planificador_largo_plazo.                                               *)
LEMMA TipoLargo ==
  ASSUME TipoInv, PlanificadorLargo
  PROVE  TipoInv'
<1>1. /\ UNCHANGED <<cola_block, recursos, consola, corto, desalojo, gestor,
                     conexion, procesador>>
      /\ cola_new \in Seq(Pids) /\ cola_ready \in Seq(Pids)
      /\ kernel \in {"activo", "abortado"} /\ sem \in [Semaforos -> Nat]
      /\ largo \in [pc : Pc.largo, pid : Pids \cup {NADIE}]
      /\ largo.pc = "ingresa" => largo.pid \in Pids
  BY DEF PlanificadorLargo, TipoInv, TypeOK, TipoColas, TipoPlanificadores, EnMano
<1> DEFINE Meta == /\ cola_new' \in Seq(Pids) /\ cola_ready' \in Seq(Pids)
                   /\ kernel' \in {"activo", "abortado"}
                   /\ sem' \in [Semaforos -> Nat]
                   /\ largo' \in [pc : Pc.largo, pid : Pids \cup {NADIE}]
                   /\ largo'.pc = "ingresa" => largo'.pid \in Pids
<1>2. ASSUME Meta PROVE TipoInv'
  <2> USE <1>1, <1>2 DEF TipoInv, TypeOK, recursos, consola, grado, parada,
                         conexion, procesador
  <2>1. TipoColas' /\ TipoPlanificadores'
    BY DEF TipoColas, TipoPlanificadores
  <2>2. TipoRecursos' /\ TipoConsola'
    BY DEF TipoRecursos, TipoConsola
  <2>3. TipoManejadores' /\ TipoConexion' /\ TipoProcesador'
    BY DEF TipoManejadores, TipoConexion, TipoProcesador
  <2>4. EnMano'
    BY DEF EnMano, HiloEnMano, DesalojoEnMano
  <2>5. QED
    BY <2>1, <2>2, <2>3, <2>4
<1> SUFFICES Meta
  BY <1>2
<1> USE <1>1
<1>3. CASE LargoEspera
  BY <1>3, SemTipo DEF LargoEspera, Semaforos, Pc
<1>4. CASE LargoToma
  <2>1. cola_new # <<>> => /\ Head(cola_new) \in Pids
                           /\ Tail(cola_new) \in Seq(Pids)
    OBVIOUS
  <2>2. CASE cola_new = <<>>
    BY <1>4, <2>2 DEF LargoToma
  <2>3. CASE cola_new # <<>>
    <3>1. largo' = [pc |-> "ingresa", pid |-> Head(cola_new)]
      BY <1>4, <2>3 DEF LargoToma
    <3>2. /\ largo' \in [pc : Pc.largo, pid : Pids \cup {NADIE}]
          /\ largo'.pid \in Pids
      BY <2>1, <2>3, <3>1 DEF Pc
    <3>3. QED
      BY <1>4, <2>1, <2>3, <3>2 DEF LargoToma
  <2>4. QED
    BY <2>2, <2>3
<1>5. CASE LargoIngresa
  BY <1>5 DEF LargoIngresa, Pc
<1>6. CASE LargoAvisa
  BY <1>6, SemTipo DEF LargoAvisa, Semaforos, Pc
<1>7. CASE LargoCompuerta
  BY <1>7 DEF LargoCompuerta, Pc
<1>8. CASE LargoReanuda
  BY <1>8, SemTipo DEF LargoReanuda, Semaforos, Pc
<1>9. QED
  BY <1>3, <1>4, <1>5, <1>6, <1>7, <1>8 DEF PlanificadorLargo

(* planificador_corto_plazo.                                               *)
LEMMA TipoCorto ==
  ASSUME TipoInv, PlanificadorCorto
  PROVE  TipoInv'
<1>1. /\ UNCHANGED <<cola_new, cola_block, recursos, consola, largo, desalojo,
                     gestor, conexion, motivos, cpu, pasos>>
      /\ cola_ready \in Seq(Pids) /\ despacho \in Seq(Pids)
      /\ kernel \in {"activo", "abortado"} /\ sem \in [Semaforos -> Nat]
      /\ corto \in Pc.corto
  BY DEF PlanificadorCorto, TipoInv, TypeOK, TipoColas, TipoPlanificadores,
         TipoProcesador
<1> DEFINE Meta == /\ cola_ready' \in Seq(Pids) /\ despacho' \in Seq(Pids)
                   /\ kernel' \in {"activo", "abortado"}
                   /\ sem' \in [Semaforos -> Nat]
                   /\ corto' \in Pc.corto
<1>2. ASSUME Meta PROVE TipoInv'
  <2> USE <1>1, <1>2 DEF TipoInv, TypeOK, recursos, consola, grado, parada,
                         conexion
  <2>1. TipoColas' /\ TipoPlanificadores'
    BY DEF TipoColas, TipoPlanificadores
  <2>2. TipoRecursos' /\ TipoConsola'
    BY DEF TipoRecursos, TipoConsola
  <2>3. TipoManejadores' /\ TipoConexion' /\ TipoProcesador'
    BY DEF TipoManejadores, TipoConexion, TipoProcesador
  <2>4. EnMano'
    BY DEF EnMano, HiloEnMano, DesalojoEnMano
  <2>5. QED
    BY <2>1, <2>2, <2>3, <2>4
<1> SUFFICES Meta
  BY <1>2
<1> USE <1>1
<1>3. CASE CortoEspera
  BY <1>3, SemTipo DEF CortoEspera, Semaforos, Pc
<1>4. CASE CortoDespacha
  <2>1. cola_ready # <<>> => /\ Head(cola_ready) \in Pids
                             /\ Tail(cola_ready) \in Seq(Pids)
    OBVIOUS
  <2>2. CASE cola_ready = <<>>
    BY <1>4, <2>2 DEF CortoDespacha
  <2>3. CASE cola_ready # <<>>
    <3>1. PICK p \in Pids : despacho' = Append(despacho, p)
      BY <1>4, <2>1, <2>3 DEF CortoDespacha
    <3>2. despacho' \in Seq(Pids)
      BY <3>1
    <3>3. QED
      BY <1>4, <2>1, <2>3, <3>2 DEF CortoDespacha, Pc
  <2>4. QED
    BY <2>2, <2>3
<1>5. CASE CortoFinExec
  BY <1>5, SemTipo DEF CortoFinExec, Semaforos, Pc
<1>6. CASE CortoCompuerta
  BY <1>6 DEF CortoCompuerta, Pc
<1>7. CASE CortoReanuda
  BY <1>7, SemTipo DEF CortoReanuda, Semaforos, Pc
<1>8. QED
  BY <1>3, <1>4, <1>5, <1>6, <1>7 DEF PlanificadorCorto

(* MEMORIA.                                                                *)
LEMMA TipoMemoria ==
  ASSUME TipoInv, AtenderKernel
  PROVE  TipoInv'
<1>1. /\ UNCHANGED <<kernel, cola_new, cola_ready, cola_block, sem, recursos,
                     consola, largo, corto, desalojo, gestor, procesador>>
      /\ pedidos \in Seq(Pedido) /\ respuestas \in Seq(Respuesta)
      /\ memoria \subseteq Pids
      /\ pedidos # <<>>
  BY DEF AtenderKernel, TipoInv, TypeOK, TipoConexion
<1>2. /\ Head(pedidos) \in Pedido /\ Tail(pedidos) \in Seq(Pedido)
  BY <1>1
<1>3. /\ memoria' \subseteq Pids /\ pedidos' \in Seq(Pedido)
      /\ respuestas' \in Seq(Respuesta)
  BY <1>1, <1>2 DEF AtenderKernel, Pedido, Respuesta
<1>4. TipoColas' /\ TipoPlanificadores' /\ TipoRecursos' /\ TipoConsola'
  BY <1>1 DEF TipoInv, TypeOK, TipoColas, TipoPlanificadores, TipoRecursos,
              TipoConsola, recursos, consola, grado, parada
<1>5. TipoManejadores' /\ TipoConexion' /\ TipoProcesador'
  BY <1>1, <1>3 DEF TipoInv, TypeOK, TipoManejadores, TipoConexion,
                    TipoProcesador, procesador
<1>6. EnMano'
  BY <1>1 DEF TipoInv, EnMano, HiloEnMano, DesalojoEnMano, consola, procesador
<1>7. QED
  BY <1>1, <1>4, <1>5, <1>6 DEF TipoInv, TypeOK

(* CPU.                                                                    *)
LEMMA TipoCpu ==
  ASSUME TipoInv, Cpu
  PROVE  TipoInv'
<1>1. /\ UNCHANGED <<kernel, cola_new, cola_ready, cola_block, sem, recursos,
                     consola, largo, corto, desalojo, gestor, conexion>>
      /\ TipoProcesador
      /\ despacho \in Seq(Pids) /\ motivos \in Seq(Motivo)
      /\ cpu \in [pc : Pc.cpu, pid : Pids \cup {NADIE}]
      /\ pasos \in [Pids -> Nat]
      /\ cpu.pc \in {"pide", "ejecuta"} => cpu.pid \in Pids
  BY DEF Cpu, TipoInv, TypeOK, TipoProcesador, EnMano
<1> DEFINE Meta == /\ despacho' \in Seq(Pids) /\ motivos' \in Seq(Motivo)
                   /\ cpu' \in [pc : Pc.cpu, pid : Pids \cup {NADIE}]
                   /\ pasos' \in [Pids -> Nat]
                   /\ cpu'.pc \in {"pide", "ejecuta"} => cpu'.pid \in Pids
<1>2. ASSUME Meta PROVE TipoInv'
  <2>1. TipoColas' /\ TipoPlanificadores' /\ TipoRecursos' /\ TipoConsola'
    BY <1>1 DEF TipoInv, TypeOK, TipoColas, TipoPlanificadores, TipoRecursos,
                TipoConsola, recursos, consola, grado, parada
  <2>2. TipoManejadores' /\ TipoConexion' /\ TipoProcesador'
    BY <1>1, <1>2 DEF TipoInv, TypeOK, TipoManejadores, TipoConexion,
                      TipoProcesador, conexion
  <2>3. EnMano'
    BY <1>1, <1>2 DEF TipoInv, EnMano, HiloEnMano, DesalojoEnMano, consola
  <2>4. QED
    BY <1>1, <2>1, <2>2, <2>3 DEF TipoInv, TypeOK
<1> SUFFICES Meta
  BY <1>2
<1> USE <1>1
<1>3. CASE CpuRecibe
  BY <1>3 DEF CpuRecibe, Pc
<1>4. CASE CpuFetch
  BY <1>4 DEF CpuFetch, Pc
<1>5. CASE CpuExit
  BY <1>5 DEF CpuExit, Desalojar, Motivo, Motivos, NombresMsg, Pc
<1>6. CASE CpuRecurso
  BY <1>6 DEF CpuRecurso, Desalojar, Motivo, Motivos, NombresMsg, Pc
<1>7. QED
  BY <1>3, <1>4, <1>5, <1>6 DEF Cpu

(* The eviction thread moves on with the same PCB and resource.            *)
LEMMA IrDesalojoTipo ==
  ASSUME desalojo \in [pc : Pc.desalojo, pid : Pids \cup {NADIE},
                      recurso : NombresMsg],
         DesalojoEnMano, NEW pc \in Pc.desalojo, IrDesalojo(pc),
         desalojo.pc \notin {"espera", "fin"},
         pc \in {"confirma", "bloquea", "avisa"} => desalojo.recurso \in Recursos
  PROVE  /\ desalojo' \in [pc : Pc.desalojo, pid : Pids \cup {NADIE},
                           recurso : NombresMsg]
         /\ DesalojoEnMano'
  BY DEF IrDesalojo, DesalojoEnMano, Pc

(* One more or one less instance of a resource held by a process.          *)
LEMMA RecsAsocTipo ==
  ASSUME recs_asoc \in [Pids -> [Recursos -> Nat]],
         NEW p \in Pids, NEW r \in Recursos, NEW n \in Nat
  PROVE  [recs_asoc EXCEPT ![p][r] = n] \in [Pids -> [Recursos -> Nat]]
<1>1. [recs_asoc[p] EXCEPT ![r] = n] \in [Recursos -> Nat]
  OBVIOUS
<1>2. QED
  BY <1>1

LEMMA SumaUnoTipo ==
  ASSUME NEW S, NEW f \in [S -> Nat], NEW s \in S
  PROVE  [f EXCEPT ![s] = @ + 1] \in [S -> Nat]
<1>1. PICK n \in Nat : n = f[s] + 1
  OBVIOUS
<1>2. [f EXCEPT ![s] = @ + 1] = [f EXCEPT ![s] = n]
  BY <1>1
<1>3. [f EXCEPT ![s] = n] \in [S -> Nat]
  OBVIOUS
<1>4. QED
  BY <1>2, <1>3

(* motivo_desalojo.                                                        *)
LEMMA TipoDesalojo ==
  ASSUME TipoInv, Desalojo
  PROVE  TipoInv'
<1> DEFINE D == [pc : Pc.desalojo, pid : Pids \cup {NADIE}, recurso : NombresMsg]
<1>1. /\ UNCHANGED <<cola_new, cola_ready, consola, largo, corto, gestor,
                     memoria, cpu, pasos>>
      /\ TipoRecursos /\ cola_block \in [Recursos -> Seq(Pids)]
      /\ kernel \in {"activo", "abortado"} /\ sem \in [Semaforos -> Nat]
      /\ desalojo \in D /\ DesalojoEnMano
      /\ pedidos \in Seq(Pedido) /\ respuestas \in Seq(Respuesta)
      /\ despacho \in Seq(Pids) /\ motivos \in Seq(Motivo)
  BY DEF Desalojo, TipoInv, TypeOK, TipoColas, TipoManejadores, TipoConexion,
         TipoProcesador, EnMano
<1> DEFINE Meta == /\ TipoRecursos' /\ cola_block' \in [Recursos -> Seq(Pids)]
                   /\ kernel' \in {"activo", "abortado"}
                   /\ sem' \in [Semaforos -> Nat]
                   /\ desalojo' \in D /\ DesalojoEnMano'
                   /\ pedidos' \in Seq(Pedido) /\ respuestas' \in Seq(Respuesta)
                   /\ despacho' \in Seq(Pids) /\ motivos' \in Seq(Motivo)
<1>2. ASSUME Meta PROVE TipoInv'
  <2>1. TipoColas' /\ TipoPlanificadores' /\ TipoConsola'
    BY <1>1, <1>2 DEF TipoInv, TypeOK, TipoColas, TipoPlanificadores,
                      TipoConsola, consola, grado, parada
  <2>2. TipoManejadores' /\ TipoConexion' /\ TipoProcesador'
    BY <1>1, <1>2 DEF TipoInv, TypeOK, TipoManejadores, TipoConexion,
                      TipoProcesador
  <2>3. EnMano'
    BY <1>1, <1>2 DEF TipoInv, EnMano, HiloEnMano, consola
  <2>4. QED
    BY <1>1, <1>2, <2>1, <2>2, <2>3 DEF TipoInv, TypeOK
<1> SUFFICES Meta
  BY <1>2
<1>3. CASE RecibirMotivo
  <2>1. Head(motivos) \in Motivo /\ Tail(motivos) \in Seq(Motivo)
    BY <1>1, <1>3 DEF RecibirMotivo
  <2>2. desalojo' \in D /\ DesalojoEnMano'
    BY <1>1, <1>3, <2>1 DEF RecibirMotivo, DesalojoEnMano, Motivo, Motivos, Pc
  <2>3. TipoRecursos'
    BY <1>1, <1>3 DEF RecibirMotivo, TipoRecursos, recursos
  <2>4. QED
    BY <1>1, <1>3, <2>1, <2>2, <2>3 DEF RecibirMotivo
<1>4. CASE ManejarWaitSignal
  <2>1. UNCHANGED <<kernel, sem, pedidos, respuestas, motivos>>
    BY <1>4 DEF ManejarWaitSignal
  <2>2. desalojo.pc \notin {"espera", "fin"} => desalojo.pid \in Pids
    BY <1>1 DEF DesalojoEnMano
  <2>3. SUFFICES /\ TipoRecursos' /\ cola_block' \in [Recursos -> Seq(Pids)]
                 /\ desalojo' \in D /\ DesalojoEnMano' /\ despacho' \in Seq(Pids)
    BY <1>1, <2>1
  <2> USE <1>1, <2>2
  <2>4. CASE WaitInvalido
    <3>1. desalojo' \in D /\ DesalojoEnMano'
      BY <2>4, IrDesalojoTipo DEF WaitInvalido, Pc
    <3>2. QED
      BY <2>4, <3>1 DEF WaitInvalido, recursos, TipoRecursos
  <2>5. CASE WaitAsigna
    <3>1. desalojo' \in D /\ DesalojoEnMano'
      BY <2>5, IrDesalojoTipo DEF WaitAsigna, Pc
    <3>2. instancias' \in [Recursos -> Nat]
      BY <2>5 DEF WaitAsigna, TipoRecursos
    <3>3. recs_asoc[desalojo.pid][desalojo.recurso] + 1 \in Nat
      BY <2>5 DEF WaitAsigna, TipoRecursos
    <3>4. recs_asoc' \in [Pids -> [Recursos -> Nat]]
      BY <2>5, <3>3, RecsAsocTipo DEF WaitAsigna, TipoRecursos
    <3>5. QED
      BY <2>5, <3>1, <3>2, <3>4 DEF WaitAsigna, TipoRecursos
  <2>6. CASE WaitConfirma
    <3>1. desalojo' \in D /\ DesalojoEnMano'
      BY <2>6, IrDesalojoTipo DEF WaitConfirma, Pc
    <3>2. sem_instancias' \in [Recursos -> Nat]
      BY <2>6 DEF WaitConfirma, TipoRecursos, DesalojoEnMano
    <3>3. QED
      BY <2>6, <3>1, <3>2 DEF WaitConfirma, TipoRecursos
  <2>7. CASE WaitSinInstancias
    <3>1. desalojo' \in D /\ DesalojoEnMano'
      BY <2>7, IrDesalojoTipo DEF WaitSinInstancias, Pc
    <3>2. QED
      BY <2>7, <3>1 DEF WaitSinInstancias, recursos, TipoRecursos
  <2>8. CASE WaitBloquea
    <3>1. desalojo' \in D /\ DesalojoEnMano'
      BY <2>8, IrDesalojoTipo DEF WaitBloquea, DesalojoEnMano, Pc
    <3>2. desalojo.recurso \in Recursos /\ desalojo.pid \in Pids
      BY <2>8 DEF WaitBloquea, DesalojoEnMano
    <3>3. cola_block' \in [Recursos -> Seq(Pids)]
      BY <2>8, <3>2 DEF WaitBloquea
    <3>4. QED
      BY <2>8, <3>1, <3>3 DEF WaitBloquea, recursos, TipoRecursos
  <2>9. CASE WaitAvisa
    <3>1. desalojo' \in D /\ DesalojoEnMano'
      BY <2>9, IrDesalojoTipo DEF WaitAvisa, Pc
    <3>2. sem_block' \in [Recursos -> Nat]
      BY <2>9 DEF WaitAvisa, SignalBin, TipoRecursos
    <3>3. QED
      BY <2>9, <3>1, <3>2 DEF WaitAvisa, TipoRecursos
  <2>10. CASE ManejarSignal
    <3>1. desalojo' \in D /\ DesalojoEnMano'
      BY <2>10, IrDesalojoTipo DEF ManejarSignal, Pc
    <3>2. instancias' \in [Recursos -> Nat] /\ sem_instancias' \in [Recursos -> Nat]
      <4>1. /\ instancias \in [Recursos -> Nat] /\ sem_instancias \in [Recursos -> Nat]
            /\ instancias' = [instancias EXCEPT ![desalojo.recurso] = @ + 1]
            /\ sem_instancias' = [sem_instancias EXCEPT ![desalojo.recurso] = @ + 1]
            /\ desalojo.recurso \in Recursos
        BY <2>10 DEF ManejarSignal, TipoRecursos
      <4>2. QED
        BY <4>1, SumaUnoTipo
    <3>3. recs_asoc[desalojo.pid][desalojo.recurso] - 1 \in Nat
      <4>1. desalojo.pid \in Pids /\ desalojo.recurso \in Recursos
        BY <2>10 DEF ManejarSignal, DesalojoEnMano, Pc
      <4>2. recs_asoc[desalojo.pid][desalojo.recurso] \in Nat
        BY <4>1 DEF TipoRecursos
      <4>3. recs_asoc[desalojo.pid][desalojo.recurso] > 0
        BY <2>10 DEF ManejarSignal
      <4>4. QED
        BY <4>2, <4>3
    <3>4. recs_asoc' \in [Pids -> [Recursos -> Nat]]
      BY <2>10, <3>3, RecsAsocTipo DEF ManejarSignal, TipoRecursos
    <3>5. TipoRecursos'
      BY <2>10, <3>2, <3>4 DEF ManejarSignal, TipoRecursos
    <3>6. despacho' \in Seq(Pids)
      <4>1. desalojo.pid \in Pids /\ despacho' = Append(despacho, desalojo.pid)
        BY <2>10 DEF ManejarSignal, DesalojoEnMano, Pc
      <4>2. QED
        BY <4>1, AppendProperties
    <3>7. QED
      BY <2>10, <3>1, <3>5, <3>6 DEF ManejarSignal
  <2>11. CASE SignalInvalido
    <3>1. desalojo' \in D /\ DesalojoEnMano'
      BY <2>11 DEF SignalInvalido, DesalojoEnMano, NombresMsg, Pc
    <3>2. QED
      BY <2>11, <3>1 DEF SignalInvalido, recursos, TipoRecursos
  <2>12. QED
    BY <1>4, <2>4, <2>5, <2>6, <2>7, <2>8, <2>9, <2>10, <2>11
       DEF ManejarWaitSignal
<1>5. CASE ManejarExit
  <2>1. UNCHANGED <<cola_block, despacho, motivos>>
    BY <1>5 DEF ManejarExit
  <2>2. desalojo.pc \notin {"espera", "fin"} => desalojo.pid \in Pids
    BY <1>1 DEF DesalojoEnMano
  <2> USE <1>1, <2>1, <2>2
  <2>3. CASE ExitLibera
    <3>1. desalojo.pid \in Pids
      BY <2>3 DEF ExitLibera
    <3>2. desalojo' \in D /\ DesalojoEnMano'
      BY <2>3, IrDesalojoTipo DEF ExitLibera, Pc
    <3>3. pedidos' \in Seq(Pedido)
      BY <2>3, <3>1 DEF ExitLibera, Pedido
    <3>4. /\ instancias' \in [Recursos -> Nat] /\ sem_instancias' \in [Recursos -> Nat]
          /\ recs_asoc' \in [Pids -> [Recursos -> Nat]]
      BY <2>3, <3>1 DEF ExitLibera, TipoRecursos
    <3>5. QED
      BY <2>3, <3>2, <3>3, <3>4 DEF ExitLibera, TipoRecursos
  <2>4. CASE ExitConfirma
    <3>1. respuestas' \in Seq(Respuesta)
      BY <2>4 DEF ExitConfirma, PuedeRecibir
    <3>2. TipoRecursos'
      BY <2>4 DEF ExitConfirma, TipoRecursos, recursos
    <3>3. CASE Head(respuestas).valor = OK
      <4>1. sem' \in [Semaforos -> Nat]
        BY <2>4, <3>3, SemTipo DEF ExitConfirma, Semaforos
      <4>2. desalojo' \in D /\ DesalojoEnMano'
        BY <2>4, <3>3 DEF ExitConfirma, DesalojoEnMano, Pc
      <4>3. QED
        BY <2>4, <3>1, <3>2, <3>3, <4>1, <4>2 DEF ExitConfirma
    <3>4. CASE Head(respuestas).valor # OK
      BY <2>4, <3>1, <3>2, <3>4 DEF ExitConfirma, DesalojoEnMano
    <3>5. QED
      BY <3>3, <3>4
  <2>5. CASE AbortarPorDobleFree
    BY <2>5 DEF AbortarPorDobleFree, DesalojoEnMano, TipoRecursos, recursos
  <2>6. CASE FinDesalojo
    BY <2>6, SemTipo DEF FinDesalojo, Semaforos, DesalojoEnMano, TipoRecursos,
                         recursos, NombresMsg, Pc
  <2>7. QED
    BY <1>5, <2>3, <2>4, <2>5, <2>6 DEF ManejarExit
<1>6. QED
  BY <1>3, <1>4, <1>5 DEF Desalojo

(* manejador_recursos.                                                     *)
LEMMA TipoGestor ==
  ASSUME TipoInv, NEW r \in Recursos, Gestor(r)
  PROVE  TipoInv'
<1> DEFINE G == [Recursos -> [pc : Pc.gestor, pid : Pids \cup {NADIE}]]
           GestorEnMano == \A q \in Recursos :
             gestor[q].pc \in {"saca", "ingresa"} => gestor[q].pid \in Pids
<1>1. /\ UNCHANGED <<kernel, cola_new, consola, largo, corto, desalojo,
                     conexion, procesador>>
      /\ TipoRecursos /\ cola_block \in [Recursos -> Seq(Pids)]
      /\ cola_ready \in Seq(Pids) /\ sem \in [Semaforos -> Nat]
      /\ gestor \in G /\ GestorEnMano
  BY DEF Gestor, TipoInv, TypeOK, TipoColas, TipoManejadores, EnMano
<1> DEFINE Meta == /\ TipoRecursos' /\ cola_block' \in [Recursos -> Seq(Pids)]
                   /\ cola_ready' \in Seq(Pids) /\ sem' \in [Semaforos -> Nat]
                   /\ gestor' \in G /\ GestorEnMano'
<1>2. ASSUME Meta PROVE TipoInv'
  <2>1. TipoColas' /\ TipoPlanificadores' /\ TipoConsola'
    BY <1>1, <1>2 DEF TipoInv, TypeOK, TipoColas, TipoPlanificadores,
                      TipoConsola, consola, grado, parada
  <2>2. TipoManejadores' /\ TipoConexion' /\ TipoProcesador'
    BY <1>1, <1>2 DEF TipoInv, TypeOK, TipoManejadores, TipoConexion,
                      TipoProcesador, conexion, procesador
  <2>3. EnMano'
    BY <1>1, <1>2 DEF TipoInv, EnMano, HiloEnMano, DesalojoEnMano, consola,
                      procesador
  <2>4. QED
    BY <1>1, <1>2, <2>1, <2>2, <2>3 DEF TipoInv, TypeOK
<1> SUFFICES Meta
  BY <1>2
<1> USE <1>1 DEF IrGestor, Pc
<1>3. CASE GestorEsperaBlock(r)
  BY <1>3 DEF GestorEsperaBlock, TipoRecursos
<1>4. CASE GestorEsperaInstancia(r)
  BY <1>4 DEF GestorEsperaInstancia, TipoRecursos
<1>5. CASE GestorAsigna(r)
  <2>1. CASE cola_block[r] # <<>> /\ instancias[r] > 0
    <3> DEFINE p == Head(cola_block[r])
    <3>1. p \in Pids
      BY <2>1
    <3>2. /\ instancias' = [instancias EXCEPT ![r] = @ - 1]
          /\ recs_asoc' = [recs_asoc EXCEPT ![p][r] = @ + 1]
          /\ gestor' = [gestor EXCEPT ![r] = [pc |-> "saca", pid |-> p]]
          /\ UNCHANGED <<cola_ready, cola_block, sem, sem_block, sem_instancias>>
      BY <1>5, <2>1 DEF GestorAsigna
    <3> HIDE DEF p
    <3>3. gestor' \in G /\ GestorEnMano'
      BY <3>1, <3>2
    <3>4. instancias' \in [Recursos -> Nat] /\ recs_asoc[p][r] + 1 \in Nat
      BY <2>1, <3>1, <3>2 DEF TipoRecursos
    <3>5. recs_asoc' \in [Pids -> [Recursos -> Nat]]
      BY <3>1, <3>2, <3>4, RecsAsocTipo DEF TipoRecursos
    <3>6. QED
      BY <3>2, <3>3, <3>4, <3>5 DEF TipoRecursos
  <2>2. CASE ~(cola_block[r] # <<>> /\ instancias[r] > 0)
    <3>1. gestor' \in G /\ GestorEnMano'
      <4>1. PICK pc \in {"muerto", "espera"} : gestor' = [gestor EXCEPT ![r].pc = pc]
        BY <1>5, <2>2 DEF GestorAsigna
      <4>2. QED
        BY <4>1
    <3>2. QED
      BY <1>5, <2>2, <3>1 DEF GestorAsigna, TipoRecursos
  <2>3. QED
    BY <2>1, <2>2
<1>6. CASE GestorSaca(r)
  <2>1. gestor' \in G /\ GestorEnMano'
    BY <1>6 DEF GestorSaca
  <2>2. cola_block' \in [Recursos -> Seq(Pids)]
    BY <1>6 DEF GestorSaca
  <2>3. QED
    BY <1>6, <2>1, <2>2 DEF GestorSaca, TipoRecursos, recursos
<1>7. CASE GestorIngresa(r)
  <2>1. gestor' \in G /\ GestorEnMano'
    BY <1>7 DEF GestorIngresa
  <2>2. QED
    BY <1>7, <2>1 DEF GestorIngresa, TipoRecursos, recursos
<1>8. CASE GestorAvisa(r)
  <2>1. gestor' \in G /\ GestorEnMano'
    BY <1>8 DEF GestorAvisa
  <2>2. QED
    BY <1>8, <2>1, SemTipo DEF GestorAvisa, Semaforos, TipoRecursos, recursos
<1>9. QED
  BY <1>3, <1>4, <1>5, <1>6, <1>7, <1>8 DEF Gestor

(* Every step.                                                             *)
LEMMA TipoPaso == TipoInv /\ [Next]_vars => TipoInv'
<1> SUFFICES ASSUME TipoInv, [Next]_vars PROVE TipoInv'
  OBVIOUS
<1>1. CASE Next
  BY <1>1, TipoOrden, TipoConsolaPaso, TipoBajar, TipoConectar, TipoLargo, TipoCorto,
     TipoMemoria, TipoCpu, TipoDesalojo, TipoGestor DEF Next
<1>2. CASE UNCHANGED vars
  <2> USE <1>2 DEF vars, recursos, consola, grado, parada, conexion, procesador
  <2>1. TipoColas' /\ TipoPlanificadores' /\ TipoRecursos' /\ TipoConsola'
    BY DEF TipoInv, TypeOK, TipoColas, TipoPlanificadores, TipoRecursos,
           TipoConsola
  <2>2. TipoManejadores' /\ TipoConexion' /\ TipoProcesador'
    BY DEF TipoInv, TypeOK, TipoManejadores, TipoConexion, TipoProcesador
  <2>3. EnMano'
    BY DEF TipoInv, EnMano, HiloEnMano, DesalojoEnMano
  <2>4. QED
    BY <2>1, <2>2, <2>3 DEF TipoInv, TypeOK
<1>3. QED
  BY <1>1, <1>2

(* Every variable keeps its type, for every configuration and every        *)
(* program.                                                                *)
THEOREM TipoCorrecto == Spec => []TypeOK
<1>1. Init => TipoInv
  BY TipoInit
<1>2. TipoInv /\ [Next]_vars => TipoInv'
  BY TipoPaso
<1>3. TipoInv => TypeOK
  BY DEF TipoInv
<1>4. QED
  BY <1>1, <1>2, <1>3, PTL DEF Spec

-----------------------------------------------------------------------------
(* Where each PCB is.  The four queues, and the threads that are half way  *)
(* between two of them, are counted apart; in BLOCK, resource by resource, *)
(* so that no sum over the resources is needed.                            *)
EnRecurso(p, r) ==
  Veces(p, cola_block[r]) + Uno(gestor[r].pc = "ingresa" /\ gestor[r].pid = p)

Suelto(p) == EnNew(p) + Veces(p, cola_ready) + EnExec(p)

Ausente(p) == Suelto(p) = 0 /\ \A r \in Recursos : EnRecurso(p, r) = 0

Separado(p) ==
  /\ Suelto(p) <= 1
  /\ \A r \in Recursos :
       /\ EnRecurso(p, r) <= 1
       /\ EnRecurso(p, r) > 0 =>
            Suelto(p) = 0 /\ \A s \in Recursos \ {r} : EnRecurso(p, s) = 0
  /\ PorNacer(p) # {} => Ausente(p)
  /\ \A h, k \in PorNacer(p) : h = k
  /\ p > lastPID => Ausente(p) /\ PorNacer(p) = {}

(* Who has nothing in hand, and what the manager looked at is still first: *)
(* only it takes from that queue.                                          *)
ManosExactas ==
  /\ largo.pc # "ingresa" => largo.pid = NADIE
  /\ cpu.pc = "libre" => cpu.pid = NADIE
  /\ desalojo.pc = "espera" => desalojo.pid = NADIE
  /\ \A r \in Recursos : gestor[r].pc = "saca" =>
       cola_block[r] # <<>> /\ Head(cola_block[r]) = gestor[r].pid

UnLugarInv == TipoInv /\ ManosExactas /\ \A p \in Pids : Separado(p)

(* What a step does to the place of a PCB: nothing, or one of the moves of *)
(* CicloDeVida.                                                            *)
MismosRecursos(p) == \A r \in Recursos : EnRecurso(p, r)' = EnRecurso(p, r)

Quieto(p) ==
  /\ EnNew(p)' = EnNew(p) /\ Veces(p, cola_ready)' = Veces(p, cola_ready)
  /\ EnExec(p)' = EnExec(p)
  /\ MismosRecursos(p) /\ PorNacer(p)' = PorNacer(p)
  /\ p > lastPID' <=> p > lastPID

Cambia(p, n, r, e) ==
  /\ EnNew(p)' = EnNew(p) + n /\ Veces(p, cola_ready)' = Veces(p, cola_ready) + r
  /\ EnExec(p)' = EnExec(p) + e
  /\ p > lastPID' <=> p > lastPID

Nace(p) ==
  /\ EnNew(p)' = EnNew(p) /\ Veces(p, cola_ready)' = Veces(p, cola_ready)
  /\ EnExec(p)' = EnExec(p) /\ MismosRecursos(p)
  /\ p > lastPID /\ ~(p > lastPID')
  /\ \E h : PorNacer(p)' = PorNacer(p) \cup {h}

Ingresa(p) ==
  /\ Cambia(p, 1, 0, 0) /\ MismosRecursos(p)
  /\ \E h \in PorNacer(p) : PorNacer(p)' = PorNacer(p) \ {h}

PasaDe(p) ==
  /\ PorNacer(p)' = PorNacer(p) /\ MismosRecursos(p)
  /\ \/ Cambia(p, -1, 1, 0) \/ Cambia(p, -1, 0, 0)
     \/ Cambia(p, 0, -1, 1) \/ Cambia(p, 0, 0, -1)

Bloquea(p, r) ==
  /\ Cambia(p, 0, 0, -1) /\ PorNacer(p)' = PorNacer(p)
  /\ EnRecurso(p, r)' = EnRecurso(p, r) + 1
  /\ \A s \in Recursos \ {r} : EnRecurso(p, s)' = EnRecurso(p, s)

Desbloquea(p, r) ==
  /\ Cambia(p, 0, 1, 0) /\ PorNacer(p)' = PorNacer(p)
  /\ EnRecurso(p, r)' = EnRecurso(p, r) - 1
  /\ \A s \in Recursos \ {r} : EnRecurso(p, s)' = EnRecurso(p, s)

Mueve(p) ==
  \/ Nace(p) \/ Ingresa(p) \/ PasaDe(p)
  \/ \E r \in Recursos : Bloquea(p, r) \/ Desbloquea(p, r)

PasoDePcb ==
  \/ \A p \in Pids : Quieto(p)
  \/ \E q \in Pids : Mueve(q) /\ \A p \in Pids \ {q} : Quieto(p)

(* The counts are numbers.                                                 *)
LEMMA VecesOcurrencias == \A p, s : Veces(p, s) = Ocurrencias(p, s)
BY DEF Veces, Ocurrencias

EnMotivos(p) == Cardinality({i \in DOMAIN motivos : motivos[i].pid = p})

LEMMA MotivosPid ==
  ASSUME motivos \in Seq(Motivo), NEW p
  PROVE  /\ LosPid(motivos) \in Seq(Pids)
         /\ EnMotivos(p) = Ocurrencias(p, LosPid(motivos))
<1>1. \A m \in Motivo : m.pid \in Pids
  BY DEF Motivo
<1>2. LosPid(motivos) \in Seq(Pids)
  BY <1>1, LosPidTipo
<1>3. /\ DOMAIN LosPid(motivos) = DOMAIN motivos
      /\ \A i \in DOMAIN motivos : LosPid(motivos)[i] = motivos[i].pid
  BY DEF LosPid
<1>4. QED
  BY <1>2, <1>3 DEF EnMotivos, Ocurrencias

LEMMA CuentasNat ==
  ASSUME TipoInv, NEW p
  PROVE  /\ Veces(p, cola_new) \in Nat /\ Veces(p, cola_ready) \in Nat
         /\ Veces(p, despacho) \in Nat /\ EnMotivos(p) \in Nat
         /\ \A b : Uno(b) \in {0, 1}
         /\ EnNew(p) \in Nat /\ EnExec(p) \in Nat
         /\ \A r \in Recursos : Veces(p, cola_block[r]) \in Nat /\ EnRecurso(p, r) \in Nat
<1>1. Veces(p, cola_new) \in Nat /\ Veces(p, cola_ready) \in Nat
  BY VecesOcurrencias, OcurrenciasNat DEF TipoInv, TypeOK, TipoColas
<1>2. Veces(p, despacho) \in Nat /\ EnMotivos(p) \in Nat
  <2>1. despacho \in Seq(Pids) /\ motivos \in Seq(Motivo)
    BY DEF TipoInv, TypeOK, TipoProcesador
  <2>2. LosPid(motivos) \in Seq(Pids) /\ EnMotivos(p) = Ocurrencias(p, LosPid(motivos))
    BY <2>1, MotivosPid
  <2>3. Ocurrencias(p, LosPid(motivos)) \in Nat /\ Ocurrencias(p, despacho) \in Nat
    BY <2>1, <2>2, OcurrenciasNat
  <2>4. QED
    BY <2>2, <2>3, VecesOcurrencias
<1>3. \A b : Uno(b) \in {0, 1}
  BY DEF Uno
<1>4. Uno(largo.pid = p) \in {0, 1} /\ Uno(cpu.pid = p) \in {0, 1} /\ Uno(EnDesalojo(p)) \in {0, 1}
  BY <1>3
<1>5. EnNew(p) \in Nat /\ EnExec(p) \in Nat
  BY <1>1, <1>2, <1>4 DEF EnNew, EnExec, EnMotivos
<1>6. ASSUME NEW r \in Recursos
      PROVE  Veces(p, cola_block[r]) \in Nat /\ EnRecurso(p, r) \in Nat
  <2>1. Veces(p, cola_block[r]) \in Nat
    BY VecesOcurrencias, OcurrenciasNat DEF TipoInv, TypeOK, TipoColas
  <2>2. Uno(gestor[r].pc = "ingresa" /\ gestor[r].pid = p) \in {0, 1}
    BY <1>3
  <2>3. QED
    BY <2>1, <2>2 DEF EnRecurso
<1>7. QED
  BY <1>1, <1>2, <1>3, <1>5, <1>6

Numeros(p) ==
  /\ EnNew(p) \in Nat /\ Veces(p, cola_ready) \in Nat /\ EnExec(p) \in Nat
  /\ \A r \in Recursos : EnRecurso(p, r) \in Nat
  /\ Veces(p, despacho) \in Nat /\ EnMotivos(p) \in Nat
  /\ \A r \in Recursos : Veces(p, cola_block[r]) \in Nat

LEMMA CuentasNatPrima ==
  ASSUME NEW p \in Pids
  PROVE  TipoInv' => Numeros(p)'
<1>1. TipoInv => Numeros(p)
  BY CuentasNat DEF Numeros
<1>2. QED
  BY <1>1, PTL

(* Each move leaves the PCB in one place.                                  *)
LEMMA QuietoSeparado ==
  ASSUME NEW p \in Pids, Separado(p), Quieto(p)
  PROVE  Separado(p)'
<1>1. Suelto(p)' = Suelto(p) /\ Ausente(p)' = Ausente(p)
  BY DEF Quieto, MismosRecursos, Suelto, Ausente
<1>2. \A r \in Recursos : EnRecurso(p, r)' = EnRecurso(p, r)
  BY DEF Quieto, MismosRecursos
<1>3. PorNacer(p)' = PorNacer(p) /\ (p > lastPID' <=> p > lastPID)
  BY DEF Quieto
<1>4. QED
  BY <1>1, <1>2, <1>3 DEF Separado

LEMMA MueveSeparado ==
  ASSUME NEW p \in Pids, TipoInv, TipoInv', Separado(p), Mueve(p)
  PROVE  Separado(p)'
<1>1. /\ EnNew(p) \in Nat /\ Veces(p, cola_ready) \in Nat /\ EnExec(p) \in Nat
      /\ \A r \in Recursos : EnRecurso(p, r) \in Nat
  BY CuentasNat
<1>2. /\ EnNew(p)' \in Nat /\ Veces(p, cola_ready)' \in Nat /\ EnExec(p)' \in Nat
      /\ \A r \in Recursos : EnRecurso(p, r)' \in Nat
  BY CuentasNatPrima DEF Numeros
<1> DEFINE n == EnNew(p)
           l == Veces(p, cola_ready)
           e == EnExec(p)
           m == EnNew(p)'
           k == Veces(p, cola_ready)'
           f == EnExec(p)'
<1>3. Suelto(p) = n + l + e /\ Suelto(p)' = m + k + f
  BY DEF Suelto
<1>4. CASE Nace(p)
  <2>1. Ausente(p) /\ PorNacer(p) = {}
    BY <1>4 DEF Nace, Separado
  <2>2. Ausente(p)' /\ Suelto(p)' = 0 /\ \A r \in Recursos : EnRecurso(p, r)' = 0
    BY <1>4, <2>1 DEF Nace, Ausente, Suelto, MismosRecursos
  <2>3. PICK h : PorNacer(p)' = {h}
    BY <1>4, <2>1 DEF Nace
  <2>4. ~(p > lastPID')
    BY <1>4 DEF Nace
  <2>5. QED
    BY <2>2, <2>3, <2>4 DEF Separado
<1>5. CASE Ingresa(p)
  <2>1. PICK h \in PorNacer(p) : PorNacer(p)' = PorNacer(p) \ {h}
    BY <1>5 DEF Ingresa
  <2>2. Ausente(p) /\ ~(p > lastPID) /\ PorNacer(p)' = {}
    BY <2>1 DEF Separado
  <2>3. n + l + e = 0
    BY <1>3, <2>2 DEF Ausente
  <2>4. Suelto(p)' = 1
    BY <1>1, <1>3, <1>5, <2>3 DEF Ingresa, Cambia
  <2>5. \A r \in Recursos : EnRecurso(p, r)' = 0
    BY <1>5, <2>2 DEF Ingresa, MismosRecursos, Ausente
  <2>6. ~(p > lastPID')
    BY <1>5, <2>2 DEF Ingresa, Cambia
  <2>7. QED
    BY <2>2, <2>4, <2>5, <2>6 DEF Separado
<1> HIDE DEF n, l, e, m, k, f
<1>6. CASE PasaDe(p)
  <2>1. n + l + e > 0 /\ m + k + f <= n + l + e
    <3>1. \/ m = n - 1 /\ k = l + 1 /\ f = e
          \/ m = n - 1 /\ k = l /\ f = e
          \/ m = n /\ k = l - 1 /\ f = e + 1
          \/ m = n /\ k = l /\ f = e - 1
      BY <1>1, <1>6 DEF PasaDe, Cambia, n, l, e, m, k, f
    <3>2. n \in Nat /\ l \in Nat /\ e \in Nat /\ m \in Nat /\ k \in Nat /\ f \in Nat
      BY <1>1, <1>2 DEF n, l, e, m, k, f
    <3>3. QED
      BY <3>1, <3>2
  <2>2. Suelto(p) > 0 /\ Suelto(p) <= 1 /\ Suelto(p)' <= Suelto(p)
    BY <1>3, <2>1 DEF Separado
  <2>3. Suelto(p) \in Nat /\ Suelto(p)' \in Nat
    <3>1. n \in Nat /\ l \in Nat /\ e \in Nat /\ m \in Nat /\ k \in Nat /\ f \in Nat
      BY <1>1, <1>2 DEF n, l, e, m, k, f
    <3>2. QED
      BY <1>3, <3>1
  <2>4. ~Ausente(p) /\ PorNacer(p) = {} /\ ~(p > lastPID) /\ \A r \in Recursos : ~(EnRecurso(p, r) > 0)
    BY <2>2, <2>3 DEF Separado, Ausente
  <2>5. \A r \in Recursos : EnRecurso(p, r)' = 0
    BY <1>1, <1>6, <2>4 DEF PasaDe, MismosRecursos
  <2>6. PorNacer(p)' = {} /\ ~(p > lastPID')
    BY <1>6, <2>4 DEF PasaDe, Cambia
  <2>7. Suelto(p)' <= 1
    BY <2>2, <2>3
  <2>8. QED
    BY <2>5, <2>6, <2>7 DEF Separado
<1>7. ASSUME NEW r \in Recursos, Bloquea(p, r)
      PROVE  Separado(p)'
  <2>1. n + l + e > 0 /\ m + k + f = n + l + e - 1
    <3>1. m = n /\ k = l /\ f = e - 1
      BY <1>1, <1>7 DEF Bloquea, Cambia, n, l, e, m, k, f
    <3>2. n \in Nat /\ l \in Nat /\ e \in Nat /\ m \in Nat /\ k \in Nat /\ f \in Nat
      BY <1>1, <1>2 DEF n, l, e, m, k, f
    <3>3. QED
      BY <3>1, <3>2
  <2>2. Suelto(p) > 0 /\ Suelto(p) <= 1 /\ Suelto(p)' = Suelto(p) - 1
    <3>1. Suelto(p) <= 1
      BY DEF Separado
    <3>2. n \in Nat /\ l \in Nat /\ e \in Nat
      BY <1>1 DEF n, l, e
    <3>3. QED
      BY <1>3, <2>1, <3>1, <3>2
  <2>3. Suelto(p) \in Nat
    <3>1. n \in Nat /\ l \in Nat /\ e \in Nat
      BY <1>1 DEF n, l, e
    <3>2. QED
      BY <1>3, <3>1
  <2>4. /\ ~Ausente(p) /\ PorNacer(p) = {} /\ ~(p > lastPID)
        /\ \A s \in Recursos : ~(EnRecurso(p, s) > 0)
    BY <2>2, <2>3 DEF Separado, Ausente
  <2>5. Suelto(p)' = 0
    BY <2>2, <2>3
  <2>6. EnRecurso(p, r)' = 1 /\ \A s \in Recursos \ {r} : EnRecurso(p, s)' = 0
    BY <1>1, <1>7, <2>4 DEF Bloquea
  <2>7. PorNacer(p)' = {} /\ ~(p > lastPID')
    BY <1>7, <2>4 DEF Bloquea, Cambia
  <2>8. QED
    BY <2>5, <2>6, <2>7 DEF Separado
<1>8. ASSUME NEW r \in Recursos, Desbloquea(p, r)
      PROVE  Separado(p)'
  <2>1. EnRecurso(p, r) > 0
    BY <1>1, <1>2, <1>8 DEF Desbloquea
  <2>2. Suelto(p) = 0 /\ EnRecurso(p, r) = 1 /\ \A s \in Recursos \ {r} : EnRecurso(p, s) = 0
    BY <1>1, <2>1 DEF Separado
  <2>3. PorNacer(p) = {} /\ ~(p > lastPID)
    BY <2>1 DEF Separado, Ausente
  <2>4. Suelto(p)' = 1
    <3>1. n \in Nat /\ l \in Nat /\ e \in Nat
      BY <1>1 DEF n, l, e
    <3>2. m = n /\ k = l + 1 /\ f = e
      BY <1>1, <1>8 DEF Desbloquea, Cambia, n, l, e, m, k, f
    <3>3. QED
      BY <1>3, <2>2, <3>1, <3>2
  <2>5. EnRecurso(p, r)' = 0 /\ \A s \in Recursos \ {r} : EnRecurso(p, s)' = 0
    BY <1>8, <2>2 DEF Desbloquea
  <2>6. \A s \in Recursos : EnRecurso(p, s)' = 0
    BY <2>5
  <2>7. PorNacer(p)' = {} /\ ~(p > lastPID')
    BY <1>8, <2>3 DEF Desbloquea, Cambia
  <2>8. QED
    BY <2>4, <2>6, <2>7 DEF Separado
<1>9. QED
  BY <1>4, <1>5, <1>6, <1>7, <1>8 DEF Mueve

(* A step that touches no place where a PCB can be.                        *)
LEMMA QuietoSi ==
  ASSUME NEW p,
         UNCHANGED <<cola_new, largo.pid, cola_ready, despacho, cpu.pid, motivos, cola_block, lastPID>>,
         EnDesalojo(p)' <=> EnDesalojo(p), PorNacer(p)' = PorNacer(p),
         \A r \in Recursos : (gestor'[r].pc = "ingresa" /\ gestor'[r].pid = p)
                               <=> (gestor[r].pc = "ingresa" /\ gestor[r].pid = p)
  PROVE  Quieto(p)
<1>1. EnNew(p)' = EnNew(p) /\ Veces(p, cola_ready)' = Veces(p, cola_ready)
  BY DEF EnNew, Veces
<1>2. EnExec(p)' = EnExec(p)
  <2>1. Uno(EnDesalojo(p))' = Uno(EnDesalojo(p))
    BY DEF Uno
  <2>2. QED
    BY <2>1 DEF EnExec, Veces
<1>3. MismosRecursos(p)
  BY DEF MismosRecursos, EnRecurso, Veces, Uno
<1>4. QED
  BY <1>1, <1>2, <1>3 DEF Quieto

(* What a console thread starts: at most, a PCB no queue has seen yet.     *)
LEMMA OrdenPcb ==
  ASSUME TipoInv, NEW h \in Hilos, Orden(h)
  PROVE  PasoDePcb
<1>1. /\ UNCHANGED <<cola_new, cola_ready, cola_block, largo, desalojo, gestor, despacho, motivos, cpu>>
      /\ hilo \in [Hilos -> [pc : Pc.hilo, arg : Nat, lineas : Nat]] /\ lastPID \in 0 .. MAX_PID
      /\ hilo[h].pc = "libre"
  BY DEF Orden, procesador, CrearPcb, Multiprogramacion, DetenerPlanificacion, IniciarPlanificacion, alta,
     Comando, TipoInv, TypeOK, TipoConsola
<1>2. ASSUME NEW p, PorNacer(p)' = PorNacer(p), lastPID' = lastPID
      PROVE  Quieto(p)
  BY <1>1, <1>2, QuietoSi DEF EnDesalojo
<1>3. CASE CrearPcb(h)
  <2>0. PICK q : q = lastPID + 1
    OBVIOUS
  <2>1. q \in Pids /\ lastPID' = q /\ hilo'[h].pc = "new" /\ hilo'[h].arg = q
        /\ \A k \in Hilos \ {h} : hilo'[k] = hilo[k]
    BY <1>1, <1>3, <2>0, ConstantesAssumption DEF CrearPcb, Ejecutar, Pids
  <2>2. PorNacer(q)' = PorNacer(q) \cup {h} /\ \A p : p # q => PorNacer(p)' = PorNacer(p)
    BY <1>1, <2>1 DEF PorNacer
  <2>3. ASSUME NEW p
        PROVE  /\ EnNew(p)' = EnNew(p) /\ Veces(p, cola_ready)' = Veces(p, cola_ready)
               /\ EnExec(p)' = EnExec(p) /\ MismosRecursos(p)
    BY <1>1 DEF EnNew, Veces, EnExec, EnDesalojo, MismosRecursos, EnRecurso, Uno
  <2>4. Nace(q)
    <3>1. q > lastPID /\ ~(q > lastPID')
      BY <1>1, <2>0, <2>1
    <3>2. \E k : PorNacer(q)' = PorNacer(q) \cup {k}
      BY <2>2
    <3>3. QED
      BY <2>3, <3>1, <3>2, Zenon DEF Nace
  <2>5. \A p \in Pids \ {q} : p > lastPID' <=> p > lastPID
    BY <1>1, <2>0, <2>1 DEF Pids
  <2>6. \A p \in Pids \ {q} : Quieto(p)
    BY <2>2, <2>3, <2>5 DEF Quieto
  <2>7. QED
    BY <2>1, <2>4, <2>6 DEF PasoDePcb, Mueve
<1>4. CASE ~CrearPcb(h)
  <2>1. lastPID' = lastPID /\ hilo'[h].pc # "new" /\ \A k \in Hilos \ {h} : hilo'[k] = hilo[k]
    BY <1>1, <1>4 DEF Orden, Multiprogramacion, DetenerPlanificacion, IniciarPlanificacion, alta, Ejecutar
  <2>2. \A p : PorNacer(p)' = PorNacer(p)
    BY <1>1, <2>1 DEF PorNacer
  <2>3. QED
    BY <1>2, <2>1, <2>2 DEF PasoDePcb
<1>5. QED
  BY <1>3, <1>4

(* The rest of INICIAR_PROCESO: into NEW, and out of it if MEMORIA refuses *)
(* the program.                                                            *)
LEMMA ConsolaPcb ==
  ASSUME TipoInv, NEW h \in Hilos, Consola(h)
  PROVE  PasoDePcb
<1>1. /\ UNCHANGED <<cola_ready, cola_block, largo, desalojo, gestor, despacho, motivos, cpu>>
      /\ hilo \in [Hilos -> [pc : Pc.hilo, arg : Nat, lineas : Nat]] /\ lastPID' = lastPID
      /\ cola_new \in Seq(Pids)
  BY DEF Consola, procesador, IngresarANew, EnviarProcesoMemoria, RecibirResultado, ProcesoCreado, ErrorAlCrear,
     DescartarDeNew, FijarGrado, DetenerCorto, DetenerLargo, RetenerNew, RetenerReady, RetenerBlock, BajarPlanificacion, LiberarNew,
     LiberarReady, LiberarBlock, LevantarPlanificacion, Reanudar, alta,
     TipoInv, TypeOK, TipoConsola, TipoColas
<1>2. ASSUME NEW p, PorNacer(p)' = PorNacer(p), UNCHANGED cola_new
      PROVE  Quieto(p)
  BY <1>1, <1>2, QuietoSi DEF EnDesalojo
<1>3. ASSUME NEW p, PorNacer(p)' = PorNacer(p), Veces(p, cola_new)' = Veces(p, cola_new)
      PROVE  Quieto(p)
  BY <1>1, <1>3 DEF Quieto, EnNew, Veces, EnExec, EnDesalojo, MismosRecursos, EnRecurso, Uno
<1>4. CASE IngresarANew(h)
  <2>0. PICK q : q = hilo[h].arg
    OBVIOUS
  <2>1. q \in Pids /\ h \in PorNacer(q) /\ cola_new' = Append(cola_new, q)
    BY <1>1, <1>4, <2>0 DEF IngresarANew, PorNacer, TipoInv, EnMano, HiloEnMano
  <2>2. hilo'[h].pc = "cupo" /\ \A k \in Hilos \ {h} : hilo'[k] = hilo[k]
    BY <1>1, <1>4 DEF IngresarANew, IrHilo
  <2>3. PorNacer(q)' = PorNacer(q) \ {h} /\ \A p : p # q => PorNacer(p)' = PorNacer(p)
    BY <1>1, <2>0, <2>1, <2>2 DEF PorNacer
  <2>4. \A p : Veces(p, cola_new)' = Veces(p, cola_new) + Uno(q = p)
    <3>1. \A p : Veces(p, Append(cola_new, q)) = Veces(p, cola_new) + Uno(q = p)
      BY <1>1, <2>1, OcurrenciasAppend, VecesOcurrencias DEF Cuenta, Uno
    <3>2. \A p : Veces(p, cola_new)' = Veces(p, Append(cola_new, q))
      BY <2>1 DEF Veces
    <3>3. QED
      BY <3>1, <3>2
  <2>5. Veces(q, cola_new) \in Nat /\ Uno(largo.pid = q) \in {0, 1}
    BY CuentasNat
  <2>6. EnNew(q)' = EnNew(q) + 1
    <3>1. EnNew(q)' = Veces(q, cola_new)' + Uno(largo.pid = q)
      BY <1>1 DEF EnNew
    <3>2. Veces(q, cola_new)' = Veces(q, cola_new) + 1
      BY <2>4 DEF Uno
    <3>3. QED
      BY <2>5, <3>1, <3>2 DEF EnNew
  <2>7. /\ Veces(q, cola_ready)' = Veces(q, cola_ready) /\ EnExec(q)' = EnExec(q)
        /\ MismosRecursos(q)
    BY <1>1 DEF Veces, EnExec, EnDesalojo, MismosRecursos, EnRecurso, Uno
  <2>8. Ingresa(q)
    <3>1. Veces(q, cola_ready) \in Nat /\ EnExec(q) \in Nat
      BY CuentasNat
    <3>2. Cambia(q, 1, 0, 0)
      BY <1>1, <2>6, <2>7, <3>1 DEF Cambia
    <3>3. QED
      BY <2>1, <2>3, <2>7, <3>2 DEF Ingresa
  <2>9. ASSUME NEW p \in Pids \ {q}
        PROVE  Quieto(p)
    <3>1. Veces(p, cola_new) \in Nat
      BY CuentasNat
    <3>2. Veces(p, cola_new)' = Veces(p, cola_new)
      BY <2>4, <3>1 DEF Uno
    <3>3. QED
      BY <1>3, <2>3, <3>2
  <2>10. QED
    BY <2>1, <2>8, <2>9 DEF PasoDePcb, Mueve
<1>5. CASE DescartarDeNew(h)
  <2>0. PICK q : q = hilo[h].arg
    OBVIOUS
  <2>1. q \in Pids /\ cola_new' = RemoveFirst(cola_new, q)
    BY <1>1, <1>5, <2>0 DEF DescartarDeNew, TipoInv, EnMano, HiloEnMano
  <2>2. hilo[h].pc = "descarta" /\ hilo'[h].pc = "libre" /\ \A k \in Hilos \ {h} : hilo'[k] = hilo[k]
    BY <1>1, <1>5 DEF DescartarDeNew, IrHiloCon
  <2>3. \A p : PorNacer(p)' = PorNacer(p)
    BY <1>1, <2>2 DEF PorNacer
  <2>4. \A p : Veces(p, cola_new)' = Veces(p, cola_new) - Uno(p = q /\ q \in ToSet(cola_new))
    <3>1. \A p : Veces(p, RemoveFirst(cola_new, q)) = Veces(p, cola_new) - Uno(p = q /\ q \in ToSet(cola_new))
      BY <1>1, <2>1, OcurrenciasRemoveFirst, VecesOcurrencias DEF Cuenta, Uno
    <3>2. \A p : Veces(p, cola_new)' = Veces(p, RemoveFirst(cola_new, q))
      BY <2>1 DEF Veces
    <3>3. QED
      BY <3>1, <3>2
  <2>5. ASSUME NEW p, ~(p = q /\ q \in ToSet(cola_new))
        PROVE  Quieto(p)
    <3>1. Veces(p, cola_new) \in Nat
      BY CuentasNat
    <3>2. Uno(p = q /\ q \in ToSet(cola_new)) = 0
      BY <2>5 DEF Uno
    <3>3. Veces(p, cola_new)' = Veces(p, cola_new)
      BY <2>4, <3>1, <3>2
    <3>4. QED
      BY <1>3, <2>3, <3>3
  <2>6. CASE q \in ToSet(cola_new)
    <3>1. Veces(q, cola_new)' = Veces(q, cola_new) - 1
      BY <2>4, <2>6 DEF Uno
    <3>2. Veces(q, cola_new) \in Nat /\ Uno(largo.pid = q) \in {0, 1}
          /\ Veces(q, cola_ready) \in Nat /\ EnExec(q) \in Nat
      BY CuentasNat
    <3>3. EnNew(q)' = Veces(q, cola_new)' + Uno(largo.pid = q)
      BY <1>1 DEF EnNew
    <3>4. EnNew(q)' = EnNew(q) + (-1)
      BY <3>1, <3>2, <3>3 DEF EnNew
    <3>5. /\ Veces(q, cola_ready)' = Veces(q, cola_ready) /\ EnExec(q)' = EnExec(q)
          /\ MismosRecursos(q)
      BY <1>1 DEF Veces, EnExec, EnDesalojo, MismosRecursos, EnRecurso, Uno
    <3>6. Cambia(q, -1, 0, 0)
      BY <1>1, <3>2, <3>4, <3>5 DEF Cambia
    <3>7. PasaDe(q)
      BY <2>3, <3>5, <3>6 DEF PasaDe
    <3>8. QED
      BY <2>1, <2>5, <3>7 DEF PasoDePcb, Mueve
  <2>7. CASE q \notin ToSet(cola_new)
    BY <2>5, <2>7 DEF PasoDePcb
  <2>8. QED
    BY <2>6, <2>7
<1>6. CASE ~IngresarANew(h) /\ ~DescartarDeNew(h)
  <2>1. /\ UNCHANGED cola_new /\ hilo[h].pc # "new" /\ hilo'[h].pc # "new"
        /\ \A k \in Hilos \ {h} : hilo'[k] = hilo[k]
    BY <1>1, <1>6 DEF Consola, EnviarProcesoMemoria, RecibirResultado, ProcesoCreado, ErrorAlCrear,
     FijarGrado, DetenerCorto, DetenerLargo, RetenerNew, RetenerReady, RetenerBlock, BajarPlanificacion, LiberarNew,
     LiberarReady, LiberarBlock, LevantarPlanificacion, Reanudar, alta, IrHilo, IrHiloCon
  <2>2. \A p : PorNacer(p)' = PorNacer(p)
    BY <1>1, <2>1 DEF PorNacer
  <2>3. QED
    BY <1>2, <2>1, <2>2 DEF PasoDePcb
<1>7. QED
  BY <1>4, <1>5, <1>6

(* Lists of PIDs, one element longer or shorter.                           *)
LEMMA VecesAppend ==
  ASSUME NEW s \in Seq(Pids), NEW q \in Pids
  PROVE  \A p : Veces(p, Append(s, q)) = Veces(p, s) + Uno(q = p)
BY OcurrenciasAppend, VecesOcurrencias DEF Cuenta, Uno

LEMMA VecesTail ==
  ASSUME NEW s \in Seq(Pids), s # <<>>
  PROVE  /\ Head(s) \in Pids /\ Tail(s) \in Seq(Pids)
         /\ \A p : /\ Veces(p, Tail(s)) \in Nat
                   /\ Veces(p, s) = Veces(p, Tail(s)) + Uno(Head(s) = p)
<1>1. Head(s) \in Pids /\ Tail(s) \in Seq(Pids)
  BY HeadTailProperties
<1>2. \A p : Ocurrencias(p, s) = Ocurrencias(p, Tail(s)) + Cuenta(Head(s) = p)
  BY OcurrenciasTail
<1>3. \A p : Ocurrencias(p, Tail(s)) \in Nat
  BY <1>1, OcurrenciasNat
<1>4. QED
  BY <1>1, <1>2, <1>3, VecesOcurrencias DEF Cuenta, Uno

(* planificador_largo_plazo: NEW, its hand, READY.                         *)
LEMMA LargoPcb ==
  ASSUME TipoInv, ManosExactas, PlanificadorLargo
  PROVE  PasoDePcb
<1>1. /\ UNCHANGED <<cola_block, hilo, lastPID, desalojo, gestor, despacho, motivos, cpu>>
      /\ cola_new \in Seq(Pids) /\ cola_ready \in Seq(Pids)
      /\ largo \in [pc : Pc.largo, pid : Pids \cup {NADIE}]
  BY DEF PlanificadorLargo, consola, procesador, TipoInv, TypeOK, TipoColas, TipoPlanificadores
<1>2. \A p : PorNacer(p)' = PorNacer(p) /\ EnExec(p)' = EnExec(p) /\ MismosRecursos(p)
  BY <1>1 DEF PorNacer, EnExec, EnDesalojo, Veces, MismosRecursos, EnRecurso, Uno
<1>3. ASSUME NEW p, EnNew(p)' = EnNew(p), Veces(p, cola_ready)' = Veces(p, cola_ready)
      PROVE  Quieto(p)
  BY <1>1, <1>2, <1>3 DEF Quieto
<1>4. CASE LargoToma /\ cola_new # <<>>
  <2>1. PICK q : q = Head(cola_new)
    OBVIOUS
  <2>2. /\ cola_new' = Tail(cola_new) /\ largo'.pid = q /\ largo.pid = NADIE
        /\ UNCHANGED cola_ready
    BY <1>4, <2>1 DEF LargoToma, ManosExactas
  <2>3. ASSUME NEW p \in Pids
        PROVE  Quieto(p)
    <3>1. Veces(p, Tail(cola_new)) \in Nat /\ Veces(p, cola_new) = Veces(p, Tail(cola_new)) + Uno(q = p)
      BY <1>1, <1>4, <2>1, VecesTail
    <3>2. Veces(p, cola_new)' = Veces(p, Tail(cola_new)) /\ Veces(p, cola_ready)' = Veces(p, cola_ready)
      BY <2>2 DEF Veces
    <3>3. Uno(largo.pid = p) = 0 /\ Uno(largo.pid = p)' = Uno(q = p) /\ Uno(q = p) \in {0, 1}
      BY <2>2 DEF Uno, NADIE, Pids
    <3>4. EnNew(p)' = Veces(p, cola_new)' + Uno(largo.pid = p)'
      BY DEF EnNew
    <3>5. EnNew(p) = Veces(p, cola_new) + Uno(largo.pid = p)
      BY DEF EnNew
    <3>6. EnNew(p)' = EnNew(p)
      BY <3>1, <3>2, <3>3, <3>4, <3>5
    <3>7. QED
      BY <1>3, <3>2, <3>6
  <2>4. QED
    BY <2>3 DEF PasoDePcb
<1>5. CASE LargoIngresa
  <2>1. PICK q : q = largo.pid
    OBVIOUS
  <2>2. /\ q \in Pids /\ cola_ready' = Append(cola_ready, q) /\ largo'.pid = NADIE
        /\ UNCHANGED cola_new
    BY <1>5, <2>1 DEF LargoIngresa, TipoInv, EnMano
  <2>3. ASSUME NEW p \in Pids
        PROVE  /\ Veces(p, cola_new)' = Veces(p, cola_new) /\ Veces(p, cola_new) \in Nat
               /\ Uno(largo.pid = p)' = 0 /\ Uno(largo.pid = p) = Uno(q = p)
               /\ Veces(p, cola_ready)' = Veces(p, cola_ready) + Uno(q = p)
               /\ Veces(p, cola_ready) \in Nat
    <3>1. Veces(p, Append(cola_ready, q)) = Veces(p, cola_ready) + Uno(q = p)
      BY <1>1, <2>2, VecesAppend
    <3>2. Veces(p, cola_ready)' = Veces(p, Append(cola_ready, q)) /\ Veces(p, cola_new)' = Veces(p, cola_new)
      BY <2>2 DEF Veces
    <3>3. Veces(p, cola_new) \in Nat /\ Veces(p, cola_ready) \in Nat
      BY CuentasNat
    <3>4. Uno(largo.pid = p)' = 0 /\ Uno(largo.pid = p) = Uno(q = p)
      BY <2>1, <2>2 DEF Uno, NADIE, Pids
    <3>5. QED
      BY <3>1, <3>2, <3>3, <3>4
  <2>4. ASSUME NEW p \in Pids
        PROVE  EnNew(p)' = EnNew(p) - Uno(q = p)
    <3>1. EnNew(p)' = Veces(p, cola_new)' + Uno(largo.pid = p)'
      BY DEF EnNew
    <3>2. EnNew(p) = Veces(p, cola_new) + Uno(largo.pid = p)
      BY DEF EnNew
    <3>3. Uno(q = p) \in {0, 1}
      BY DEF Uno
    <3>4. QED
      BY <2>3, <3>1, <3>2, <3>3
  <2>5. \A p \in Pids : EnNew(p) \in Nat
    BY CuentasNat
  <2>6. ASSUME NEW p \in Pids \ {q}
        PROVE  Quieto(p)
    <3>1. Uno(q = p) = 0
      BY DEF Uno
    <3>2. QED
      BY <1>3, <2>3, <2>4, <2>5, <3>1
  <2>7. PasaDe(q)
    <3>1. Uno(q = q) = 1 /\ EnExec(q) \in Nat
      BY CuentasNat DEF Uno
    <3>2. EnNew(q)' = EnNew(q) + (-1) /\ Veces(q, cola_ready)' = Veces(q, cola_ready) + 1
      BY <2>2, <2>3, <2>4, <2>5, <3>1
    <3>3. EnExec(q)' = EnExec(q) + 0
      BY <1>2, <3>1
    <3>4. Cambia(q, -1, 1, 0)
      BY <1>1, <3>2, <3>3 DEF Cambia
    <3>5. QED
      BY <1>2, <3>4 DEF PasaDe
  <2>8. QED
    BY <2>2, <2>6, <2>7 DEF PasoDePcb, Mueve
<1>6. CASE ~LargoIngresa /\ ~(LargoToma /\ cola_new # <<>>)
  <2>1. UNCHANGED <<cola_new, cola_ready>> /\ largo'.pid = largo.pid
    BY <1>1, <1>6 DEF PlanificadorLargo, LargoEspera, LargoToma, LargoAvisa, LargoCompuerta, LargoReanuda
  <2>2. \A p : EnNew(p)' = EnNew(p) /\ Veces(p, cola_ready)' = Veces(p, cola_ready)
    BY <2>1 DEF EnNew, Veces
  <2>3. QED
    BY <1>3, <2>2 DEF PasoDePcb
<1>7. QED
  BY <1>4, <1>5, <1>6

(* planificador_corto_plazo: from READY to the CPU.                        *)
LEMMA CortoPcb ==
  ASSUME TipoInv, PlanificadorCorto
  PROVE  PasoDePcb
<1>1. /\ UNCHANGED <<cola_new, cola_block, hilo, lastPID, largo, desalojo, gestor, motivos, cpu>>
      /\ despacho \in Seq(Pids) /\ cola_ready \in Seq(Pids)
  BY DEF PlanificadorCorto, consola, TipoInv, TypeOK, TipoColas, TipoProcesador
<1>2. \A p : /\ PorNacer(p)' = PorNacer(p) /\ EnNew(p)' = EnNew(p) /\ MismosRecursos(p)
             /\ p > lastPID' <=> p > lastPID
  BY <1>1 DEF PorNacer, EnNew, Veces, MismosRecursos, EnRecurso, Uno
<1>3. ASSUME NEW p, EnExec(p)' = EnExec(p), Veces(p, cola_ready)' = Veces(p, cola_ready)
      PROVE  Quieto(p)
  BY <1>2, <1>3 DEF Quieto
<1>4. CASE CortoDespacha /\ cola_ready # <<>>
  <2>1. PICK q : q = Head(cola_ready)
    OBVIOUS
  <2>2. /\ q \in Pids /\ cola_ready' = Tail(cola_ready) /\ despacho' = Append(despacho, q)
    BY <1>1, <1>4, <2>1, VecesTail DEF CortoDespacha
  <2>3. ASSUME NEW p \in Pids
        PROVE  /\ Veces(p, cola_ready) = Veces(p, cola_ready)' + Uno(q = p)
               /\ Veces(p, cola_ready)' \in Nat /\ EnExec(p) \in Nat
               /\ EnExec(p)' = EnExec(p) + Uno(q = p)
    <3>1. /\ Veces(p, Append(despacho, q)) = Veces(p, despacho) + Uno(q = p)
          /\ Veces(p, cola_ready) = Veces(p, Tail(cola_ready)) + Uno(q = p)
          /\ Veces(p, Tail(cola_ready)) \in Nat
      BY <1>1, <1>4, <2>1, <2>2, VecesAppend, VecesTail
    <3>2. Veces(p, cola_ready)' = Veces(p, Tail(cola_ready)) /\ Veces(p, despacho)' = Veces(p, Append(despacho, q))
      BY <2>2 DEF Veces
    <3>3. /\ Uno(cpu.pid = p)' = Uno(cpu.pid = p) /\ Uno(EnDesalojo(p))' = Uno(EnDesalojo(p))
          /\ EnMotivos(p)' = EnMotivos(p)
      BY <1>1 DEF Uno, EnDesalojo, EnMotivos
    <3>4. /\ Veces(p, despacho) \in Nat /\ EnMotivos(p) \in Nat /\ EnExec(p) \in Nat
          /\ Uno(cpu.pid = p) \in {0, 1} /\ Uno(EnDesalojo(p)) \in {0, 1} /\ Uno(q = p) \in {0, 1}
      BY CuentasNat
    <3>5. EnExec(p) = Veces(p, despacho) + Uno(cpu.pid = p) + Uno(EnDesalojo(p)) + EnMotivos(p)
      BY DEF EnExec, EnMotivos
    <3>6. EnExec(p)' = Veces(p, despacho)' + Uno(cpu.pid = p)' + Uno(EnDesalojo(p))' + EnMotivos(p)'
      BY DEF EnExec, EnMotivos
    <3>7. EnExec(p)' = EnExec(p) + Uno(q = p)
      BY <3>1, <3>2, <3>3, <3>4, <3>5, <3>6
    <3>8. QED
      BY <3>1, <3>2, <3>4, <3>7
  <2>4. ASSUME NEW p \in Pids \ {q}
        PROVE  Quieto(p)
    <3>1. Uno(q = p) = 0
      BY DEF Uno
    <3>2. QED
      BY <1>3, <2>3, <3>1
  <2>5. PasaDe(q)
    <3>1. Uno(q = q) = 1 /\ EnNew(q) \in Nat
      BY CuentasNat DEF Uno
    <3>2. EnExec(q)' = EnExec(q) + 1 /\ Veces(q, cola_ready)' = Veces(q, cola_ready) + (-1)
      BY <2>2, <2>3, <3>1
    <3>3. EnNew(q)' = EnNew(q) + 0
      BY <1>2, <3>1
    <3>4. Cambia(q, 0, -1, 1)
      BY <1>2, <3>2, <3>3 DEF Cambia
    <3>5. QED
      BY <1>2, <3>4 DEF PasaDe
  <2>6. QED
    BY <2>2, <2>4, <2>5 DEF PasoDePcb, Mueve
<1>5. CASE ~(CortoDespacha /\ cola_ready # <<>>)
  <2>1. UNCHANGED <<despacho, cola_ready>>
    BY <1>1, <1>5 DEF PlanificadorCorto, CortoEspera, CortoDespacha, CortoFinExec, CortoCompuerta, CortoReanuda
  <2>2. \A p : EnExec(p)' = EnExec(p) /\ Veces(p, cola_ready)' = Veces(p, cola_ready)
    BY <1>1, <2>1 DEF EnExec, EnDesalojo, Veces
  <2>3. QED
    BY <1>3, <2>2 DEF PasoDePcb
<1>6. QED
  BY <1>4, <1>5

(* MEMORIA and bajar_multiprogramacion have no PCB.                        *)
LEMMA SinPcb ==
  ASSUME TipoInv, AtenderKernel \/ HiloMultiprogramacion \/ ConectarInterfaz
  PROVE  PasoDePcb
<1>1. UNCHANGED <<cola_new, cola_ready, cola_block, hilo, lastPID, largo, desalojo, gestor, despacho, motivos, cpu>>
  BY DEF AtenderKernel, HiloMultiprogramacion, BajarMultiprogramacion, ConectarInterfaz, consola, alta, procesador
<1>2. \A p : Quieto(p)
  BY <1>1, QuietoSi DEF EnDesalojo, PorNacer
<1>3. QED
  BY <1>2 DEF PasoDePcb

(* The sum of the places of a PCB that has been dispatched.                *)
LEMMA SumaExec ==
  ASSUME TipoInv, TipoInv', NEW p \in Pids
  PROVE  /\ EnExec(p) = Veces(p, despacho) + Uno(cpu.pid = p) + Uno(EnDesalojo(p)) + EnMotivos(p)
         /\ EnExec(p)' = Veces(p, despacho)' + Uno(cpu.pid = p)' + Uno(EnDesalojo(p))' + EnMotivos(p)'
         /\ Veces(p, despacho) \in Nat /\ Veces(p, despacho)' \in Nat
         /\ EnMotivos(p) \in Nat /\ EnMotivos(p)' \in Nat
         /\ \A b : Uno(b) \in {0, 1}
         /\ Uno(cpu.pid = p)' \in {0, 1} /\ Uno(EnDesalojo(p))' \in {0, 1}
         /\ Uno(cpu.pid = p) \in {0, 1} /\ Uno(EnDesalojo(p)) \in {0, 1}
<1>1. Veces(p, despacho) \in Nat /\ EnMotivos(p) \in Nat
  BY CuentasNat
<1>2. Veces(p, despacho)' \in Nat /\ EnMotivos(p)' \in Nat
  BY CuentasNatPrima DEF Numeros
<1>3. \A b : Uno(b) \in {0, 1}
  BY DEF Uno
<1>4. Uno(cpu.pid = p)' \in {0, 1} /\ Uno(EnDesalojo(p))' \in {0, 1}
  BY DEF Uno
<1>5. QED
  BY <1>1, <1>2, <1>3, <1>4 DEF EnExec, EnMotivos

(* A reason that joins the socket, or leaves it.                           *)
LEMMA MotivosMueve ==
  ASSUME motivos \in Seq(Motivo), NEW p
  PROVE  /\ \A m \in Motivo : motivos' = Append(motivos, m) => EnMotivos(p)' = EnMotivos(p) + Uno(m.pid = p)
         /\ motivos # <<>> /\ motivos' = Tail(motivos)
              => EnMotivos(p) = EnMotivos(p)' + Uno(Head(motivos).pid = p)
<1>1. \A m \in Motivo : m.pid \in Pids
  BY DEF Motivo
<1>2. LosPid(motivos) \in Seq(Pids) /\ EnMotivos(p) = Veces(p, LosPid(motivos))
  BY MotivosPid, VecesOcurrencias
<1>3. motivos' \in Seq(Motivo) => EnMotivos(p)' = Veces(p, LosPid(motivos'))
  <2>1. motivos \in Seq(Motivo) => EnMotivos(p) = Veces(p, LosPid(motivos))
    BY MotivosPid, VecesOcurrencias
  <2>2. motivos' \in Seq(Motivo) => EnMotivos(p)' = Ocurrencias(p, LosPid(motivos'))
    <3>1. SUFFICES ASSUME motivos' \in Seq(Motivo)
                   PROVE  EnMotivos(p)' = Ocurrencias(p, LosPid(motivos'))
      OBVIOUS
    <3>2. /\ DOMAIN LosPid(motivos') = DOMAIN motivos'
          /\ \A i \in DOMAIN motivos' : LosPid(motivos')[i] = motivos'[i].pid
      BY DEF LosPid
    <3>3. QED
      BY <3>2 DEF EnMotivos, Ocurrencias
  <2>3. QED
    BY <2>2, VecesOcurrencias
<1>4. ASSUME NEW m \in Motivo, motivos' = Append(motivos, m)
      PROVE  EnMotivos(p)' = EnMotivos(p) + Uno(m.pid = p)
  <2>1. motivos' \in Seq(Motivo)
    BY <1>4, AppendProperties
  <2>2. LosPid(motivos') = Append(LosPid(motivos), m.pid)
    BY <1>1, <1>4, LosPidAppend
  <2>3. Veces(p, Append(LosPid(motivos), m.pid)) = Veces(p, LosPid(motivos)) + Uno(m.pid = p)
    BY <1>1, <1>2, VecesAppend
  <2>4. QED
    BY <1>2, <1>3, <2>1, <2>2, <2>3
<1>5. ASSUME motivos # <<>>, motivos' = Tail(motivos)
      PROVE  EnMotivos(p) = EnMotivos(p)' + Uno(Head(motivos).pid = p)
  <2>1. motivos' \in Seq(Motivo)
    BY <1>5, HeadTailProperties
  <2>2. /\ LosPid(motivos') = Tail(LosPid(motivos)) /\ LosPid(motivos) # <<>>
        /\ Head(LosPid(motivos)) = Head(motivos).pid
    BY <1>1, <1>5, LosPidTail
  <2>3. Veces(p, LosPid(motivos)) = Veces(p, Tail(LosPid(motivos))) + Uno(Head(LosPid(motivos)) = p)
    BY <1>2, <2>2, VecesTail
  <2>4. QED
    BY <1>2, <1>3, <2>1, <2>2, <2>3
<1>6. QED
  BY <1>4, <1>5

(* The CPU takes a PCB from one socket and puts it in the other.           *)
LEMMA CpuPcb ==
  ASSUME TipoInv, TipoInv', ManosExactas, Cpu
  PROVE  PasoDePcb
<1>1. /\ UNCHANGED <<cola_new, cola_ready, cola_block, hilo, lastPID, largo, desalojo, gestor>>
      /\ despacho \in Seq(Pids) /\ motivos \in Seq(Motivo)
      /\ cpu \in [pc : Pc.cpu, pid : Pids \cup {NADIE}]
  BY DEF Cpu, consola, TipoInv, TypeOK, TipoProcesador
<1>2. \A p : /\ PorNacer(p)' = PorNacer(p) /\ EnNew(p)' = EnNew(p) /\ MismosRecursos(p)
             /\ Veces(p, cola_ready)' = Veces(p, cola_ready) /\ (p > lastPID' <=> p > lastPID)
             /\ Uno(EnDesalojo(p))' = Uno(EnDesalojo(p))
  BY <1>1 DEF PorNacer, EnNew, Veces, MismosRecursos, EnRecurso, EnDesalojo, Uno
<1>3. SUFFICES ASSUME NEW p \in Pids
               PROVE  /\ Veces(p, despacho)' + Uno(cpu.pid = p)' + EnMotivos(p)'
                           = Veces(p, despacho) + Uno(cpu.pid = p) + EnMotivos(p)
  <2>1. ASSUME NEW p \in Pids,
               Veces(p, despacho)' + Uno(cpu.pid = p)' + EnMotivos(p)'
                 = Veces(p, despacho) + Uno(cpu.pid = p) + EnMotivos(p)
        PROVE  Quieto(p)
    <3>1. EnExec(p)' = EnExec(p)
      <4>1. Uno(EnDesalojo(p))' = Uno(EnDesalojo(p))
        BY <1>2
      <4>2. QED
        BY <2>1, <4>1, SumaExec
    <3>2. QED
      BY <1>2, <3>1 DEF Quieto
  <2>2. QED
    BY <2>1 DEF PasoDePcb
<1>4. CASE CpuRecibe
  <2>1. /\ despacho # <<>> /\ despacho' = Tail(despacho) /\ UNCHANGED motivos
        /\ cpu.pid = NADIE /\ cpu'.pid = Head(despacho)
    BY <1>4 DEF CpuRecibe, ManosExactas
  <2>2. Veces(p, despacho) = Veces(p, Tail(despacho)) + Uno(Head(despacho) = p)
    BY <1>1, <2>1, VecesTail
  <2>3. Veces(p, despacho)' = Veces(p, Tail(despacho)) /\ EnMotivos(p)' = EnMotivos(p)
    BY <2>1 DEF Veces, EnMotivos
  <2>4. Uno(cpu.pid = p) = 0 /\ Uno(cpu.pid = p)' = Uno(Head(despacho) = p)
    BY <2>1 DEF Uno, NADIE, Pids
  <2>5. QED
    BY <2>2, <2>3, <2>4, SumaExec
<1>5. ASSUME NEW m \in Motivo, motivos' = Append(motivos, m), m.pid = cpu.pid,
             cpu'.pid = NADIE, UNCHANGED despacho
      PROVE  Veces(p, despacho)' + Uno(cpu.pid = p)' + EnMotivos(p)'
               = Veces(p, despacho) + Uno(cpu.pid = p) + EnMotivos(p)
  <2>1. EnMotivos(p)' = EnMotivos(p) + Uno(m.pid = p)
    BY <1>1, <1>5, MotivosMueve
  <2>2. Uno(cpu.pid = p)' = 0 /\ Uno(m.pid = p) = Uno(cpu.pid = p) /\ Veces(p, despacho)' = Veces(p, despacho)
    BY <1>5 DEF Uno, NADIE, Pids, Veces
  <2>3. QED
    BY <2>1, <2>2, SumaExec
<1>6. ASSUME NEW c \in Motivos, NEW r \in NombresMsg, cpu.pc = "ejecuta", Desalojar(c, r), UNCHANGED despacho
      PROVE  Veces(p, despacho)' + Uno(cpu.pid = p)' + EnMotivos(p)'
               = Veces(p, despacho) + Uno(cpu.pid = p) + EnMotivos(p)
  <2>1. PICK m : m = [motivo |-> c, pid |-> cpu.pid, recurso |-> r]
    OBVIOUS
  <2>2. cpu.pid \in Pids
    BY <1>6 DEF TipoInv, EnMano
  <2>3. m \in Motivo /\ m.pid = cpu.pid
    BY <1>6, <2>1, <2>2 DEF Motivo
  <2>4. motivos' = Append(motivos, m) /\ cpu'.pid = NADIE
    BY <1>6, <2>1 DEF Desalojar
  <2>5. QED
    BY <1>5, <1>6, <2>3, <2>4
<1>7. CASE CpuExit
  BY <1>6, <1>7 DEF CpuExit, Motivos, NombresMsg
<1>8. CASE CpuRecurso
  BY <1>6, <1>8 DEF CpuRecurso, Motivos, NombresMsg
<1>9. CASE CpuFetch
  BY <1>1, <1>9 DEF CpuFetch, Veces, EnMotivos
<1>10. QED
  BY <1>4, <1>7, <1>8, <1>9 DEF Cpu

(* motivo_desalojo: back to the CPU, to the queue of a resource, or out.   *)
LEMMA DesalojoPcb ==
  ASSUME TipoInv, TipoInv', ManosExactas, Desalojo
  PROVE  PasoDePcb
<1>1. /\ UNCHANGED <<cola_new, cola_ready, hilo, lastPID, largo, gestor, cpu>>
      /\ despacho \in Seq(Pids) /\ motivos \in Seq(Motivo) /\ cola_block \in [Recursos -> Seq(Pids)]
      /\ desalojo \in [pc : Pc.desalojo, pid : Pids \cup {NADIE}, recurso : NombresMsg]
      /\ desalojo.pc \in Pc.desalojo \ {"espera", "fin"} => desalojo.pid \in Pids
  BY DEF Desalojo, consola, TipoInv, TypeOK, TipoProcesador, TipoColas, TipoManejadores, EnMano, DesalojoEnMano
<1>2. \A p : /\ PorNacer(p)' = PorNacer(p) /\ EnNew(p)' = EnNew(p)
             /\ Veces(p, cola_ready)' = Veces(p, cola_ready) /\ (p > lastPID' <=> p > lastPID)
             /\ Uno(cpu.pid = p)' = Uno(cpu.pid = p)
  BY <1>1 DEF PorNacer, EnNew, Veces, Uno
<1>3. UNCHANGED cola_block => \A p : MismosRecursos(p)
  BY <1>1 DEF MismosRecursos, EnRecurso, Veces, Uno
<1>4. ASSUME NEW p \in Pids, UNCHANGED cola_block,
             Veces(p, despacho)' + Uno(EnDesalojo(p))' + EnMotivos(p)'
               = Veces(p, despacho) + Uno(EnDesalojo(p)) + EnMotivos(p)
      PROVE  Quieto(p)
  <2>1. EnExec(p)' = EnExec(p)
    <3>1. Uno(cpu.pid = p)' = Uno(cpu.pid = p)
      BY <1>2
    <3>2. PICK a, b, d, c \in Nat :
            /\ a = Veces(p, despacho) /\ b = EnMotivos(p)
            /\ d = Uno(EnDesalojo(p)) /\ c = Uno(cpu.pid = p)
      BY SumaExec
    <3>3. PICK x, y, z \in Nat :
            x = Veces(p, despacho)' /\ y = EnMotivos(p)' /\ z = Uno(EnDesalojo(p))'
      BY SumaExec
    <3>4. x + z + y = a + d + b
      BY <1>4, <3>2, <3>3
    <3>5. x + c + z + y = a + c + d + b
      BY <3>4
    <3>6. QED
      BY <3>1, <3>2, <3>3, <3>5, SumaExec
  <2>2. QED
    BY <1>2, <1>3, <1>4, <2>1 DEF Quieto
<1>5. CASE RecibirMotivo
  <2>1. PICK m : m = Head(motivos)
    OBVIOUS
  <2>2. /\ motivos # <<>> /\ motivos' = Tail(motivos) /\ UNCHANGED <<cola_block, despacho>>
        /\ desalojo.pid = NADIE /\ desalojo'.pid = m.pid
    BY <1>5, <2>1 DEF RecibirMotivo, ManosExactas
  <2>3. m \in Motivo
    BY <1>1, <2>1, <2>2, HeadTailProperties
  <2>4. desalojo'.pc \in {"exit", "wait", "signal"}
    BY <1>5, <2>1, <2>3 DEF RecibirMotivo, Motivo, Motivos
  <2>5. ASSUME NEW p \in Pids
        PROVE  Quieto(p)
    <3>0. ~EnDesalojo(p) /\ (EnDesalojo(p)' <=> m.pid = p)
      BY <2>2, <2>4 DEF EnDesalojo, NADIE, Pids
    <3>1. Uno(EnDesalojo(p)) = 0 /\ Uno(EnDesalojo(p))' = Uno(m.pid = p)
      BY <3>0 DEF Uno
    <3>2. EnMotivos(p) = EnMotivos(p)' + Uno(m.pid = p) /\ Veces(p, despacho)' = Veces(p, despacho)
      BY <1>1, <2>1, <2>2, MotivosMueve DEF Veces
    <3>3. QED
      BY <1>4, <2>2, <3>1, <3>2, SumaExec
  <2>6. QED
    BY <2>5 DEF PasoDePcb
<1>6. CASE WaitConfirma \/ ManejarSignal
  <2>1. PICK q : q = desalojo.pid
    OBVIOUS
  <2>2. /\ despacho' = Append(despacho, q) /\ UNCHANGED <<cola_block, motivos>>
        /\ desalojo.pc \in {"confirma", "signal"} /\ desalojo'.pc = "fin"
    BY <1>1, <1>6, <2>1 DEF Desalojo, ManejarWaitSignal, ManejarExit, RecibirMotivo, WaitConfirma, ManejarSignal,
       IrDesalojo, FinDesalojo, ExitConfirma, ExitLibera, AbortarPorDobleFree
  <2>3. q \in Pids
    BY <1>1, <2>1, <2>2 DEF Pc
  <2>4. ASSUME NEW p \in Pids
        PROVE  Quieto(p)
    <3>1. Uno(EnDesalojo(p))' = 0 /\ Uno(EnDesalojo(p)) = Uno(q = p)
      BY <2>1, <2>2 DEF EnDesalojo, Uno
    <3>2. Veces(p, Append(despacho, q)) = Veces(p, despacho) + Uno(q = p)
      BY <1>1, <2>3, VecesAppend
    <3>3. Veces(p, despacho)' = Veces(p, Append(despacho, q)) /\ EnMotivos(p)' = EnMotivos(p)
      BY <2>2 DEF Veces, EnMotivos
    <3>4. QED
      BY <1>4, <2>2, <3>1, <3>2, <3>3, SumaExec
  <2>5. QED
    BY <2>4 DEF PasoDePcb
<1>7. CASE WaitBloquea
  <2>1. PICK q, r : q = desalojo.pid /\ r = desalojo.recurso
    OBVIOUS
  <2>2. /\ desalojo.pc = "bloquea" /\ desalojo'.pc = "avisa" /\ UNCHANGED <<despacho, motivos>>
        /\ q \in Pids /\ r \in Recursos
        /\ cola_block' = [cola_block EXCEPT ![r] = Append(@, q)]
    BY <1>1, <1>7, <2>1 DEF WaitBloquea, Desalojo, ManejarWaitSignal, ManejarExit, RecibirMotivo, IrDesalojo, Pc,
       FinDesalojo, ExitConfirma, ExitLibera, AbortarPorDobleFree, TipoInv, EnMano, DesalojoEnMano
  <2>3. /\ cola_block'[r] = Append(cola_block[r], q)
        /\ \A s \in Recursos \ {r} : cola_block'[s] = cola_block[s]
    BY <1>1, <2>2
  <2>4. ASSUME NEW p \in Pids
        PROVE  /\ EnExec(p) = EnExec(p)' + Uno(q = p)
               /\ EnRecurso(p, r)' = EnRecurso(p, r) + Uno(q = p)
               /\ \A s \in Recursos \ {r} : EnRecurso(p, s)' = EnRecurso(p, s)
               /\ EnExec(p) \in Nat /\ EnExec(p)' \in Nat /\ EnRecurso(p, r) \in Nat
    <3>1. Uno(EnDesalojo(p))' = 0 /\ Uno(EnDesalojo(p)) = Uno(q = p)
      BY <2>1, <2>2 DEF EnDesalojo, Uno
    <3>2. EnMotivos(p)' = EnMotivos(p) /\ Veces(p, despacho)' = Veces(p, despacho)
      BY <2>2 DEF EnMotivos, Veces
    <3>3. EnExec(p) = EnExec(p)' + Uno(q = p)
      BY <1>2, <3>1, <3>2, SumaExec
    <3>4. Veces(p, Append(cola_block[r], q)) = Veces(p, cola_block[r]) + Uno(q = p)
      BY <1>1, <2>2, VecesAppend
    <3>5. Veces(p, cola_block[r])' = Veces(p, Append(cola_block[r], q))
      BY <2>3 DEF Veces
    <3>6. \A s \in Recursos : Uno(gestor[s].pc = "ingresa" /\ gestor[s].pid = p)'
                                = Uno(gestor[s].pc = "ingresa" /\ gestor[s].pid = p)
      BY <1>1 DEF Uno
    <3>7. EnRecurso(p, r)' = EnRecurso(p, r) + Uno(q = p)
      <4>1. EnRecurso(p, r)' = Veces(p, cola_block[r])' + Uno(gestor[r].pc = "ingresa" /\ gestor[r].pid = p)'
        BY DEF EnRecurso
      <4>2. EnRecurso(p, r) = Veces(p, cola_block[r]) + Uno(gestor[r].pc = "ingresa" /\ gestor[r].pid = p)
        BY DEF EnRecurso
      <4>3. /\ Veces(p, cola_block[r]) \in Nat /\ Uno(q = p) \in {0, 1}
            /\ Uno(gestor[r].pc = "ingresa" /\ gestor[r].pid = p) \in {0, 1}
        BY <2>2, CuentasNat
      <4>4. QED
        BY <2>2, <3>4, <3>5, <3>6, <4>1, <4>2, <4>3
    <3>8. \A s \in Recursos \ {r} : EnRecurso(p, s)' = EnRecurso(p, s)
      BY <2>3, <3>6 DEF EnRecurso, Veces
    <3>9. EnExec(p) \in Nat /\ EnExec(p)' \in Nat /\ EnRecurso(p, r) \in Nat
      BY <2>2, CuentasNat, CuentasNatPrima DEF Numeros
    <3>10. QED
      BY <3>3, <3>7, <3>8, <3>9
  <2>5. Bloquea(q, r)
    <3>1. Uno(q = q) = 1
      BY DEF Uno
    <3>2. EnExec(q)' = EnExec(q) + (-1) /\ EnRecurso(q, r)' = EnRecurso(q, r) + 1
      BY <2>2, <2>4, <3>1
    <3>3. EnNew(q)' = EnNew(q) + 0 /\ Veces(q, cola_ready)' = Veces(q, cola_ready) + 0
      BY <1>2, CuentasNat
    <3>4. Cambia(q, 0, 0, -1)
      BY <1>2, <3>2, <3>3 DEF Cambia
    <3>5. QED
      BY <1>2, <2>2, <2>4, <3>2, <3>4 DEF Bloquea
  <2>6. ASSUME NEW p \in Pids \ {q}
        PROVE  Quieto(p)
    <3>1. Uno(q = p) = 0
      BY DEF Uno
    <3>2. EnExec(p)' = EnExec(p) /\ EnRecurso(p, r)' = EnRecurso(p, r)
      BY <2>4, <3>1
    <3>3. MismosRecursos(p)
      BY <2>4, <3>2 DEF MismosRecursos
    <3>4. QED
      BY <1>2, <3>2, <3>3 DEF Quieto
  <2>7. QED
    BY <2>2, <2>5, <2>6 DEF PasoDePcb, Mueve
<1>8. CASE ExitConfirma /\ Head(respuestas).valor = OK
  <2>1. PICK q : q = desalojo.pid
    OBVIOUS
  <2>2. /\ desalojo.pc = "exit_recibe" /\ desalojo'.pid = NADIE
        /\ q \in Pids /\ UNCHANGED <<cola_block, despacho, motivos>>
    BY <1>1, <1>8, <2>1 DEF ExitConfirma, Desalojo, ManejarWaitSignal, ManejarExit, RecibirMotivo, Pc,
       WaitInvalido, WaitAsigna, WaitConfirma, WaitSinInstancias, WaitBloquea, WaitAvisa, ManejarSignal,
       SignalInvalido
  <2>3. ASSUME NEW p \in Pids
        PROVE  EnExec(p) = EnExec(p)' + Uno(q = p) /\ EnExec(p)' \in Nat /\ EnExec(p) \in Nat
    <3>1. Uno(EnDesalojo(p))' = 0 /\ Uno(EnDesalojo(p)) = Uno(q = p)
      BY <2>1, <2>2 DEF EnDesalojo, Uno, NADIE, Pids
    <3>2. EnMotivos(p)' = EnMotivos(p) /\ Veces(p, despacho)' = Veces(p, despacho)
      BY <2>2 DEF EnMotivos, Veces
    <3>3. EnExec(p) = EnExec(p)' + Uno(q = p)
      BY <1>2, <3>1, <3>2, SumaExec
    <3>4. QED
      BY <3>3, CuentasNat, CuentasNatPrima DEF Numeros
  <2>4. PasaDe(q)
    <3>1. Uno(q = q) = 1
      BY DEF Uno
    <3>2. EnExec(q)' = EnExec(q) + (-1)
      BY <2>2, <2>3, <3>1
    <3>3. EnNew(q)' = EnNew(q) + 0 /\ Veces(q, cola_ready)' = Veces(q, cola_ready) + 0
      BY <1>2, CuentasNat
    <3>4. Cambia(q, 0, 0, -1)
      BY <1>2, <3>2, <3>3 DEF Cambia
    <3>5. QED
      BY <1>2, <1>3, <2>2, <3>4 DEF PasaDe
  <2>5. ASSUME NEW p \in Pids \ {q}
        PROVE  Quieto(p)
    <3>1. Uno(q = p) = 0
      BY DEF Uno
    <3>2. EnExec(p)' = EnExec(p)
      BY <2>3, <3>1
    <3>3. QED
      BY <1>2, <1>3, <2>2, <3>2 DEF Quieto
  <2>6. QED
    BY <2>2, <2>4, <2>5 DEF PasoDePcb, Mueve
<1>9. ASSUME UNCHANGED <<cola_block, despacho, motivos>>, \A p \in Pids : EnDesalojo(p)' <=> EnDesalojo(p)
      PROVE  PasoDePcb
  <2>1. ASSUME NEW p \in Pids
        PROVE  Quieto(p)
    <3>1. /\ Uno(EnDesalojo(p))' = Uno(EnDesalojo(p)) /\ Veces(p, despacho)' = Veces(p, despacho)
          /\ EnMotivos(p)' = EnMotivos(p)
      BY <1>9 DEF Uno, Veces, EnMotivos
    <3>2. QED
      BY <1>4, <1>9, <3>1
  <2>2. QED
    BY <2>1 DEF PasoDePcb
<1>10. CASE /\ UNCHANGED <<despacho, motivos>>
            /\ WaitInvalido \/ WaitAsigna \/ WaitSinInstancias \/ WaitAvisa \/ SignalInvalido
  <2>1. /\ UNCHANGED cola_block /\ desalojo'.pid = desalojo.pid
        /\ desalojo.pc \in {"avisa", "fin"} <=> desalojo'.pc \in {"avisa", "fin"}
    BY <1>1, <1>10 DEF WaitInvalido, WaitAsigna, WaitSinInstancias, WaitAvisa, SignalInvalido, IrDesalojo
  <2>2. QED
    BY <1>9, <1>10, <2>1 DEF EnDesalojo
<1>11. CASE /\ UNCHANGED <<cola_block, despacho, motivos>>
            /\ \/ ExitLibera \/ AbortarPorDobleFree \/ FinDesalojo
               \/ ExitConfirma /\ Head(respuestas).valor # OK
  <2>1. CASE ~FinDesalojo
    <3>1. /\ desalojo'.pid = desalojo.pid
          /\ desalojo.pc \in {"avisa", "fin"} <=> desalojo'.pc \in {"avisa", "fin"}
      BY <1>1, <1>11, <2>1 DEF ExitLibera, AbortarPorDobleFree, ExitConfirma, IrDesalojo
    <3>2. QED
      BY <1>9, <1>11, <3>1 DEF EnDesalojo
  <2>2. CASE FinDesalojo
    <3>1. desalojo.pc = "fin" /\ desalojo'.pid = NADIE
      BY <2>2 DEF FinDesalojo
    <3>2. QED
      BY <1>9, <1>11, <3>1 DEF EnDesalojo, NADIE, Pids
  <2>3. QED
    BY <2>1, <2>2
<1>12. CASE ManejarWaitSignal
  <2>1. UNCHANGED motivos /\ (WaitInvalido \/ WaitAsigna \/ WaitSinInstancias \/ WaitAvisa \/ SignalInvalido
                               => UNCHANGED despacho)
    BY <1>12 DEF ManejarWaitSignal, WaitInvalido, WaitAsigna, WaitSinInstancias, WaitAvisa, SignalInvalido
  <2>2. QED
    BY <1>6, <1>7, <1>10, <1>12, <2>1 DEF ManejarWaitSignal
<1>13. CASE ManejarExit
  BY <1>8, <1>11, <1>13 DEF ManejarExit
<1>14. QED
  BY <1>5, <1>12, <1>13 DEF Desalojo

(* manejador_recursos: from the queue to its hand, from its hand to READY. *)
LEMMA GestorPcb ==
  ASSUME TipoInv, ManosExactas, NEW r \in Recursos, Gestor(r)
  PROVE  PasoDePcb
<1>1. /\ UNCHANGED <<cola_new, hilo, lastPID, largo, desalojo, despacho, motivos, cpu>>
      /\ cola_ready \in Seq(Pids) /\ cola_block \in [Recursos -> Seq(Pids)]
      /\ gestor \in [Recursos -> [pc : Pc.gestor, pid : Pids \cup {NADIE}]]
  BY DEF Gestor, consola, procesador, TipoInv, TypeOK, TipoColas, TipoManejadores
<1>2. \A p : /\ PorNacer(p)' = PorNacer(p) /\ EnNew(p)' = EnNew(p) /\ EnExec(p)' = EnExec(p)
             /\ (p > lastPID' <=> p > lastPID)
  BY <1>1 DEF PorNacer, EnNew, EnExec, Veces, EnDesalojo, Uno
<1>3. ASSUME NEW p, Veces(p, cola_ready)' = Veces(p, cola_ready), MismosRecursos(p)
      PROVE  Quieto(p)
  BY <1>2, <1>3 DEF Quieto
<1>4. CASE GestorSaca(r)
  <2>1. PICK q : q = gestor[r].pid
    OBVIOUS
  <2>2. /\ cola_block[r] # <<>> /\ Head(cola_block[r]) = q
        /\ cola_block' = [cola_block EXCEPT ![r] = Tail(@)]
        /\ gestor[r].pc = "saca" /\ gestor' = [gestor EXCEPT ![r].pc = "ingresa"]
        /\ UNCHANGED cola_ready
    BY <1>1, <1>4, <2>1 DEF GestorSaca, IrGestor, ManosExactas
  <2>3. /\ cola_block'[r] = Tail(cola_block[r]) /\ gestor'[r].pc = "ingresa" /\ gestor'[r].pid = q
        /\ \A s \in Recursos \ {r} : cola_block'[s] = cola_block[s] /\ gestor'[s] = gestor[s]
    BY <1>1, <2>1, <2>2
  <2>4. ASSUME NEW p \in Pids
        PROVE  Quieto(p)
    <3>1. Veces(p, cola_block[r]) = Veces(p, Tail(cola_block[r])) + Uno(q = p)
          /\ Veces(p, Tail(cola_block[r])) \in Nat
      BY <1>1, <2>2, VecesTail
    <3>2. Veces(p, cola_block[r])' = Veces(p, Tail(cola_block[r]))
      BY <2>3 DEF Veces
    <3>3. /\ Uno(gestor[r].pc = "ingresa" /\ gestor[r].pid = p)' = Uno(q = p)
          /\ Uno(gestor[r].pc = "ingresa" /\ gestor[r].pid = p) = 0 /\ Uno(q = p) \in {0, 1}
      BY <2>2, <2>3 DEF Uno
    <3>4. EnRecurso(p, r)' = Veces(p, cola_block[r])' + Uno(gestor[r].pc = "ingresa" /\ gestor[r].pid = p)'
      BY DEF EnRecurso
    <3>5. EnRecurso(p, r) = Veces(p, cola_block[r]) + Uno(gestor[r].pc = "ingresa" /\ gestor[r].pid = p)
      BY DEF EnRecurso
    <3>6. EnRecurso(p, r)' = EnRecurso(p, r)
      BY <3>1, <3>2, <3>3, <3>4, <3>5
    <3>7. \A s \in Recursos \ {r} : EnRecurso(p, s)' = EnRecurso(p, s)
      BY <2>3 DEF EnRecurso, Veces
    <3>8. Veces(p, cola_ready)' = Veces(p, cola_ready)
      BY <2>2 DEF Veces
    <3>9. QED
      BY <1>3, <3>6, <3>7, <3>8 DEF MismosRecursos
  <2>5. QED
    BY <2>4 DEF PasoDePcb
<1>5. CASE GestorIngresa(r)
  <2>1. PICK q : q = gestor[r].pid
    OBVIOUS
  <2>2. /\ q \in Pids /\ gestor[r].pc = "ingresa" /\ cola_ready' = Append(cola_ready, q)
        /\ UNCHANGED cola_block
        /\ gestor' = [gestor EXCEPT ![r] = [pc |-> "avisa", pid |-> NADIE]]
    BY <1>1, <1>5, <2>1 DEF GestorIngresa, TipoInv, EnMano
  <2>3. /\ gestor'[r].pc = "avisa"
        /\ \A s \in Recursos \ {r} : gestor'[s] = gestor[s]
    BY <1>1, <2>2
  <2>4. ASSUME NEW p \in Pids
        PROVE  /\ Veces(p, cola_ready)' = Veces(p, cola_ready) + Uno(q = p)
               /\ EnRecurso(p, r) = EnRecurso(p, r)' + Uno(q = p)
               /\ Veces(p, cola_ready) \in Nat /\ EnRecurso(p, r)' \in Nat
               /\ \A s \in Recursos \ {r} : EnRecurso(p, s)' = EnRecurso(p, s)
    <3>1. Veces(p, Append(cola_ready, q)) = Veces(p, cola_ready) + Uno(q = p)
      BY <1>1, <2>2, VecesAppend
    <3>2. Veces(p, cola_ready)' = Veces(p, Append(cola_ready, q))
      BY <2>2 DEF Veces
    <3>3. Veces(p, cola_ready) \in Nat /\ Veces(p, cola_block[r]) \in Nat
      BY CuentasNat
    <3>4. /\ Uno(gestor[r].pc = "ingresa" /\ gestor[r].pid = p)' = 0
          /\ Uno(gestor[r].pc = "ingresa" /\ gestor[r].pid = p) = Uno(q = p) /\ Uno(q = p) \in {0, 1}
      BY <2>1, <2>2, <2>3 DEF Uno
    <3>5. EnRecurso(p, r)' = Veces(p, cola_block[r])' + Uno(gestor[r].pc = "ingresa" /\ gestor[r].pid = p)'
      BY DEF EnRecurso
    <3>6. EnRecurso(p, r) = Veces(p, cola_block[r]) + Uno(gestor[r].pc = "ingresa" /\ gestor[r].pid = p)
      BY DEF EnRecurso
    <3>7. Veces(p, cola_block[r])' = Veces(p, cola_block[r])
      BY <2>2 DEF Veces
    <3>8. EnRecurso(p, r) = EnRecurso(p, r)' + Uno(q = p) /\ EnRecurso(p, r)' \in Nat
      BY <3>3, <3>4, <3>5, <3>6, <3>7
    <3>9. \A s \in Recursos \ {r} : EnRecurso(p, s)' = EnRecurso(p, s)
      BY <2>2, <2>3 DEF EnRecurso, Veces
    <3>10. QED
      BY <3>1, <3>2, <3>3, <3>8, <3>9
  <2>5. Desbloquea(q, r)
    <3>1. Uno(q = q) = 1
      BY DEF Uno
    <3>2. Veces(q, cola_ready)' = Veces(q, cola_ready) + 1 /\ EnRecurso(q, r)' = EnRecurso(q, r) - 1
      BY <2>2, <2>4, <3>1
    <3>3. EnNew(q)' = EnNew(q) + 0 /\ EnExec(q)' = EnExec(q) + 0
      BY <1>2, CuentasNat
    <3>4. Cambia(q, 0, 1, 0)
      BY <1>2, <3>2, <3>3 DEF Cambia
    <3>5. QED
      BY <1>2, <2>2, <2>4, <3>2, <3>4 DEF Desbloquea
  <2>6. ASSUME NEW p \in Pids \ {q}
        PROVE  Quieto(p)
    <3>1. Uno(q = p) = 0
      BY DEF Uno
    <3>2. Veces(p, cola_ready)' = Veces(p, cola_ready) /\ EnRecurso(p, r)' = EnRecurso(p, r)
      BY <2>4, <3>1
    <3>3. MismosRecursos(p)
      BY <2>4, <3>2 DEF MismosRecursos
    <3>4. QED
      BY <1>3, <3>2, <3>3
  <2>7. QED
    BY <2>2, <2>5, <2>6 DEF PasoDePcb, Mueve
<1>6. CASE ~GestorSaca(r) /\ ~GestorIngresa(r)
  <2>1. /\ UNCHANGED <<cola_ready, cola_block>>
        /\ gestor[r].pc # "ingresa" /\ gestor'[r].pc # "ingresa"
        /\ \A s \in Recursos \ {r} : gestor'[s] = gestor[s]
    BY <1>1, <1>6 DEF Gestor, GestorEsperaBlock, GestorEsperaInstancia, GestorAsigna, GestorAvisa, IrGestor
  <2>2. ASSUME NEW p \in Pids
        PROVE  Quieto(p)
    <3>1. MismosRecursos(p) /\ Veces(p, cola_ready)' = Veces(p, cola_ready)
      BY <2>1 DEF MismosRecursos, EnRecurso, Veces, Uno
    <3>2. QED
      BY <1>3, <3>1
  <2>3. QED
    BY <2>2 DEF PasoDePcb
<1>7. QED
  BY <1>4, <1>5, <1>6

(* Every step, then, leaves every PCB where it is or moves one.            *)
LEMMA PasoPcb ==
  ASSUME TipoInv, TipoInv', ManosExactas, [Next]_vars
  PROVE  PasoDePcb
<1>1. ASSUME UNCHANGED <<cola_new, largo, cola_ready, despacho, cpu, motivos, cola_block, lastPID,
                         desalojo, gestor, hilo>>
      PROVE  PasoDePcb
  <2>1. \A p : (EnDesalojo(p)' <=> EnDesalojo(p)) /\ PorNacer(p)' = PorNacer(p)
    BY <1>1 DEF EnDesalojo, PorNacer
  <2>2. \A p \in Pids : Quieto(p)
    BY <1>1, <2>1, QuietoSi
  <2>3. QED
    BY <2>2 DEF PasoDePcb
<1>2. CASE HiloMultiprogramacion \/ ConectarInterfaz
  BY <1>1, <1>2 DEF HiloMultiprogramacion, BajarMultiprogramacion, ConectarInterfaz, alta, procesador
<1>3. CASE AtenderKernel
  BY <1>1, <1>3 DEF AtenderKernel, consola, procesador
<1>4. CASE UNCHANGED vars
  BY <1>1, <1>4 DEF vars, consola, procesador
<1>5. QED
  BY <1>2, <1>3, <1>4, OrdenPcb, ConsolaPcb, LargoPcb, CortoPcb, CpuPcb, DesalojoPcb, GestorPcb DEF Next

(* Hands.                                                                  *)
LEMMA ManosInit == Init => ManosExactas
BY DEF Init, ManosExactas

GestorManos ==
  \A r \in Recursos : gestor[r].pc = "saca" =>
     cola_block[r] # <<>> /\ Head(cola_block[r]) = gestor[r].pid

LEMMA CabezaAppend ==
  ASSUME NEW S, NEW s \in Seq(S), NEW e \in S, s # <<>>
  PROVE  Append(s, e) # <<>> /\ Head(Append(s, e)) = Head(s)
<1>1. Len(s) \in Nat \ {0} /\ 1 \in 1 .. Len(s)
  BY EmptySeq, LenProperties
<1>2. /\ Append(s, e) \in Seq(S) /\ Append(s, e) # <<>>
      /\ \A i \in 1 .. Len(s) : Append(s, e)[i] = s[i]
  BY AppendProperties
<1>3. Head(s) = s[1] /\ Head(Append(s, e)) = Append(s, e)[1]
  BY <1>2, HeadTailProperties
<1>4. QED
  BY <1>1, <1>2, <1>3

LEMMA ManosPaso ==
  ASSUME TipoInv, ManosExactas, [Next]_vars
  PROVE  ManosExactas'
<1>1. ManosExactas <=> /\ largo.pc # "ingresa" => largo.pid = NADIE
                       /\ cpu.pc = "libre" => cpu.pid = NADIE
                       /\ desalojo.pc = "espera" => desalojo.pid = NADIE
                       /\ GestorManos
  BY DEF ManosExactas, GestorManos
<1>2. ManosExactas' <=> /\ largo'.pc # "ingresa" => largo'.pid = NADIE
                        /\ cpu'.pc = "libre" => cpu'.pid = NADIE
                        /\ desalojo'.pc = "espera" => desalojo'.pid = NADIE
                        /\ GestorManos'
  BY DEF ManosExactas, GestorManos
<1>3. UNCHANGED <<cola_block, gestor>> => GestorManos'
  BY <1>1 DEF GestorManos
<1>4. UNCHANGED <<cola_block, largo, cpu, desalojo, gestor>> => ManosExactas'
  BY <1>1, <1>2, <1>3
<1>5. CASE \/ UNCHANGED vars \/ AtenderKernel \/ HiloMultiprogramacion \/ ConectarInterfaz
           \/ \E h \in Hilos : Orden(h) \/ Consola(h)
  BY <1>4, <1>5 DEF vars, procesador, AtenderKernel, HiloMultiprogramacion, ConectarInterfaz, Orden, Consola
<1>6. CASE PlanificadorLargo \/ PlanificadorCorto
  <2>1. UNCHANGED <<cola_block, cpu, desalojo, gestor>>
    BY <1>6 DEF PlanificadorLargo, PlanificadorCorto, procesador
  <2>2. largo'.pc # "ingresa" => largo'.pid = NADIE
    <3>1. largo \in [pc : Pc.largo, pid : Pids \cup {NADIE}]
      BY DEF TipoInv, TypeOK, TipoPlanificadores
    <3>2. QED
      BY <1>1, <1>6, <3>1 DEF PlanificadorLargo, PlanificadorCorto, LargoEspera, LargoToma, LargoIngresa, LargoAvisa,
         LargoCompuerta, LargoReanuda
  <2>3. QED
    BY <1>1, <1>2, <1>3, <2>1, <2>2
<1>7. CASE Cpu
  <2>1. UNCHANGED <<cola_block, largo, desalojo, gestor>>
    BY <1>7 DEF Cpu
  <2>2. cpu \in [pc : Pc.cpu, pid : Pids \cup {NADIE}]
    BY DEF TipoInv, TypeOK, TipoProcesador
  <2>3. cpu'.pc = "libre" => cpu'.pid = NADIE
    <3>1. CASE CpuRecibe
      BY <3>1 DEF CpuRecibe
    <3>2. CASE CpuFetch
      <4>1. cpu'.pc \in {"ejecuta", "colgada"}
        BY <2>2, <3>2 DEF CpuFetch
      <4>2. QED
        BY <4>1
    <3>3. CASE CpuExit \/ CpuRecurso
      <4>1. cpu' = [pc |-> "libre", pid |-> NADIE]
        BY <3>3 DEF CpuExit, CpuRecurso, Desalojar
      <4>2. QED
        BY <4>1
    <3>4. QED
      BY <1>7, <3>1, <3>2, <3>3 DEF Cpu
  <2>4. QED
    BY <1>1, <1>2, <1>3, <2>1, <2>3
<1>8. CASE Desalojo
  <2>1. UNCHANGED <<largo, cpu, gestor>>
    BY <1>8 DEF Desalojo
  <2>2. desalojo \in [pc : Pc.desalojo, pid : Pids \cup {NADIE}, recurso : NombresMsg]
    BY DEF TipoInv, TypeOK, TipoManejadores
  <2>3. desalojo'.pc = "espera" => desalojo'.pid = NADIE
    <3>1. CASE RecibirMotivo
      <4>1. Head(motivos).motivo \in Motivos
        <5>1. motivos \in Seq(Motivo) /\ motivos # <<>>
          BY <3>1 DEF RecibirMotivo, TipoInv, TypeOK, TipoProcesador
        <5>2. Head(motivos) \in Motivo
          BY <5>1, HeadTailProperties
        <5>3. QED
          BY <5>2 DEF Motivo
      <4>2. QED
        BY <3>1, <4>1 DEF RecibirMotivo, Motivos
    <3>2. CASE ManejarWaitSignal
      BY <1>1, <2>2, <3>2 DEF ManejarWaitSignal, WaitInvalido, WaitAsigna, WaitConfirma, WaitSinInstancias,
         WaitBloquea, WaitAvisa, ManejarSignal, SignalInvalido, IrDesalojo
    <3>3. CASE ManejarExit
      <4>1. CASE ExitLibera
        BY <2>2, <4>1 DEF ExitLibera, IrDesalojo
      <4>2. CASE ExitConfirma
        <5>1. desalojo'.pid = NADIE \/ UNCHANGED desalojo
          BY <2>2, <4>2 DEF ExitConfirma
        <5>2. QED
          BY <1>1, <5>1
      <4>3. CASE AbortarPorDobleFree
        BY <1>1, <4>3 DEF AbortarPorDobleFree
      <4>4. CASE FinDesalojo
        BY <4>4 DEF FinDesalojo
      <4>5. QED
        BY <3>3, <4>1, <4>2, <4>3, <4>4 DEF ManejarExit
    <3>4. QED
      BY <1>8, <3>1, <3>2, <3>3 DEF Desalojo
  <2>4. GestorManos'
    <3>1. cola_block \in [Recursos -> Seq(Pids)]
      BY DEF TipoInv, TypeOK, TipoColas
    <3>2. CASE WaitBloquea
      <4>1. desalojo.pid \in Pids /\ desalojo.recurso \in Recursos
        BY <3>2 DEF WaitBloquea, TipoInv, EnMano, DesalojoEnMano, Pc
      <4>2. \A r \in Recursos : \/ cola_block'[r] = cola_block[r]
                                \/ cola_block'[r] = Append(cola_block[r], desalojo.pid)
        BY <3>1, <3>2, <4>1 DEF WaitBloquea
      <4>3. ASSUME NEW r \in Recursos, cola_block[r] # <<>>
            PROVE  cola_block'[r] # <<>> /\ Head(cola_block'[r]) = Head(cola_block[r])
        <5>1. cola_block[r] \in Seq(Pids)
          BY <3>1
        <5>2. /\ Append(cola_block[r], desalojo.pid) # <<>>
              /\ Head(Append(cola_block[r], desalojo.pid)) = Head(cola_block[r])
          BY <4>1, <4>3, <5>1, CabezaAppend
        <5>3. QED
          BY <4>2, <4>3, <5>2
      <4>4. QED
        BY <1>1, <2>1, <4>3 DEF GestorManos
    <3>3. CASE ~WaitBloquea
      <4>1. UNCHANGED cola_block
        BY <1>8, <3>3 DEF Desalojo, RecibirMotivo, ManejarExit, ManejarWaitSignal, WaitInvalido, WaitAsigna,
           WaitConfirma, WaitSinInstancias, WaitAvisa, ManejarSignal, SignalInvalido
      <4>2. QED
        BY <1>3, <2>1, <4>1
    <3>4. QED
      BY <3>2, <3>3
  <2>5. QED
    BY <1>1, <1>2, <2>1, <2>3, <2>4
<1>9. ASSUME NEW r \in Recursos, Gestor(r)
      PROVE  ManosExactas'
  <2>1. UNCHANGED <<largo, cpu, desalojo>>
    BY <1>9 DEF Gestor, procesador
  <2>2. gestor \in [Recursos -> [pc : Pc.gestor, pid : Pids \cup {NADIE}]] /\ cola_block \in [Recursos -> Seq(Pids)]
    BY DEF TipoInv, TypeOK, TipoManejadores, TipoColas
  <2>3. \A s \in Recursos \ {r} : gestor'[s] = gestor[s] /\ cola_block'[s] = cola_block[s]
    BY <1>9, <2>2 DEF Gestor, GestorEsperaBlock, GestorEsperaInstancia, GestorAsigna, GestorSaca, GestorIngresa,
       GestorAvisa, IrGestor
  <2>4. gestor'[r].pc = "saca" => cola_block'[r] # <<>> /\ Head(cola_block'[r]) = gestor'[r].pid
    BY <1>9, <2>2 DEF Gestor, GestorEsperaBlock, GestorEsperaInstancia, GestorAsigna, GestorSaca, GestorIngresa,
       GestorAvisa, IrGestor
  <2>5. GestorManos'
    BY <1>1, <2>3, <2>4 DEF GestorManos
  <2>6. QED
    BY <1>1, <1>2, <2>1, <2>5
<1>10. QED
  BY <1>5, <1>6, <1>7, <1>8, <1>9 DEF Next

LEMMA ALoSumoUno ==
  ASSUME NEW S, \A x, y \in S : x = y
  PROVE  Cardinality(S) \in {0, 1} /\ (Cardinality(S) = 0 <=> S = {})
<1>1. CASE S = {}
  BY <1>1, FS_EmptySet
<1>2. CASE S # {}
  <2>1. PICK x : S = {x}
    BY <1>2
  <2>2. Cardinality({x}) = 1
    BY FS_Singleton
  <2>3. QED
    BY <2>1, <2>2
<1>3. QED
  BY <1>1, <1>2

LEMMA VecesPocas ==
  ASSUME NEW s \in Seq(Pids), NEW p
  PROVE  /\ Veces(p, s) = 0 <=> \A i \in DOMAIN s : s[i] # p
         /\ Veces(p, s) <= 1 => \A i, j \in DOMAIN s : s[i] = p /\ s[j] = p => i = j
<1> DEFINE I == {i \in DOMAIN s : s[i] = p}
<1>1. IsFiniteSet(I)
  <2>1. DOMAIN s = 1 .. Len(s) /\ Len(s) \in Nat
    BY LenProperties
  <2>2. IsFiniteSet(1 .. Len(s)) /\ I \subseteq 1 .. Len(s)
    BY <2>1, FS_Interval
  <2>3. QED
    BY <2>2, FS_Subset
<1>2. Veces(p, s) = Cardinality(I) /\ Cardinality(I) \in Nat
  BY <1>1, FS_CardinalityType DEF Veces
<1>3. Cardinality(I) = 0 <=> I = {}
  BY <1>1, FS_EmptySet
<1>4. ASSUME NEW i \in I, NEW j \in I, i # j
      PROVE  Cardinality(I) > 1
  <2>1. /\ IsFiniteSet(I \ {i}) /\ Cardinality(I \ {i}) = Cardinality(I) - 1
    BY <1>1, FS_RemoveElement
  <2>2. I \ {i} # {}
    BY <1>4
  <2>3. Cardinality(I \ {i}) # 0 /\ Cardinality(I \ {i}) \in Nat
    BY <2>1, <2>2, FS_EmptySet, FS_CardinalityType
  <2>4. QED
    BY <1>2, <2>1, <2>3
<1>5. Cardinality(I) <= 1 => \A i, j \in I : i = j
  BY <1>2, <1>4
<1>6. QED
  BY <1>2, <1>3, <1>5

(* BLOCK as the property counts it.                                        *)
LEMMA UnaVezEnBlock ==
  ASSUME TipoInv, NEW p \in Pids, Separado(p)
  PROVE  /\ Bloqueado(p) \in {0, 1}
         /\ Bloqueado(p) = 0 <=> \A r \in Recursos : EnRecurso(p, r) = 0
<1>0. cola_block \in [Recursos -> Seq(Pids)]
  BY DEF TipoInv, TypeOK, TipoColas
<1> DEFINE Mano(r) == gestor[r].pc = "ingresa" /\ gestor[r].pid = p
           Cola(r) == {i \in DOMAIN cola_block[r] : cola_block[r][i] = p}
<1>1. ASSUME NEW r \in Recursos
      PROVE  /\ EnRecurso(p, r) = Veces(p, cola_block[r]) + Uno(Mano(r))
             /\ EnRecurso(p, r) \in Nat /\ Veces(p, cola_block[r]) \in Nat /\ Uno(Mano(r)) \in {0, 1}
             /\ Veces(p, cola_block[r]) = 0 <=> Cola(r) = {}
             /\ Veces(p, cola_block[r]) <= 1 => \A i, j \in Cola(r) : i = j
             /\ Uno(Mano(r)) = 0 <=> ~Mano(r)
  <2>1. EnRecurso(p, r) = Veces(p, cola_block[r]) + Uno(Mano(r))
    BY DEF EnRecurso
  <2>2. EnRecurso(p, r) \in Nat /\ Veces(p, cola_block[r]) \in Nat /\ Uno(Mano(r)) \in {0, 1}
    BY CuentasNat
  <2>3. /\ Veces(p, cola_block[r]) = 0 <=> Cola(r) = {}
        /\ Veces(p, cola_block[r]) <= 1 => \A i, j \in Cola(r) : i = j
    BY <1>0, VecesPocas
  <2>4. Uno(Mano(r)) = 0 <=> ~Mano(r)
    BY DEF Uno
  <2>5. QED
    BY <2>1, <2>2, <2>3, <2>4
<1>2. EnBlock(p) = UNION {{<<r, i>> : i \in Cola(r)} : r \in Recursos}
  BY DEF EnBlock
<1>3. PorMover(p) = {r \in Recursos : Mano(r)}
  BY DEF PorMover
<1> HIDE DEF Mano, Cola
<1>4. CASE \A r \in Recursos : EnRecurso(p, r) = 0
  <2>1. \A r \in Recursos : Cola(r) = {} /\ ~Mano(r)
    BY <1>1, <1>4
  <2>2. EnBlock(p) = {} /\ PorMover(p) = {}
    BY <1>2, <1>3, <2>1
  <2>3. Bloqueado(p) = 0
    BY <2>2, FS_EmptySet DEF Bloqueado
  <2>4. QED
    BY <1>4, <2>3
<1>5. ASSUME NEW r \in Recursos, EnRecurso(p, r) > 0
      PROVE  Bloqueado(p) = 1
  <2>1. EnRecurso(p, r) = 1 /\ \A s \in Recursos \ {r} : EnRecurso(p, s) = 0
    BY <1>1, <1>5 DEF Separado
  <2>2. \A s \in Recursos \ {r} : Cola(s) = {} /\ ~Mano(s)
    BY <1>1, <2>1
  <2>3. EnBlock(p) = {<<r, i>> : i \in Cola(r)} /\ PorMover(p) = IF Mano(r) THEN {r} ELSE {}
    BY <1>2, <1>3, <2>2
  <2>4. CASE Mano(r)
    <3>1. Cola(r) = {}
      BY <1>1, <2>1, <2>4
    <3>2. EnBlock(p) = {} /\ PorMover(p) = {r}
      BY <2>3, <2>4, <3>1
    <3>3. QED
      BY <3>2, FS_EmptySet, FS_Singleton DEF Bloqueado
  <2>5. CASE ~Mano(r)
    <3>1. Cola(r) # {} /\ \A i, j \in Cola(r) : i = j
      BY <1>1, <2>1, <2>5
    <3>2. PICK i : Cola(r) = {i}
      BY <3>1
    <3>3. EnBlock(p) = {<<r, i>>} /\ PorMover(p) = {}
      BY <2>3, <2>5, <3>2
    <3>4. Cardinality(EnBlock(p)) = 1 /\ Cardinality(PorMover(p)) = 0
      <4>1. Cardinality({<<r, i>>}) = 1 /\ Cardinality({}) = 0
        BY FS_EmptySet, FS_Singleton
      <4>2. QED
        BY <3>3, <4>1
    <3>5. QED
      BY <3>4 DEF Bloqueado
  <2>6. QED
    BY <2>4, <2>5
<1>6. CASE \E r \in Recursos : EnRecurso(p, r) > 0
  BY <1>5, <1>6
<1>7. (\A r \in Recursos : EnRecurso(p, r) = 0) \/ \E r \in Recursos : EnRecurso(p, r) > 0
  BY <1>1
<1>8. QED
  BY <1>4, <1>6, <1>7

LEMMA SeparadoUnaVez ==
  ASSUME TipoInv, NEW p \in Pids, Separado(p)
  PROVE  Copias(p) <= 1
<1>1. EnNew(p) \in Nat /\ Veces(p, cola_ready) \in Nat /\ EnExec(p) \in Nat
  BY CuentasNat
<1>2. Copias(p) = Suelto(p) + Bloqueado(p) + Cardinality(PorNacer(p))
  BY DEF Copias, Suelto
<1>3. Suelto(p) \in {0, 1}
  <2>1. Suelto(p) \in Nat
    BY <1>1 DEF Suelto
  <2>2. QED
    BY <2>1 DEF Separado
<1>4. Bloqueado(p) \in {0, 1} /\ (Bloqueado(p) = 0 <=> \A r \in Recursos : EnRecurso(p, r) = 0)
  BY UnaVezEnBlock
<1>5. Cardinality(PorNacer(p)) \in {0, 1} /\ (Cardinality(PorNacer(p)) = 0 <=> PorNacer(p) = {})
  BY ALoSumoUno DEF Separado
<1>6. Cardinality(PorNacer(p)) # 0 => Suelto(p) = 0 /\ Bloqueado(p) = 0
  BY <1>4, <1>5 DEF Separado, Ausente
<1>7. Bloqueado(p) # 0 => Suelto(p) = 0
  <2>1. \A r \in Recursos : EnRecurso(p, r) \in Nat
    BY CuentasNat
  <2>2. QED
    BY <1>4, <2>1 DEF Separado
<1>8. QED
  BY <1>2, <1>3, <1>4, <1>5, <1>6, <1>7

(* The initial state, and every step.                                      *)
LEMMA UnLugarInit == Init => UnLugarInv
<1> SUFFICES ASSUME Init, NEW p \in Pids PROVE Separado(p)
  BY TipoInit, ManosInit DEF UnLugarInv
<1>1. TipoInv
  BY TipoInit
<1>2. Veces(p, <<>>) = 0
  <2>1. <<>> \in Seq(Pids) /\ DOMAIN <<>> = {}
    BY EmptySeq, LenProperties
  <2>2. QED
    BY <2>1, VecesPocas
<1>3. EnMotivos(p) = 0
  <2>1. {i \in DOMAIN motivos : motivos[i].pid = p} = {}
    <3>1. motivos = <<>> /\ DOMAIN <<>> = {}
      BY EmptySeq, LenProperties DEF Init
    <3>2. QED
      BY <3>1
  <2>2. QED
    BY <2>1, FS_EmptySet DEF EnMotivos
<1>4. EnNew(p) = 0 /\ Veces(p, cola_ready) = 0
  BY <1>2 DEF Init, EnNew, Uno, NADIE, Pids
<1>5. EnExec(p) = 0
  BY <1>2, <1>3 DEF Init, EnExec, EnMotivos, EnDesalojo, Uno, NADIE, Pids
<1>6. \A r \in Recursos : EnRecurso(p, r) = 0
  BY <1>2 DEF Init, EnRecurso, Uno
<1>7. PorNacer(p) = {}
  BY DEF Init, PorNacer
<1>8. QED
  BY <1>4, <1>5, <1>6, <1>7 DEF Separado, Suelto, Ausente

LEMMA UnLugarPaso == UnLugarInv /\ [Next]_vars => UnLugarInv'
<1> SUFFICES ASSUME UnLugarInv, [Next]_vars PROVE UnLugarInv'
  OBVIOUS
<1>1. TipoInv /\ TipoInv' /\ ManosExactas /\ ManosExactas'
  BY TipoPaso, ManosPaso DEF UnLugarInv
<1>2. PasoDePcb
  BY <1>1, PasoPcb
<1>3. \A p \in Pids : Separado(p)
  BY DEF UnLugarInv
<1>4. \A p \in Pids : Quieto(p) \/ Mueve(p)
  BY <1>2 DEF PasoDePcb
<1>5. \A p \in Pids : Separado(p)'
  BY <1>1, <1>3, <1>4, QuietoSeparado, MueveSeparado
<1>6. QED
  BY <1>1, <1>5 DEF UnLugarInv

(* No PCB is ever in two places: nor in two queues, nor in a queue and in  *)
(* a socket or in a thread's hand, nor twice in one of them.               *)
THEOREM UnSoloLugarSiempre == Spec => []UnSoloLugar
<1>1. UnLugarInv => UnSoloLugar
  BY SeparadoUnaVez DEF UnLugarInv, UnSoloLugar
<1>2. QED
  BY <1>1, UnLugarInit, UnLugarPaso, PTL DEF Spec

-----------------------------------------------------------------------------
(* Stopping.  A thread holds what it has locked so far, and while the flag *)
(* is down and nobody is unlocking, every mutex is held; no queue changes  *)
(* while its mutex is held.                                                *)
TodoRetenido == {"new", "ready"} \subseteq retenidos /\ Recursos \subseteq block_retenidos

LoRetenido(h) ==
  /\ hilo[h].pc = "para_ready" => "new" \in retenidos
  /\ hilo[h].pc = "para_block" => /\ {"new", "ready"} \subseteq retenidos
                                  /\ Recursos \ faltan[h] \subseteq block_retenidos

ParadaInv == /\ TipoInv
             /\ \A h \in Hilos : LoRetenido(h)
             /\ ~PLANIFICACION /\ (\A h \in Hilos : hilo[h].pc \notin Abriendo)
                  => TodoRetenido

(* Far from stopping and resuming, or at its edges.                        *)
Lejos == Pc.hilo \ ({"para_ready", "para_block"} \cup Abriendo)

(* What does not touch the mutexes leaves them as they were.               *)
LEMMA ParadaLejos ==
  ASSUME NEW h \in Hilos, hilo \in [Hilos -> [pc : Pc.hilo, arg : Nat, lineas : Nat]],
         hilo[h].pc \in Lejos, hilo'[h].pc \in Lejos \cup {"abre_new"},
         \A k \in Hilos \ {h} : hilo'[k] = hilo[k], UNCHANGED parada,
         \A k \in Hilos : LoRetenido(k),
         ~PLANIFICACION /\ (\A k \in Hilos : hilo[k].pc \notin Abriendo) => TodoRetenido
  PROVE  /\ \A k \in Hilos : LoRetenido(k)'
         /\ (~PLANIFICACION /\ (\A k \in Hilos : hilo[k].pc \notin Abriendo) => TodoRetenido)'
<1>1. UNCHANGED <<PLANIFICACION, retenidos, block_retenidos, faltan>>
  BY DEF parada
<1>2. \A k \in Hilos : LoRetenido(k)'
  BY <1>1 DEF LoRetenido, Lejos, Abriendo
<1>3. (\A k \in Hilos : hilo'[k].pc \notin Abriendo) => \A k \in Hilos : hilo[k].pc \notin Abriendo
  BY DEF Lejos
<1>4. QED
  BY <1>1, <1>2, <1>3 DEF TodoRetenido

(* The commands.                                                           *)
LEMMA ParadaOrden ==
  ASSUME ParadaInv, NEW h \in Hilos, Orden(h)
  PROVE  /\ \A k \in Hilos : LoRetenido(k)'
         /\ (~PLANIFICACION /\ (\A k \in Hilos : hilo[k].pc \notin Abriendo) => TodoRetenido)'
<1>1. /\ hilo \in [Hilos -> [pc : Pc.hilo, arg : Nat, lineas : Nat]]
  BY DEF ParadaInv, TipoInv, TypeOK, TipoConsola
<1>2. /\ hilo[h].pc \in Lejos /\ hilo'[h].pc \in Lejos \cup {"abre_new"}
      /\ \A k \in Hilos \ {h} : hilo'[k] = hilo[k]
      /\ UNCHANGED parada
  BY <1>1 DEF Orden, CrearPcb, Multiprogramacion, DetenerPlanificacion, IniciarPlanificacion, Comando, Ejecutar,
     Lejos, Abriendo, Pc
<1>3. QED
  BY <1>1, <1>2, ParadaLejos DEF ParadaInv

(* The steps that lock, one mutex at a time.                               *)
LEMMA ParadaRetiene ==
  ASSUME ParadaInv, UnaParadaALaVez, NEW h \in Hilos,
         RetenerNew(h) \/ RetenerReady(h) \/ RetenerBlock(h) \/ BajarPlanificacion(h)
  PROVE  /\ \A k \in Hilos : LoRetenido(k)'
         /\ (~PLANIFICACION /\ (\A k \in Hilos : hilo[k].pc \notin Abriendo) => TodoRetenido)'
<1>1. /\ hilo \in [Hilos -> [pc : Pc.hilo, arg : Nat, lineas : Nat]]
      /\ faltan \in [Hilos -> SUBSET Recursos]
  BY DEF ParadaInv, TipoInv, TypeOK, TipoConsola
<1>2. /\ hilo[h].pc \in Parando
      /\ \A k \in Hilos \ {h} : hilo[k].pc \notin Parando \cup Abriendo
  BY DEF UnaParadaALaVez, RetenerNew, RetenerReady, RetenerBlock, BajarPlanificacion, Parando
<1>3. \A k \in Hilos \ {h} : hilo'[k] = hilo[k]
  BY <1>1 DEF RetenerNew, RetenerReady, RetenerBlock, BajarPlanificacion, IrHilo
<1>4. \A k \in Hilos \ {h} : LoRetenido(k)'
  BY <1>2, <1>3 DEF LoRetenido, Parando
<1>5. LoRetenido(h)
  BY DEF ParadaInv
<1>6. retenidos \subseteq retenidos' /\ block_retenidos \subseteq block_retenidos'
  BY DEF RetenerNew, RetenerReady, RetenerBlock, BajarPlanificacion
<1>7. LoRetenido(h)'
  <2>1. CASE RetenerNew(h)
    BY <1>1, <2>1 DEF RetenerNew, IrHilo, LoRetenido
  <2>2. CASE RetenerReady(h)
    BY <1>1, <1>5, <2>2 DEF RetenerReady, IrHilo, LoRetenido
  <2>3. CASE RetenerBlock(h)
    <3>1. PICK r \in faltan[h] \ block_retenidos :
            /\ block_retenidos' = block_retenidos \cup {r}
            /\ faltan' = [faltan EXCEPT ![h] = @ \ {r}]
      BY <2>3 DEF RetenerBlock
    <3>2. faltan'[h] = faltan[h] \ {r} /\ hilo' = hilo /\ hilo[h].pc = "para_block" /\ retenidos' = retenidos
      BY <1>1, <2>3, <3>1 DEF RetenerBlock
    <3>3. QED
      BY <1>5, <3>1, <3>2 DEF LoRetenido
  <2>4. CASE BajarPlanificacion(h)
    BY <1>1, <2>4 DEF BajarPlanificacion, IrHilo, LoRetenido
  <2>5. QED
    BY <2>1, <2>2, <2>3, <2>4
<1>8. ASSUME ~PLANIFICACION'
      PROVE  TodoRetenido'
  <2>1. CASE ~PLANIFICACION
    <3>1. \A k \in Hilos : hilo[k].pc \notin Abriendo
      BY <1>2 DEF Parando, Abriendo
    <3>2. QED
      BY <1>6, <2>1, <3>1 DEF ParadaInv, TodoRetenido
  <2>2. CASE BajarPlanificacion(h)
    BY <1>5, <1>6, <2>2 DEF BajarPlanificacion, LoRetenido, TodoRetenido
  <2>3. QED
    BY <1>8, <2>1, <2>2 DEF RetenerNew, RetenerReady, RetenerBlock
<1>9. QED
  BY <1>4, <1>7, <1>8

(* The steps that unlock.                                                  *)
LEMMA ParadaLibera ==
  ASSUME ParadaInv, UnaParadaALaVez, NEW h \in Hilos,
         LiberarNew(h) \/ LiberarReady(h) \/ LiberarBlock(h) \/ LevantarPlanificacion(h)
  PROVE  /\ \A k \in Hilos : LoRetenido(k)'
         /\ (~PLANIFICACION /\ (\A k \in Hilos : hilo[k].pc \notin Abriendo) => TodoRetenido)'
<1>1. hilo \in [Hilos -> [pc : Pc.hilo, arg : Nat, lineas : Nat]]
  BY DEF ParadaInv, TipoInv, TypeOK, TipoConsola
<1>2. /\ hilo[h].pc \in Abriendo
      /\ \A k \in Hilos \ {h} : hilo[k].pc \notin Parando \cup Abriendo
  BY DEF UnaParadaALaVez, LiberarNew, LiberarReady, LiberarBlock, LevantarPlanificacion, Abriendo
<1>3. /\ \A k \in Hilos \ {h} : hilo'[k] = hilo[k]
      /\ hilo'[h].pc \in Abriendo \/ (hilo'[h].pc = "reanuda" /\ PLANIFICACION')
  BY <1>1, <1>2 DEF LiberarNew, LiberarReady, LiberarBlock, LevantarPlanificacion, IrHilo, Abriendo
<1>4. QED
  BY <1>2, <1>3 DEF LoRetenido, Parando, Abriendo

(* The other steps of the threads of the console.                          *)
LEMMA ParadaAjena ==
  ASSUME ParadaInv, NEW h \in Hilos, Consola(h),
         ~(\/ RetenerNew(h) \/ RetenerReady(h) \/ RetenerBlock(h) \/ BajarPlanificacion(h)
           \/ LiberarNew(h) \/ LiberarReady(h) \/ LiberarBlock(h) \/ LevantarPlanificacion(h))
  PROVE  /\ \A k \in Hilos : LoRetenido(k)'
         /\ (~PLANIFICACION /\ (\A k \in Hilos : hilo[k].pc \notin Abriendo) => TodoRetenido)'
<1>1. hilo \in [Hilos -> [pc : Pc.hilo, arg : Nat, lineas : Nat]]
  BY DEF ParadaInv, TipoInv, TypeOK, TipoConsola
<1>2. /\ hilo[h].pc \in Lejos /\ hilo'[h].pc \in Lejos
      /\ \A k \in Hilos \ {h} : hilo'[k] = hilo[k]
      /\ UNCHANGED parada
  BY <1>1 DEF Consola, IngresarANew, EnviarProcesoMemoria, RecibirResultado, ProcesoCreado, ErrorAlCrear,
     DescartarDeNew, FijarGrado, DetenerCorto, DetenerLargo, Reanudar, IrHilo, IrHiloCon, Lejos, Abriendo, Pc
<1>3. QED
  BY <1>1, <1>2, ParadaLejos DEF ParadaInv

LEMMA ParadaPaso == ParadaInv /\ UnaParadaALaVez /\ [Next]_vars => ParadaInv'
<1> SUFFICES ASSUME ParadaInv, UnaParadaALaVez, [Next]_vars PROVE ParadaInv'
  OBVIOUS
<1>1. TipoInv'
  BY TipoPaso DEF ParadaInv
<1>2. CASE UNCHANGED <<hilo, parada>>
  BY <1>1, <1>2 DEF ParadaInv, parada, LoRetenido, TodoRetenido
<1>3. ASSUME NEW h \in Hilos, Orden(h) \/ Consola(h)
      PROVE  ParadaInv'
  BY <1>1, <1>3, ParadaOrden, ParadaRetiene, ParadaLibera, ParadaAjena DEF ParadaInv
<1>4. CASE ~(\E h \in Hilos : Orden(h) \/ Consola(h))
  <2>1. UNCHANGED <<hilo, parada>>
    BY <1>4 DEF Next, vars, HiloMultiprogramacion, BajarMultiprogramacion, ConectarInterfaz, PlanificadorLargo,
       PlanificadorCorto, AtenderKernel, Cpu, Desalojo, Gestor, consola
  <2>2. QED
    BY <1>2, <2>1
<1>5. QED
  BY <1>3, <1>4

(* Every list_add and list_remove is under its queue's mutex.              *)
LEMMA ColasConMutex ==
  ASSUME TipoInv, TodoRetenido, [Next]_vars
  PROVE  UNCHANGED <<cola_new, cola_ready, cola_block>>
<1>0. /\ cola_block \in [Recursos -> Seq(Pids)]
      /\ "new" \in retenidos /\ "ready" \in retenidos /\ \A r \in Recursos : r \in block_retenidos
  BY DEF TipoInv, TypeOK, TipoColas, TodoRetenido
<1>1. ASSUME NEW h \in Hilos, Orden(h)
      PROVE  UNCHANGED <<cola_new, cola_ready, cola_block>>
  BY <1>1 DEF Orden, CrearPcb, Multiprogramacion, DetenerPlanificacion, IniciarPlanificacion, alta
<1>2. ASSUME NEW h \in Hilos, Consola(h)
      PROVE  UNCHANGED <<cola_new, cola_ready, cola_block>>
  BY <1>0, <1>2 DEF Consola, IngresarANew,
     EnviarProcesoMemoria, RecibirResultado, ProcesoCreado, ErrorAlCrear, DescartarDeNew, FijarGrado, DetenerCorto,
     DetenerLargo, RetenerNew, RetenerReady, RetenerBlock, BajarPlanificacion, LiberarNew, LiberarReady,
     LiberarBlock, LevantarPlanificacion, Reanudar, alta
<1>3. CASE PlanificadorLargo
  BY <1>0, <1>3 DEF PlanificadorLargo, LargoEspera, LargoToma, LargoIngresa, LargoAvisa, LargoCompuerta, LargoReanuda
<1>4. CASE PlanificadorCorto
  BY <1>0, <1>4 DEF PlanificadorCorto, CortoEspera, CortoDespacha, CortoFinExec, CortoCompuerta, CortoReanuda
<1>5. CASE Desalojo
  <2>1. ~WaitBloquea
    BY <1>0 DEF WaitBloquea, TipoInv, EnMano, DesalojoEnMano
  <2>2. QED
    BY <1>5, <2>1 DEF Desalojo, RecibirMotivo, ManejarExit, ManejarWaitSignal, WaitInvalido, WaitAsigna, WaitConfirma,
       WaitSinInstancias, WaitAvisa, ManejarSignal, SignalInvalido
<1>6. ASSUME NEW r \in Recursos, Gestor(r)
      PROVE  UNCHANGED <<cola_new, cola_ready, cola_block>>
  <2>1. CASE GestorSaca(r)
    <3>1. cola_block' = [cola_block EXCEPT ![r] = cola_block[r]]
      BY <1>0, <2>1 DEF GestorSaca
    <3>2. QED
      BY <1>0, <1>6, <2>1, <3>1 DEF Gestor, GestorSaca
  <2>2. CASE ~GestorSaca(r)
    BY <1>0, <1>6, <2>2 DEF Gestor, GestorEsperaBlock, GestorEsperaInstancia, GestorAsigna, GestorIngresa, GestorAvisa
  <2>3. QED
    BY <2>1, <2>2
<1>7. CASE HiloMultiprogramacion \/ ConectarInterfaz \/ AtenderKernel \/ Cpu \/ UNCHANGED vars
  BY <1>7 DEF HiloMultiprogramacion, BajarMultiprogramacion, ConectarInterfaz, alta, AtenderKernel, Cpu, vars
<1>8. QED
  BY <1>1, <1>2, <1>3, <1>4, <1>5, <1>6, <1>7 DEF Next

(* While planning is stopped or resumed by one thread at a time, planning  *)
(* stopped is queues stopped: however many threads run other commands,     *)
(* whatever the threads past their gates do, and with the mutexes locked   *)
(* and unlocked one by one.  Two threads that resume and stop at once do   *)
(* break it: one that has found the flag down unlocks what the other has   *)
(* locked since.                                                           *)
THEOREM ColasDetenidasSiempre == Spec /\ []UnaParadaALaVez => ColasDetenidas
<1>1. Init => ParadaInv
  BY TipoInit DEF ParadaInv, Init, LoRetenido
<1>2. ParadaInv /\ [Next]_vars =>
        [~PLANIFICACION /\ (\A h \in Hilos : hilo[h].pc \notin Abriendo)
           => UNCHANGED <<cola_new, cola_ready, cola_block>>]_vars
  BY ColasConMutex DEF ParadaInv
<1>3. QED
  BY <1>1, <1>2, ParadaPaso, PTL DEF Spec, ColasDetenidas

-----------------------------------------------------------------------------
(* The life of a process.  Its state is read off the counts, ...           *)
EnAlgunBlock(p) == \E r \in Recursos : EnRecurso(p, r) > 0
Visible(p)      == ~(p > lastPID) /\ PorNacer(p) = {}

EstadoSegun(p) ==
  /\ ~Visible(p) => Estado(p) = "..."
  /\ Visible(p) =>
       /\ EnNew(p) > 0 => Estado(p) = "NEW"
       /\ EnNew(p) = 0 /\ Veces(p, cola_ready) > 0 => Estado(p) = "READY"
       /\ Suelto(p) = EnExec(p) /\ EnExec(p) > 0 => Estado(p) = "EXEC"
       /\ Suelto(p) = 0 /\ EnAlgunBlock(p) => Estado(p) = "BLOCK"
       /\ Suelto(p) = 0 /\ ~EnAlgunBlock(p) => Estado(p) = "EXIT"

LEMMA EstadoCuentas ==
  ASSUME UnLugarInv, NEW p \in Pids
  PROVE  EstadoSegun(p)
<1>1. TipoInv /\ Separado(p)
  BY DEF UnLugarInv
<1>2. /\ EnNew(p) \in Nat /\ Veces(p, cola_ready) \in Nat /\ EnExec(p) \in Nat
      /\ \A r \in Recursos : EnRecurso(p, r) \in Nat
  BY <1>1, CuentasNat
<1>3. Bloqueado(p) \in {0, 1} /\ (Bloqueado(p) > 0 <=> EnAlgunBlock(p))
  BY <1>1, <1>2, UnaVezEnBlock DEF EnAlgunBlock
<1>4. PICK n, l, e, b \in Nat : n = EnNew(p) /\ l = Veces(p, cola_ready) /\ e = EnExec(p) /\ b = Bloqueado(p)
  BY <1>2, <1>3
<1>5. Suelto(p) = n + l + e
  BY <1>4 DEF Suelto
<1>6. Estado(p) = CASE ~Visible(p) -> "..."
                    [] n > 0       -> "NEW"
                    [] l > 0       -> "READY"
                    [] e > 0       -> "EXEC"
                    [] b > 0       -> "BLOCK"
                    [] OTHER       -> "EXIT"
  BY <1>4 DEF Estado, Visible
<1>15. ~Visible(p) => n = 0 /\ l = 0 /\ e = 0 /\ b = 0
  <2>1. SUFFICES ASSUME ~Visible(p) PROVE n = 0 /\ l = 0 /\ e = 0 /\ b = 0
    OBVIOUS
  <2>2. Ausente(p)
    BY <1>1, <2>1 DEF Visible, Separado
  <2>3. n + l + e = 0 /\ ~EnAlgunBlock(p)
    BY <1>2, <1>5, <2>2 DEF Ausente, EnAlgunBlock
  <2>4. QED
    BY <1>3, <1>4, <2>3
<1>16. n + l + e <= 1 /\ (b > 0 => n + l + e = 0)
  <2>1. Suelto(p) <= 1
    BY <1>1 DEF Separado
  <2>2. EnAlgunBlock(p) => Suelto(p) = 0
    BY <1>1 DEF Separado, EnAlgunBlock
  <2>3. QED
    BY <1>3, <1>4, <1>5, <2>1, <2>2
<1>17. /\ n > 0 => l = 0 /\ e = 0 /\ b = 0
       /\ l > 0 => n = 0 /\ e = 0 /\ b = 0
       /\ e > 0 => n = 0 /\ l = 0 /\ b = 0
       /\ b > 0 => n = 0 /\ l = 0 /\ e = 0
  BY <1>16
<1>7. ~Visible(p) => Estado(p) = "..."
  BY <1>6, <1>15
<1>8. Visible(p) /\ n > 0 => Estado(p) = "NEW"
  BY <1>6, <1>17
<1>9. Visible(p) /\ n = 0 /\ l > 0 => Estado(p) = "READY"
  BY <1>6, <1>17
<1>10. Visible(p) /\ n = 0 /\ l = 0 /\ e > 0 => Estado(p) = "EXEC"
  BY <1>6, <1>17
<1>11. Visible(p) /\ n = 0 /\ l = 0 /\ e = 0 => Estado(p) = IF b > 0 THEN "BLOCK" ELSE "EXIT"
  BY <1>6
<1>12. n + l + e = e => n = 0 /\ l = 0
  OBVIOUS
<1>13. n + l + e = 0 => n = 0 /\ l = 0 /\ e = 0
  OBVIOUS
<1>14. QED
  BY <1>3, <1>4, <1>5, <1>7, <1>8, <1>9, <1>10, <1>11, <1>12, <1>13 DEF EstadoSegun

LEMMA EstadoCuentasPrima ==
  ASSUME NEW p \in Pids
  PROVE  UnLugarInv' => EstadoSegun(p)'
<1>1. UnLugarInv => EstadoSegun(p)
  BY EstadoCuentas
<1>2. QED
  BY <1>1, PTL

(* ... every one is read in some state, ...                                *)
LEMMA Cuadra ==
  ASSUME UnLugarInv, NEW p \in Pids
  PROVE  \/ ~Visible(p)
         \/ EnNew(p) > 0
         \/ EnNew(p) = 0 /\ Veces(p, cola_ready) > 0
         \/ Suelto(p) = EnExec(p) /\ EnExec(p) > 0
         \/ Suelto(p) = 0
<1>1. EnNew(p) \in Nat /\ Veces(p, cola_ready) \in Nat /\ EnExec(p) \in Nat
  BY CuentasNat DEF UnLugarInv
<1>2. QED
  BY <1>1 DEF Suelto

(* ... so a PCB that stays where it is keeps its state ...                 *)
LEMMA QuietoEstado ==
  ASSUME UnLugarInv, UnLugarInv', NEW p \in Pids, Quieto(p)
  PROVE  Estado(p)' = Estado(p)
<1>1. EstadoSegun(p) /\ EstadoSegun(p)'
  BY EstadoCuentas, EstadoCuentasPrima
<1>2. /\ EnNew(p)' = EnNew(p) /\ Veces(p, cola_ready)' = Veces(p, cola_ready) /\ EnExec(p)' = EnExec(p)
      /\ PorNacer(p)' = PorNacer(p) /\ (p > lastPID' <=> p > lastPID)
      /\ \A r \in Recursos : EnRecurso(p, r)' = EnRecurso(p, r)
  BY DEF Quieto, MismosRecursos
<1>3. Suelto(p)' = Suelto(p) /\ (EnAlgunBlock(p)' <=> EnAlgunBlock(p)) /\ (Visible(p)' <=> Visible(p))
  BY <1>2 DEF Suelto, EnAlgunBlock, Visible
<1>4. QED
  BY <1>1, <1>2, <1>3, Cuadra DEF EstadoSegun

(* ... and one that moves makes one of the moves of CicloDeVida, or none.  *)
Muda(p, desde, hasta) == Estado(p) = desde /\ Estado(p)' = hasta

Mudanza(p) ==
  \/ Estado(p)' = Estado(p)       \/ Muda(p, "...", "NEW")
  \/ Muda(p, "NEW", "READY")      \/ Muda(p, "NEW", "EXIT")
  \/ Muda(p, "READY", "EXEC")     \/ Muda(p, "EXEC", "BLOCK")
  \/ Muda(p, "BLOCK", "READY")    \/ Muda(p, "EXEC", "EXIT")

LEMMA MueveEstado ==
  ASSUME UnLugarInv, UnLugarInv', NEW p \in Pids, Mueve(p)
  PROVE  Mudanza(p)
<1>1. EstadoSegun(p) /\ EstadoSegun(p)' /\ Separado(p) /\ Separado(p)' /\ TipoInv /\ TipoInv'
  BY EstadoCuentas, EstadoCuentasPrima DEF UnLugarInv
<1>2. PICK n, l, e \in Nat : n = EnNew(p) /\ l = Veces(p, cola_ready) /\ e = EnExec(p)
  BY <1>1, CuentasNat
<1>3. PICK m, k, f \in Nat : m = EnNew(p)' /\ k = Veces(p, cola_ready)' /\ f = EnExec(p)'
  BY <1>1, CuentasNatPrima DEF Numeros
<1>4. Suelto(p) = n + l + e /\ Suelto(p)' = m + k + f
  BY <1>2, <1>3 DEF Suelto
<1>5. Suelto(p) \in {0, 1} /\ Suelto(p)' \in {0, 1}
  BY <1>1, <1>4 DEF Separado
<1>6. /\ \A r \in Recursos : EnRecurso(p, r) \in Nat
      /\ \A r \in Recursos : EnRecurso(p, r)' \in Nat
  BY <1>1, CuentasNat, CuentasNatPrima DEF Numeros
<1>7. Suelto(p) = 1 => Visible(p) /\ ~EnAlgunBlock(p)
  BY <1>1, <1>5 DEF Separado, Ausente, Visible, EnAlgunBlock
<1>8. EnAlgunBlock(p) => Visible(p) /\ Suelto(p) = 0
  <2>1. SUFFICES ASSUME NEW r \in Recursos, EnRecurso(p, r) > 0
                 PROVE  Visible(p) /\ Suelto(p) = 0
    BY DEF EnAlgunBlock
  <2>2. Suelto(p) = 0 /\ ~Ausente(p)
    BY <1>1, <2>1 DEF Separado, Ausente
  <2>3. QED
    BY <1>1, <2>2 DEF Separado, Visible
<1>9. /\ Visible(p) /\ n = 1 => Estado(p) = "NEW"
      /\ Visible(p) /\ n = 0 /\ l = 1 => Estado(p) = "READY"
      /\ Visible(p) /\ n = 0 /\ l = 0 /\ e = 1 => Estado(p) = "EXEC"
      /\ Visible(p) /\ n + l + e = 0 /\ EnAlgunBlock(p) => Estado(p) = "BLOCK"
  BY <1>1, <1>2, <1>4 DEF EstadoSegun
<1>10. /\ Visible(p)' /\ m = 1 => Estado(p)' = "NEW"
       /\ Visible(p)' /\ m = 0 /\ k = 1 => Estado(p)' = "READY"
       /\ Visible(p)' /\ m = 0 /\ k = 0 /\ f = 1 => Estado(p)' = "EXEC"
       /\ Visible(p)' /\ m + k + f = 0 /\ EnAlgunBlock(p)' => Estado(p)' = "BLOCK"
       /\ Visible(p)' /\ m + k + f = 0 /\ ~EnAlgunBlock(p)' => Estado(p)' = "EXIT"
  BY <1>1, <1>3, <1>4 DEF EstadoSegun
<1>11. CASE Nace(p)
  <2>1. p > lastPID /\ PorNacer(p)' # {}
    BY <1>11 DEF Nace
  <2>2. ~Visible(p) /\ ~Visible(p)'
    BY <2>1 DEF Visible
  <2>3. QED
    BY <1>1, <2>2 DEF EstadoSegun, Mudanza
<1>12. CASE Ingresa(p)
  <2>1. PICK h \in PorNacer(p) : PorNacer(p)' = PorNacer(p) \ {h}
    BY <1>12 DEF Ingresa
  <2>2. Ausente(p) /\ ~(p > lastPID) /\ PorNacer(p)' = {}
    BY <1>1, <2>1 DEF Separado
  <2>3. ~Visible(p) /\ Visible(p)' /\ n + l + e = 0
    BY <1>4, <1>12, <2>1, <2>2 DEF Visible, Ingresa, Cambia, Ausente
  <2>4. m = n + 1
    BY <1>2, <1>3, <1>12 DEF Ingresa, Cambia
  <2>5. m = 1
    BY <2>3, <2>4
  <2>6. QED
    BY <1>1, <1>10, <2>3, <2>5 DEF EstadoSegun, Mudanza, Muda
<1>13. CASE PasaDe(p)
  <2>1. \/ m = n - 1 /\ k = l + 1 /\ f = e
        \/ m = n - 1 /\ k = l /\ f = e
        \/ m = n /\ k = l - 1 /\ f = e + 1
        \/ m = n /\ k = l /\ f = e - 1
    BY <1>2, <1>3, <1>13 DEF PasaDe, Cambia
  <2>2. Suelto(p) = 1
    BY <1>4, <1>5, <2>1
  <2>3. Visible(p) /\ Visible(p)' /\ ~EnAlgunBlock(p)'
    BY <1>7, <1>13, <2>2 DEF PasaDe, Cambia, Visible, EnAlgunBlock, MismosRecursos
  <2>4. n + l + e = 1
    BY <1>4, <2>2
  <2>5. \/ n = 1 /\ l = 0 /\ e = 0 /\ m = 0 /\ k = 1 /\ f = 0
        \/ n = 1 /\ l = 0 /\ e = 0 /\ m = 0 /\ k = 0 /\ f = 0
        \/ n = 0 /\ l = 1 /\ e = 0 /\ m = 0 /\ k = 0 /\ f = 1
        \/ n = 0 /\ l = 0 /\ e = 1 /\ m = 0 /\ k = 0 /\ f = 0
    BY <2>1, <2>4
  <2>6. QED
    BY <1>9, <1>10, <2>3, <2>5 DEF Mudanza, Muda
<1>14. ASSUME NEW r \in Recursos, Bloquea(p, r)
       PROVE  Mudanza(p)
  <2>1. m = n /\ k = l /\ f = e - 1
    BY <1>2, <1>3, <1>14 DEF Bloquea, Cambia
  <2>2. Suelto(p) = 1
    BY <1>4, <1>5, <2>1
  <2>3. n + l + e = 1
    BY <1>4, <2>2
  <2>4. n = 0 /\ l = 0 /\ e = 1 /\ m + k + f = 0
    BY <2>1, <2>3
  <2>5. Visible(p) /\ Visible(p)'
    BY <1>7, <1>14, <2>2 DEF Bloquea, Cambia, Visible
  <2>6. EnAlgunBlock(p)'
    <3>1. EnRecurso(p, r)' = EnRecurso(p, r) + 1 /\ EnRecurso(p, r) \in Nat
      BY <1>6, <1>14 DEF Bloquea
    <3>2. EnRecurso(p, r)' > 0
      BY <3>1
    <3>3. QED
      BY <3>2 DEF EnAlgunBlock
  <2>7. QED
    BY <1>9, <1>10, <2>4, <2>5, <2>6 DEF Mudanza, Muda
<1>15. ASSUME NEW r \in Recursos, Desbloquea(p, r)
       PROVE  Mudanza(p)
  <2>1. m = n /\ k = l + 1 /\ f = e
    BY <1>2, <1>3, <1>15 DEF Desbloquea, Cambia
  <2>2. EnAlgunBlock(p)
    <3>1. EnRecurso(p, r)' = EnRecurso(p, r) - 1 /\ EnRecurso(p, r)' \in Nat /\ EnRecurso(p, r) \in Nat
      BY <1>6, <1>15 DEF Desbloquea
    <3>2. EnRecurso(p, r) > 0
      BY <3>1
    <3>3. QED
      BY <3>2 DEF EnAlgunBlock
  <2>3. Visible(p) /\ n + l + e = 0
    BY <1>4, <1>8, <2>2
  <2>4. Visible(p)'
    BY <1>15, <2>3 DEF Desbloquea, Cambia, Visible
  <2>5. m = 0 /\ k = 1
    BY <2>1, <2>3
  <2>6. QED
    BY <1>9, <1>10, <2>2, <2>3, <2>4, <2>5 DEF Mudanza, Muda
<1>16. QED
  BY <1>11, <1>12, <1>13, <1>14, <1>15 DEF Mueve

(* A move of one process is a step of the promise, or of nobody.           *)
LEMMA MudanzaCiclo ==
  ASSUME NEW q \in Pids, Mudanza(q), \A p \in Pids \ {q} : Estado(p)' = Estado(p)
  PROVE  Ciclo!Next \/ [p \in Pids |-> Estado(p)]' = [p \in Pids |-> Estado(p)]
<1>1. CASE Estado(q)' = Estado(q)
  BY <1>1
<1>2. ASSUME NEW a, NEW b, Muda(q, a, b)
      PROVE  Ciclo!Mover(q, a, b)
  BY <1>2 DEF Ciclo!Mover, Muda
<1>3. CASE Estado(q)' # Estado(q)
  BY <1>2, <1>3 DEF Mudanza, Ciclo!Next, Ciclo!Crear, Ciclo!Admitir, Ciclo!Rechazar, Ciclo!Despachar, Ciclo!Bloquear,
     Ciclo!Desbloquear, Ciclo!Terminar
<1>4. QED
  BY <1>1, <1>3

(* The scheduler implements CicloDeVida: whatever the interleaving, every  *)
(* process goes from state to state as the enum ESTADOS says, one move per *)
(* step, and none comes back from EXIT.                                    *)
THEOREM CicloDeVidaSiempre == Spec => CicloDeVidaCumplido
<1>1. Init => Ciclo!Init
  <2>1. SUFFICES ASSUME Init, NEW p \in Pids
                 PROVE  Estado(p) = "..."
    BY DEF Ciclo!Init
  <2>2. p > lastPID
    BY <2>1 DEF Init, Pids
  <2>3. QED
    BY <2>1, <2>2, UnLugarInit, EstadoCuentas DEF EstadoSegun, Visible
<1>2. UnLugarInv /\ UnLugarInv' /\ [Next]_vars =>
        Ciclo!Next \/ [p \in Pids |-> Estado(p)]' = [p \in Pids |-> Estado(p)]
  <2> SUFFICES ASSUME UnLugarInv, UnLugarInv', [Next]_vars
               PROVE  Ciclo!Next \/ [p \in Pids |-> Estado(p)]' = [p \in Pids |-> Estado(p)]
    OBVIOUS
  <2>1. PasoDePcb
    BY PasoPcb DEF UnLugarInv
  <2>2. CASE \A p \in Pids : Quieto(p)
    BY <2>2, QuietoEstado
  <2>3. ASSUME NEW q \in Pids, Mueve(q), \A p \in Pids \ {q} : Quieto(p)
        PROVE  Ciclo!Next \/ [p \in Pids |-> Estado(p)]' = [p \in Pids |-> Estado(p)]
    BY <2>3, MueveEstado, QuietoEstado, MudanzaCiclo
  <2>4. QED
    BY <2>1, <2>2, <2>3 DEF PasoDePcb
<1>3. UnLugarInv /\ UnLugarInv' /\ [Next]_vars => [Ciclo!Next]_([p \in Pids |-> Estado(p)])
  BY <1>2
<1>4. QED
  BY <1>1, <1>3, UnLugarInit, UnLugarPaso, PTL DEF Spec, CicloDeVidaCumplido, Ciclo!Spec

-----------------------------------------------------------------------------
(* Resources: the counter of each and its semaphore, the managers that are *)
(* woken for a process that waits, and the instances.                      *)

(* What the eviction thread found when it granted an instance is still so  *)
(* when it takes the semaphore: it is the only thread that enqueues.       *)
NadieEspera == desalojo.pc = "confirma" => cola_block[desalojo.recurso] = <<>>

GestoresVivos == \A r \in Recursos : gestor[r].pc # "muerto"

RecursosInv == /\ TipoInv
               /\ SemInstanciasCoherente /\ BlockCoherente
               /\ NadieEspera /\ GestoresVivos

(* The types the steps below need.                                         *)
LEMMA Tipos ==
  ASSUME TipoInv
  PROVE  /\ cola_block \in [Recursos -> Seq(Pids)]
         /\ sem_block \in [Recursos -> Nat] /\ sem_instancias \in [Recursos -> Nat]
         /\ instancias \in [Recursos -> Nat]
         /\ recs_asoc \in [Pids -> [Recursos -> Nat]]
         /\ desalojo \in [pc : Pc.desalojo, pid : Pids \cup {NADIE},
                          recurso : NombresMsg]
         /\ gestor \in [Recursos -> [pc : Pc.gestor, pid : Pids \cup {NADIE}]]
         /\ DesalojoEnMano
  BY DEF TipoInv, TypeOK, TipoColas, TipoRecursos, TipoManejadores, EnMano

(* A manager that is about to look at its queue finds a process in it and  *)
(* an instance free; the eviction thread does not block.                   *)
LEMMA Fundamento == RecursosInv => GestorConFundamento
<1> SUFFICES ASSUME RecursosInv PROVE GestorConFundamento
  OBVIOUS
<1> USE Tipos DEF RecursosInv
<1>1. ASSUME NEW r \in Recursos, gestor[r].pc = "asigna"
      PROVE  cola_block[r] # <<>> /\ instancias[r] > 0
  <2>1. /\ cola_block[r] \in Seq(Pids) /\ sem_block[r] \in Nat
        /\ instancias[r] \in Nat /\ sem_instancias[r] \in Nat
    OBVIOUS
  <2>2. Len(cola_block[r]) > 0
    <3>1. Len(cola_block[r]) >= sem_block[r] + 1
                                + Uno(desalojo.pc = "avisa" /\ desalojo.recurso = r)
      BY <1>1 DEF BlockCoherente, Uno
    <3>2. Uno(desalojo.pc = "avisa" /\ desalojo.recurso = r) \in {0, 1}
      BY DEF Uno
    <3>3. QED
      BY <2>1, <3>1, <3>2
  <2>3. cola_block[r] # <<>>
    BY <2>1, <2>2
  <2>4. ~(desalojo.pc = "confirma" /\ desalojo.recurso = r)
    BY <2>3 DEF NadieEspera
  <2>5. instancias[r] = sem_instancias[r] + 1
    BY <1>1, <2>1, <2>4 DEF SemInstanciasCoherente, Uno
  <2>6. QED
    BY <2>1, <2>3, <2>5
<1>2. ASSUME desalojo.pc = "confirma"
      PROVE  sem_instancias[desalojo.recurso] > 0
  <2> DEFINE r == desalojo.recurso
  <2>1. r \in Recursos /\ cola_block[r] = <<>>
    BY <1>2 DEF DesalojoEnMano, NadieEspera
  <2>2. gestor[r].pc # "asigna"
    BY <1>1, <2>1
  <2>3. instancias[r] + 1 = sem_instancias[r]
    BY <1>2, <2>1, <2>2 DEF SemInstanciasCoherente, Uno
  <2>4. QED
    BY <2>1, <2>3
<1>3. QED
  BY <1>1, <1>2 DEF GestorConFundamento, GestoresVivos

(* The strengthened invariant is inductive.                                *)
LEMMA RecursosInit == Init => RecursosInv
<1> SUFFICES ASSUME Init PROVE RecursosInv
  OBVIOUS
<1>1. /\ instancias = INSTANCIAS_RECURSOS /\ sem_instancias = INSTANCIAS_RECURSOS
      /\ cola_block = [r \in Recursos |-> <<>>]
      /\ sem_block = [r \in Recursos |-> 0]
      /\ desalojo.pc = "espera"
      /\ \A r \in Recursos : gestor[r].pc = "espera"
  BY DEF Init
<1>2. SemInstanciasCoherente
  BY <1>1 DEF SemInstanciasCoherente, Uno
<1>3. BlockCoherente
  BY <1>1 DEF BlockCoherente, Uno
<1>4. NadieEspera /\ GestoresVivos
  BY <1>1 DEF NadieEspera, GestoresVivos
<1>5. QED
  BY <1>2, <1>3, <1>4, TipoInit DEF RecursosInv

(* The steps of the other threads.                                         *)
LEMMA RecursosAjenos ==
  ASSUME RecursosInv, TipoInv',
         UNCHANGED <<cola_block, recursos, desalojo, gestor>>
  PROVE  RecursosInv'
<1>1. SemInstanciasCoherente' /\ BlockCoherente'
  BY DEF RecursosInv, SemInstanciasCoherente, BlockCoherente, recursos
<1>2. NadieEspera' /\ GestoresVivos'
  BY DEF RecursosInv, NadieEspera, GestoresVivos
<1>3. QED
  BY <1>1, <1>2 DEF RecursosInv

(* The steps of the manager of one resource.                               *)
LEMMA RecursosGestor ==
  ASSUME RecursosInv, TipoInv', NEW r \in Recursos, Gestor(r)
  PROVE  RecursosInv'
<1>1. desalojo' = desalojo
  BY DEF Gestor
<1> USE Tipos DEF RecursosInv
<1>2. /\ cola_block[r] \in Seq(Pids) /\ sem_block[r] \in Nat
      /\ instancias[r] \in Nat /\ sem_instancias[r] \in Nat
  OBVIOUS
<1>3. \A q \in Recursos \ {r} :
        /\ cola_block'[q] = cola_block[q] /\ sem_block'[q] = sem_block[q]
        /\ instancias'[q] = instancias[q]
        /\ sem_instancias'[q] = sem_instancias[q]
        /\ gestor'[q] = gestor[q]
  BY DEF Gestor, GestorEsperaBlock, GestorEsperaInstancia, GestorAsigna,
         GestorSaca, GestorIngresa, GestorAvisa, IrGestor, recursos
<1> DEFINE Conf == Uno(desalojo.pc = "confirma" /\ desalojo.recurso = r)
           Avis == Uno(desalojo.pc = "avisa" /\ desalojo.recurso = r)
           Asig == Uno(gestor[r].pc = "asigna")
           Toma == Uno(gestor[r].pc \in {"instancia", "asigna", "saca"})
<1>4. /\ instancias[r] + Conf = sem_instancias[r] + Asig
      /\ Len(cola_block[r]) >= sem_block[r] + Toma + Avis
      /\ gestor[r].pc # "muerto"
  BY DEF SemInstanciasCoherente, BlockCoherente, GestoresVivos
<1>5. SUFFICES
        /\ instancias'[r] + Conf = sem_instancias'[r] + Asig'
        /\ Len(cola_block'[r]) >= sem_block'[r] + Toma' + Avis
        /\ gestor'[r].pc # "muerto"
        /\ cola_block[r] = <<>> => cola_block'[r] = <<>>
  <2>1. SemInstanciasCoherente'
    <3>1. SUFFICES ASSUME NEW q \in Recursos
                   PROVE  instancias'[q] + Uno(desalojo.pc = "confirma" /\ desalojo.recurso = q)'
                            = sem_instancias'[q] + Uno(gestor[q].pc = "asigna")'
      BY DEF SemInstanciasCoherente
    <3>2. CASE q = r
      BY <1>1, <1>5, <3>2
    <3>3. CASE q # r
      BY <1>1, <1>3, <3>3 DEF SemInstanciasCoherente
    <3>4. QED
      BY <3>2, <3>3
  <2>2. BlockCoherente'
    BY <1>1, <1>3, <1>5 DEF BlockCoherente
  <2>3. NadieEspera' /\ GestoresVivos'
    BY <1>1, <1>3, <1>5 DEF NadieEspera, GestoresVivos, DesalojoEnMano
  <2>4. QED
    BY <2>1, <2>2, <2>3
<1> USE <1>2, <1>4 DEF Uno, IrGestor
<1>6. CASE GestorEsperaBlock(r)
  BY <1>6 DEF GestorEsperaBlock
<1>7. CASE GestorEsperaInstancia(r)
  BY <1>7 DEF GestorEsperaInstancia
<1>8. CASE GestorAsigna(r)
  <2>1. cola_block[r] # <<>> /\ instancias[r] > 0
    BY <1>8, Fundamento DEF GestorAsigna, GestorConFundamento
  <2>2. QED
    BY <1>8, <2>1 DEF GestorAsigna
<1>9. CASE GestorSaca(r)
  <2>1. cola_block[r] # <<>> /\ Len(cola_block[r]) > 0
    BY <1>9 DEF GestorSaca
  <2>2. Len(Tail(cola_block[r])) = Len(cola_block[r]) - 1
    BY <2>1
  <2>3. QED
    BY <1>9, <2>1, <2>2 DEF GestorSaca, recursos
<1>10. CASE GestorIngresa(r)
  BY <1>10 DEF GestorIngresa, recursos
<1>11. CASE GestorAvisa(r)
  BY <1>11 DEF GestorAvisa, recursos
<1>12. QED
  BY <1>6, <1>7, <1>8, <1>9, <1>10, <1>11 DEF Gestor

(* The steps of the eviction thread.                                       *)
LEMMA RecursosDesalojo ==
  ASSUME RecursosInv, TipoInv', Desalojo
  PROVE  RecursosInv'
<1>1. gestor' = gestor
  BY DEF Desalojo
<1>2. GestoresVivos'
  BY <1>1 DEF RecursosInv, GestoresVivos
<1> DEFINE
      Conf(q) == Uno(desalojo.pc = "confirma" /\ desalojo.recurso = q)
      Avis(q) == Uno(desalojo.pc = "avisa" /\ desalojo.recurso = q)
      Asig(q) == Uno(gestor[q].pc = "asigna")
      Toma(q) == Uno(gestor[q].pc \in {"instancia", "asigna", "saca"})
      Inst(q) == instancias[q] + Conf(q) = sem_instancias[q] + Asig(q)
      Bloq(q) == Len(cola_block[q]) >= sem_block[q] + Toma(q) + Avis(q)
<1>3. ASSUME NEW q \in Recursos
      PROVE  /\ cola_block[q] \in Seq(Pids) /\ sem_block[q] \in Nat
             /\ instancias[q] \in Nat /\ sem_instancias[q] \in Nat
             /\ Asig(q) \in {0, 1} /\ Toma(q) \in {0, 1}
             /\ Inst(q) /\ Bloq(q)
  BY Tipos, <1>3 DEF RecursosInv, SemInstanciasCoherente, BlockCoherente, Uno
<1>4. SUFFICES /\ \A q \in Recursos : Inst(q)' /\ Bloq(q)'
               /\ NadieEspera'
  BY <1>2 DEF RecursosInv, SemInstanciasCoherente, BlockCoherente
<1>5. \A q \in Recursos : Asig(q)' = Asig(q) /\ Toma(q)' = Toma(q)
  BY <1>1
<1> HIDE DEF Asig, Toma
<1> DEFINE r == desalojo.recurso
<1>6. desalojo \in [pc : Pc.desalojo, pid : Pids \cup {NADIE}, recurso : NombresMsg]
  BY Tipos DEF RecursosInv
<1>7. ASSUME UNCHANGED <<cola_block, sem_block, sem_instancias, instancias>>,
             desalojo.pc \notin {"confirma", "avisa"},
             desalojo'.pc \notin {"confirma", "avisa"}
      PROVE  (\A q \in Recursos : Inst(q)' /\ Bloq(q)') /\ NadieEspera'
  BY <1>3, <1>5, <1>7 DEF NadieEspera, Uno
<1>8. CASE RecibirMotivo
  <2>1. Head(motivos) \in Motivo
    BY <1>8 DEF RecibirMotivo, RecursosInv, TipoInv, TypeOK, TipoProcesador
  <2>2. desalojo'.pc \in {"exit", "wait", "signal"}
    BY <1>8, <2>1 DEF RecibirMotivo, Motivo, Motivos
  <2>3. QED
    BY <1>7, <1>8, <2>2 DEF RecibirMotivo, recursos
<1>9. CASE ManejarWaitSignal
  <2> USE <1>6 DEF IrDesalojo
  <2>1. CASE WaitInvalido
    BY <1>7, <2>1 DEF WaitInvalido, recursos
  <2>2. CASE WaitSinInstancias
    BY <1>7, <2>2 DEF WaitSinInstancias, recursos
  <2>3. CASE SignalInvalido
    BY <1>7, <2>3 DEF SignalInvalido, recursos
  <2>4. CASE WaitAsigna
    <3>1. /\ r \in Recursos /\ cola_block[r] = <<>> /\ instancias[r] > 0
          /\ instancias' = [instancias EXCEPT ![r] = @ - 1]
          /\ UNCHANGED <<cola_block, sem_block, sem_instancias>>
          /\ desalojo.pc = "wait" /\ desalojo'.pc = "confirma"
          /\ desalojo'.recurso = r
      BY <2>4 DEF WaitAsigna
    <3>2. instancias'[r] = instancias[r] - 1
      BY <3>1, Tipos DEF RecursosInv
    <3>3. \A q \in Recursos \ {r} : instancias'[q] = instancias[q]
      BY <3>1, Tipos DEF RecursosInv
    <3>4. \A q \in Recursos : Inst(q)'
      BY <1>3, <1>5, <3>1, <3>2, <3>3 DEF Uno
    <3>5. QED
      BY <1>3, <1>5, <3>1, <3>4 DEF NadieEspera, Uno
  <2>5. CASE WaitConfirma
    <3>1. /\ sem_instancias' = [sem_instancias EXCEPT ![r] = @ - 1]
          /\ UNCHANGED <<cola_block, sem_block, instancias>>
          /\ desalojo.pc = "confirma" /\ desalojo'.pc = "fin"
      BY <2>5 DEF WaitConfirma
    <3>2. r \in Recursos => sem_instancias'[r] = sem_instancias[r] - 1
      BY <3>1, Tipos DEF RecursosInv
    <3>3. \A q \in Recursos \ {r} : sem_instancias'[q] = sem_instancias[q]
      BY <3>1, Tipos DEF RecursosInv
    <3>4. \A q \in Recursos : Inst(q)'
      BY <1>3, <1>5, <3>1, <3>2, <3>3 DEF Uno
    <3>5. QED
      BY <1>3, <1>5, <3>1, <3>4 DEF NadieEspera, Uno
  <2>6. CASE WaitBloquea
    <3>1. /\ cola_block' = [cola_block EXCEPT ![r] = Append(@, desalojo.pid)]
          /\ UNCHANGED <<sem_block, sem_instancias, instancias>>
          /\ desalojo.pc = "bloquea" /\ desalojo'.pc = "avisa"
          /\ desalojo'.recurso = r /\ r \in Recursos
      BY <2>6, Tipos DEF WaitBloquea, recursos, RecursosInv, DesalojoEnMano
    <3>2. Len(cola_block'[r]) = Len(cola_block[r]) + 1
      BY <3>1, Tipos DEF RecursosInv
    <3>3. \A q \in Recursos \ {r} : cola_block'[q] = cola_block[q]
      BY <3>1, Tipos DEF RecursosInv
    <3>4. \A q \in Recursos : Bloq(q)'
      BY <1>3, <1>5, <3>1, <3>2, <3>3 DEF Uno
    <3>5. QED
      BY <1>3, <1>5, <3>1, <3>4 DEF NadieEspera, Uno
  <2>7. CASE WaitAvisa
    <3>1. /\ sem_block' = [sem_block EXCEPT ![r] = SignalBin(@)]
          /\ UNCHANGED <<cola_block, sem_instancias, instancias>>
          /\ desalojo.pc = "avisa" /\ desalojo'.pc = "fin"
      BY <2>7 DEF WaitAvisa
    <3>2. r \in Recursos => sem_block'[r] =< sem_block[r] + 1 /\ sem_block'[r] \in Nat
      BY <3>1, Tipos DEF RecursosInv, SignalBin
    <3>3. \A q \in Recursos \ {r} : sem_block'[q] = sem_block[q]
      BY <3>1, Tipos DEF RecursosInv
    <3>4. \A q \in Recursos : Bloq(q)'
      BY <1>3, <1>5, <3>1, <3>2, <3>3 DEF Uno
    <3>5. QED
      BY <1>3, <1>5, <3>1, <3>4 DEF NadieEspera, Uno
  <2>8. CASE ManejarSignal
    <3>1. /\ r \in Recursos
          /\ instancias' = [instancias EXCEPT ![r] = @ + 1]
          /\ sem_instancias' = [sem_instancias EXCEPT ![r] = @ + 1]
          /\ UNCHANGED <<cola_block, sem_block>>
          /\ desalojo.pc = "signal" /\ desalojo'.pc = "fin"
      BY <2>8 DEF ManejarSignal
    <3>2. /\ instancias'[r] = instancias[r] + 1
          /\ sem_instancias'[r] = sem_instancias[r] + 1
      BY <3>1, Tipos DEF RecursosInv
    <3>3. \A q \in Recursos \ {r} : /\ instancias'[q] = instancias[q]
                                    /\ sem_instancias'[q] = sem_instancias[q]
      BY <3>1, Tipos DEF RecursosInv
    <3>4. \A q \in Recursos : Inst(q)'
      BY <1>3, <1>5, <3>1, <3>2, <3>3 DEF Uno
    <3>5. QED
      BY <1>3, <1>5, <3>1, <3>4 DEF NadieEspera, Uno
  <2>9. QED
    BY <1>9, <2>1, <2>2, <2>3, <2>4, <2>5, <2>6, <2>7, <2>8
       DEF ManejarWaitSignal
<1>10. CASE ManejarExit
  <2> USE <1>6 DEF IrDesalojo
  <2>1. UNCHANGED cola_block
    BY <1>10 DEF ManejarExit
  <2>2. CASE ExitLibera
    <3>1. /\ UNCHANGED sem_block
          /\ desalojo.pc = "exit" /\ desalojo'.pc = "exit_recibe"
          /\ desalojo.pid \in Pids
      BY <2>2, Tipos DEF ExitLibera, RecursosInv, DesalojoEnMano, Pc
    <3> DEFINE suyos == recs_asoc[desalojo.pid]
    <3>2. \A q \in Recursos : /\ suyos[q] \in Nat
                              /\ instancias'[q] = instancias[q] + suyos[q]
                              /\ sem_instancias'[q] = sem_instancias[q] + suyos[q]
      BY <2>2, <3>1, Tipos DEF ExitLibera, RecursosInv
    <3> HIDE DEF suyos
    <3>3. ASSUME NEW q \in Recursos PROVE Inst(q)'
      <4>1. Conf(q) = 0 /\ Conf(q)' = 0
        BY <3>1 DEF Uno
      <4>2. /\ instancias[q] \in Nat /\ sem_instancias[q] \in Nat
            /\ Asig(q) \in {0, 1} /\ Asig(q)' = Asig(q)
            /\ instancias[q] + Conf(q) = sem_instancias[q] + Asig(q)
        BY <1>3, <1>5
      <4>3. QED
        BY <3>2, <4>1, <4>2
    <3>4. QED
      BY <1>3, <1>5, <2>1, <3>1, <3>3 DEF NadieEspera, Uno
  <2>3. CASE ExitConfirma
    BY <1>7, <2>1, <2>3 DEF ExitConfirma, recursos
  <2>4. CASE AbortarPorDobleFree
    BY <1>7, <2>1, <2>4 DEF AbortarPorDobleFree, recursos
  <2>5. CASE FinDesalojo
    BY <1>7, <2>1, <2>5 DEF FinDesalojo, recursos
  <2>6. QED
    BY <1>10, <2>2, <2>3, <2>4, <2>5 DEF ManejarExit
<1>11. QED
  BY <1>8, <1>9, <1>10 DEF Desalojo

(* Every step.                                                             *)
LEMMA RecursosPaso == RecursosInv /\ [Next]_vars => RecursosInv'
<1> SUFFICES ASSUME RecursosInv, [Next]_vars PROVE RecursosInv'
  OBVIOUS
<1>1. TipoInv'
  BY TipoPaso DEF RecursosInv
<1>2. CASE \E h \in Hilos : Orden(h) \/ Consola(h)
  BY <1>1, <1>2, RecursosAjenos DEF Orden, Consola
<1>3. CASE HiloMultiprogramacion \/ ConectarInterfaz
  BY <1>1, <1>3, RecursosAjenos DEF HiloMultiprogramacion, ConectarInterfaz
<1>4. CASE PlanificadorLargo \/ PlanificadorCorto
  BY <1>1, <1>4, RecursosAjenos DEF PlanificadorLargo, PlanificadorCorto
<1>5. CASE AtenderKernel \/ Cpu
  BY <1>1, <1>5, RecursosAjenos DEF AtenderKernel, Cpu
<1>6. CASE Desalojo
  BY <1>1, <1>6, RecursosDesalojo
<1>7. CASE \E r \in Recursos : Gestor(r)
  BY <1>1, <1>7, RecursosGestor
<1>8. CASE UNCHANGED vars
  BY <1>1, <1>8, RecursosAjenos DEF vars
<1>9. QED
  BY <1>2, <1>3, <1>4, <1>5, <1>6, <1>7, <1>8 DEF Next

(* The strengthened invariant holds always.                                *)
LEMMA RecursosInvariante == Spec => []RecursosInv
  BY RecursosInit, RecursosPaso, PTL DEF Spec

(* The counter of a resource and its semaphore differ by exactly the steps *)
(* under way; every wake-up a manager has been given and not yet served    *)
(* has its own process in the queue; so no manager thread ever returns or  *)
(* looks in vain, and the eviction thread never blocks in esperar_recurso  *)
(* once instancias_disp has said yes.                                      *)
THEOREM RecursosSiempreCoherentes == Spec => []RecursosCoherentes
<1>1. RecursosInv => SemInstanciasCoherente /\ BlockCoherente
  BY DEF RecursosInv
<1>2. QED
  BY <1>1, Fundamento, RecursosInvariante, PTL DEF RecursosCoherentes

-----------------------------------------------------------------------------
(* No instance is lost or made up.                                         *)
LEMMA SumaHastaVale ==
  ASSUME NEW r \in Recursos
  PROVE  EsSuma(SumaHasta(r), [p \in Pids |-> recs_asoc[p][r]], MAX_PID)
<1> DEFINE f == [p \in Pids |-> recs_asoc[p][r]]
           Vale(s) == s = [n \in 0 .. MAX_PID |-> IF n = 0 THEN 0 ELSE s[n - 1] + recs_asoc[n][r]]
<1>1. ASSUME NEW s
      PROVE  EsSuma(s, f, MAX_PID) <=> Vale(s)
  <2>1. \A n \in 0 .. MAX_PID : (IF n = 0 THEN 0 ELSE s[n - 1] + f[n])
                                  = (IF n = 0 THEN 0 ELSE s[n - 1] + recs_asoc[n][r])
    BY ConstantesAssumption DEF Pids
  <2>2. [n \in 0 .. MAX_PID |-> IF n = 0 THEN 0 ELSE s[n - 1] + f[n]]
          = [n \in 0 .. MAX_PID |-> IF n = 0 THEN 0 ELSE s[n - 1] + recs_asoc[n][r]]
    BY <2>1
  <2>3. QED
    BY <2>2 DEF EsSuma
<1>2. \E s : Vale(s)
  BY <1>1, SumaExiste, ConstantesAssumption
<1>3. SumaHasta(r) = CHOOSE s : Vale(s)
  BY DEF SumaHasta
<1>4. Vale(SumaHasta(r))
  <2> HIDE DEF Vale
  <2>1. QED
    BY <1>2, <1>3
<1>5. QED
  BY <1>1, <1>4

LEMMA SumaHastaValePrima ==
  ASSUME NEW r \in Recursos
  PROVE  EsSuma(SumaHasta(r), [p \in Pids |-> recs_asoc[p][r]], MAX_PID)'
<1>1. EsSuma(SumaHasta(r), [p \in Pids |-> recs_asoc[p][r]], MAX_PID)
  BY SumaHastaVale
<1>2. QED
  BY <1>1, PTL

(* What changes hands between the counter and one process, for every       *)
(* resource.                                                               *)
LEMMA Traspaso ==
  ASSUME TipoInv, TipoInv', InstanciasConservadas, NEW p \in Pids,
         \A q \in Pids \ {p} : recs_asoc'[q] = recs_asoc[q],
         \A r \in Recursos : instancias'[r] + recs_asoc'[p][r] = instancias[r] + recs_asoc[p][r]
  PROVE  InstanciasConservadas'
<1> SUFFICES ASSUME NEW r \in Recursos
             PROVE  instancias'[r] + SumaHasta(r)'[MAX_PID] = INSTANCIAS_RECURSOS[r]
  BY DEF InstanciasConservadas
<1>1. /\ instancias \in [Recursos -> Nat] /\ instancias' \in [Recursos -> Nat]
      /\ recs_asoc \in [Pids -> [Recursos -> Nat]] /\ recs_asoc' \in [Pids -> [Recursos -> Nat]]
  BY DEF TipoInv, TypeOK, TipoRecursos
<1> DEFINE f == [q \in Pids |-> recs_asoc[q][r]]
           g == [q \in Pids |-> recs_asoc'[q][r]]
<1>2. EsSuma(SumaHasta(r), f, MAX_PID) /\ EsSuma(SumaHasta(r)', g, MAX_PID)
  BY SumaHastaVale, SumaHastaValePrima
<1>3. \A n \in 1 .. MAX_PID : f[n] \in Nat /\ g[n] \in Nat
  BY <1>1 DEF Pids
<1>4. \A q \in (1 .. MAX_PID) \ {p} : g[q] = f[q]
  BY DEF Pids
<1>5. PICK s, t : s = SumaHasta(r) /\ t = SumaHasta(r)'
  OBVIOUS
<1>6. s[MAX_PID] \in Int /\ t[MAX_PID] = s[MAX_PID] - f[p] + g[p]
  <2> HIDE DEF f, g
  <2>1. PICK F, G, N : F = f /\ G = g /\ N = MAX_PID
    OBVIOUS
  <2>2. EsSuma(s, F, N) /\ EsSuma(t, G, N) /\ p \in 1 .. N /\ N \in Nat
    BY <1>2, <1>5, <2>1, ConstantesAssumption DEF Pids
  <2>3. \A n \in 1 .. N : F[n] \in Nat /\ G[n] \in Nat
    BY <1>3, <1>4, <2>1
  <2>6. \A q \in (1 .. N) \ {p} : G[q] = F[q]
    BY <1>3, <1>4, <2>1
  <2>4. s[N] \in Int /\ t[N] = s[N] - F[p] + G[p]
    BY ONLY <2>2, <2>3, <2>6, SumaCambia
  <2>5. QED
    BY <2>1, <2>4
<1>7. f[p] = recs_asoc[p][r] /\ g[p] = recs_asoc'[p][r]
  OBVIOUS
<1>8. PICK a, b, c, d \in Nat, e \in Int : /\ a = instancias[r] /\ b = instancias'[r] /\ c = f[p] /\ d = g[p]
                                           /\ e = s[MAX_PID]
  BY <1>1, <1>6, <1>7
<1>9. b + d = a + c
  BY <1>7, <1>8
<1>10. a + e = INSTANCIAS_RECURSOS[r] /\ t[MAX_PID] = e - c + d
  BY <1>5, <1>6, <1>8 DEF InstanciasConservadas
<1>11. b + (e - c + d) = a + e
  BY <1>9
<1>12. QED
  BY <1>5, <1>8, <1>10, <1>11

LEMMA InstanciasIgual ==
  ASSUME InstanciasConservadas, UNCHANGED <<instancias, recs_asoc>>
  PROVE  InstanciasConservadas'
BY DEF InstanciasConservadas, SumaHasta

LEMMA InstanciasPaso ==
  ASSUME TipoInv, TipoInv', InstanciasConservadas, [Next]_vars
  PROVE  InstanciasConservadas'
<1>0. /\ instancias \in [Recursos -> Nat] /\ recs_asoc \in [Pids -> [Recursos -> Nat]]
      /\ cola_block \in [Recursos -> Seq(Pids)]
  BY Tipos
<1>1. CASE Desalojo /\ (WaitAsigna \/ ManejarSignal \/ ExitLibera)
  <2>1. desalojo.pid \in Pids
    BY <1>1 DEF WaitAsigna, ManejarSignal, ExitLibera, TipoInv, EnMano, DesalojoEnMano, Pc
  <2>2. PICK p \in Pids : p = desalojo.pid
    BY <2>1
  <2>3. \A q \in Pids \ {p} : recs_asoc'[q] = recs_asoc[q]
    BY <1>0, <1>1, <2>2 DEF WaitAsigna, ManejarSignal, ExitLibera
  <2>4. ASSUME NEW r \in Recursos
        PROVE  instancias'[r] + recs_asoc'[p][r] = instancias[r] + recs_asoc[p][r]
    <3>1. PICK a, b \in Nat : a = instancias[r] /\ b = recs_asoc[p][r]
      BY <1>0
    <3>2. CASE WaitAsigna
      <4>1. CASE r = desalojo.recurso
        <5>1. instancias'[r] = a - 1 /\ recs_asoc'[p][r] = b + 1
          BY <1>0, <2>2, <3>1, <3>2, <4>1 DEF WaitAsigna
        <5>2. QED
          BY <3>1, <5>1
      <4>2. CASE r # desalojo.recurso
        BY <1>0, <2>2, <3>2, <4>2 DEF WaitAsigna
      <4>3. QED
        BY <4>1, <4>2
    <3>3. CASE ManejarSignal
      <4>1. CASE r = desalojo.recurso
        <5>1. instancias'[r] = a + 1 /\ recs_asoc'[p][r] = b - 1
          BY <1>0, <2>2, <3>1, <3>3, <4>1 DEF ManejarSignal
        <5>2. QED
          BY <3>1, <5>1
      <4>2. CASE r # desalojo.recurso
        BY <1>0, <2>2, <3>3, <4>2 DEF ManejarSignal
      <4>3. QED
        BY <4>1, <4>2
    <3>4. CASE ExitLibera
      <4>1. instancias'[r] = a + b /\ recs_asoc'[p][r] = 0
        BY <1>0, <2>2, <3>1, <3>4 DEF ExitLibera
      <4>2. QED
        BY <3>1, <4>1
    <3>5. QED
      BY <1>1, <3>2, <3>3, <3>4
  <2>5. QED
    BY <2>3, <2>4, Traspaso
<1>2. ASSUME NEW r \in Recursos, GestorAsigna(r), cola_block[r] # <<>>, instancias[r] > 0
      PROVE  InstanciasConservadas'
  <2>1. PICK p \in Pids : p = Head(cola_block[r])
    BY <1>0, <1>2, HeadTailProperties
  <2>2. /\ instancias' = [instancias EXCEPT ![r] = @ - 1]
        /\ recs_asoc' = [recs_asoc EXCEPT ![p][r] = @ + 1]
    BY <1>2, <2>1 DEF GestorAsigna
  <2>3. \A q \in Pids \ {p} : recs_asoc'[q] = recs_asoc[q]
    BY <1>0, <2>2
  <2>4. ASSUME NEW s \in Recursos
        PROVE  instancias'[s] + recs_asoc'[p][s] = instancias[s] + recs_asoc[p][s]
    <3>1. PICK a, b \in Nat : a = instancias[s] /\ b = recs_asoc[p][s]
      BY <1>0
    <3>2. CASE s = r
      <4>1. instancias'[s] = a - 1 /\ recs_asoc'[p][s] = b + 1
        BY <1>0, <2>2, <3>1, <3>2
      <4>2. QED
        BY <3>1, <4>1
    <3>3. CASE s # r
      BY <1>0, <2>2, <3>3
    <3>4. QED
      BY <3>2, <3>3
  <2>5. QED
    BY <2>3, <2>4, Traspaso
<1>3. CASE \/ UNCHANGED vars \/ (\E h \in Hilos : Orden(h) \/ Consola(h)) \/ HiloMultiprogramacion
           \/ ConectarInterfaz \/ PlanificadorLargo \/ PlanificadorCorto \/ AtenderKernel \/ Cpu
  <2>1. UNCHANGED <<instancias, recs_asoc>>
    BY <1>3 DEF vars, recursos, Orden, Consola, HiloMultiprogramacion, ConectarInterfaz, PlanificadorLargo, PlanificadorCorto,
       AtenderKernel, Cpu
  <2>2. QED
    BY <2>1, InstanciasIgual
<1>4. CASE Desalojo /\ ~(WaitAsigna \/ ManejarSignal \/ ExitLibera)
  <2>1. UNCHANGED <<instancias, recs_asoc>>
    BY <1>4 DEF recursos, Desalojo, RecibirMotivo, ManejarWaitSignal, ManejarExit, WaitInvalido, WaitConfirma,
       WaitSinInstancias, WaitBloquea, WaitAvisa, SignalInvalido, ExitConfirma, AbortarPorDobleFree, FinDesalojo
  <2>2. QED
    BY <2>1, InstanciasIgual
<1>5. ASSUME NEW r \in Recursos, Gestor(r), ~(GestorAsigna(r) /\ cola_block[r] # <<>> /\ instancias[r] > 0)
      PROVE  InstanciasConservadas'
  <2>1. UNCHANGED <<instancias, recs_asoc>>
    BY <1>5 DEF recursos, Gestor, GestorEsperaBlock, GestorEsperaInstancia, GestorAsigna, GestorSaca,
       GestorIngresa, GestorAvisa
  <2>2. QED
    BY <2>1, InstanciasIgual
<1>6. QED
  BY <1>1, <1>2, <1>3, <1>4, <1>5 DEF Next

LEMMA InstanciasInit == Init => InstanciasConservadas
<1> SUFFICES ASSUME Init, NEW r \in Recursos
             PROVE  instancias[r] + SumaHasta(r)[MAX_PID] = INSTANCIAS_RECURSOS[r]
  BY DEF InstanciasConservadas
<1> DEFINE f == [p \in Pids |-> recs_asoc[p][r]]
<1>1. \A n \in 1 .. MAX_PID : f[n] = 0
  BY DEF Init, Pids
<1>2. EsSuma(SumaHasta(r), f, MAX_PID)
  BY SumaHastaVale
<1>3. PICK s : s = SumaHasta(r)
  OBVIOUS
<1>4. s[MAX_PID] = 0
  <2> HIDE DEF f
  <2>1. MAX_PID \in Nat
    BY ConstantesAssumption
  <2>2. QED
    BY <1>1, <1>2, <1>3, <2>1, SumaDeCeros
<1>5. instancias[r] = INSTANCIAS_RECURSOS[r] /\ INSTANCIAS_RECURSOS[r] \in Nat
  BY ConstantesAssumption DEF Init
<1>6. QED
  BY <1>3, <1>4, <1>5

(* For every configuration: what is free of a resource and what the        *)
(* processes hold of it is what the configuration file gave, through       *)
(* grants by two threads, SIGNAL and the release of manejar_exit.          *)
THEOREM InstanciasSiempre == Spec => []InstanciasConservadas
<1>1. TipoInv /\ InstanciasConservadas /\ [Next]_vars => TipoInv' /\ InstanciasConservadas'
  BY TipoPaso, InstanciasPaso
<1>2. Init => TipoInv /\ InstanciasConservadas
  BY TipoInit, InstanciasInit
<1>3. QED
  BY <1>1, <1>2, PTL DEF Spec

=============================================================================
