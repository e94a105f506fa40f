---------------------- MODULE PropiedadesPlanificacion ----------------------
(***************************************************************************)
(* What has to be true of the scheduler modelled in Planificacion.         *)
(***************************************************************************)
EXTENDS Planificacion

(* Types of every variable.                                                *)
TipoColas == /\ cola_new \in Seq(Pids) /\ cola_ready \in Seq(Pids)
             /\ cola_block \in [Recursos -> Seq(Pids)]

TipoRecursos == /\ sem_block \in [Recursos -> Nat]
                /\ sem_instancias \in [Recursos -> Nat]
                /\ instancias \in [Recursos -> Nat]
                /\ recs_asoc \in [Pids -> [Recursos -> Nat]]

TipoConsola == /\ hilo \in [Hilos -> [pc : Pc.hilo, arg : Nat, lineas : Nat]]
               /\ lastPID \in 0 .. MAX_PID
               /\ result \in {OK, ERROR}
               /\ GRADO \in Nat /\ bajando \in Nat
               /\ PLANIFICACION \in BOOLEAN
               /\ retenidos \subseteq {"new", "ready"}
               /\ block_retenidos \subseteq Recursos
               /\ faltan \in [Hilos -> SUBSET Recursos]

TipoPlanificadores == /\ largo \in [pc : Pc.largo, pid : Pids \cup {NADIE}]
                      /\ corto \in Pc.corto

TipoManejadores ==
  /\ desalojo \in [pc : Pc.desalojo, pid : Pids \cup {NADIE},
                   recurso : NombresMsg]
  /\ gestor \in [Recursos -> [pc : Pc.gestor, pid : Pids \cup {NADIE}]]

TipoConexion == /\ pedidos \in Seq(Pedido) /\ respuestas \in Seq(Respuesta)
                /\ memoria \subseteq Pids

TipoProcesador == /\ despacho \in Seq(Pids) /\ motivos \in Seq(Motivo)
                  /\ cpu \in [pc : Pc.cpu, pid : Pids \cup {NADIE}]
                  /\ pasos \in [Pids -> Nat]

TypeOK == /\ kernel \in {"activo", "abortado"}
          /\ sem \in [Semaforos -> Nat]
          /\ TipoColas /\ TipoRecursos /\ TipoConsola /\ TipoPlanificadores
          /\ TipoManejadores /\ TipoConexion /\ TipoProcesador

Uno(b) == IF b THEN 1 ELSE 0

-----------------------------------------------------------------------------
(* Where a PCB can be.  A manager holds a PCB only once it has taken it    *)
(* out of the queue, the eviction thread until it has handed it on.        *)
Veces(p, cola) == Cardinality({i \in DOMAIN cola : cola[i] = p})

EnBlock(p) == UNION {{<<r, i>> : i \in {j \in DOMAIN cola_block[r] : cola_block[r][j] = p}} :
                     r \in Recursos}

PorMover(p)   == {r \in Recursos : gestor[r].pc = "ingresa" /\ gestor[r].pid = p}
PorNacer(p)   == {h \in Hilos : hilo[h].pc = "new" /\ hilo[h].arg = p}
EnDesalojo(p) == /\ desalojo.pid = p
                 /\ desalojo.pc \notin {"avisa", "fin"}

EnNew(p)  == Veces(p, cola_new) + Uno(largo.pid = p)
EnExec(p) == Veces(p, despacho) + Uno(cpu.pid = p) + Uno(EnDesalojo(p))
             + Cardinality({i \in DOMAIN motivos : motivos[i].pid = p})
Bloqueado(p) == Cardinality(EnBlock(p)) + Cardinality(PorMover(p))
Copias(p) == EnNew(p) + Veces(p, cola_ready) + EnExec(p) + Bloqueado(p)
             + Cardinality(PorNacer(p))

(* No step ever leaves a PCB in two queues, in a queue and in a socket, or *)
(* twice in one of them: each list_add follows the list_remove of the same *)
(* PCB, in whichever threads the two happen.                               *)
UnSoloLugar == \A p \in Pids : Copias(p) <= 1

(* One count for every READY process: the value of sem_corto_plazo plus    *)
(* the wake-ups in flight is the length of cola_ready.  It is why          *)
(* planificador_corto_plazo never gets a NULL PCB and ends the kernel.     *)
ReadyCoherente ==
  Len(cola_ready) = sem["sem_corto_plazo"] + Uno(corto = "toma")
                    + Uno(largo.pc = "lista")
                    + Cardinality({r \in Recursos : gestor[r].pc = "avisa"})

(* NEW holds at least one PCB for every count of sem_pcb_espera_ready and  *)
(* every creation that is not settled yet, so obtener_sgte_ready never     *)
(* removes from an empty list, whatever the order of the replies.          *)
Pendientes == {h \in Hilos : hilo[h].pc \in {"cupo", "recibe", "evalua", "descarta"}}

NewCoherente ==
  Len(cola_new) >= sem["sem_pcb_espera_ready"] + Uno(largo.pc = "toma")
                   + Cardinality(Pendientes)

-----------------------------------------------------------------------------
(* The counter of a resource and its semaphore change in different steps   *)
(* of two threads; they differ by exactly the steps under way.             *)
SemInstanciasCoherente ==
  \A r \in Recursos :
    instancias[r] + Uno(desalojo.pc = "confirma" /\ desalojo.recurso = r)
      = sem_instancias[r] + Uno(gestor[r].pc = "asigna")

SumaHasta(r) == LET s[n \in 0 .. MAX_PID] ==
                      IF n = 0 THEN 0 ELSE s[n - 1] + recs_asoc[n][r]
                IN  s

(* No instance of a resource is lost or made up: what is free and what     *)
(* the processes hold is what the configuration file gave.                 *)
InstanciasConservadas ==
  \A r \in Recursos : instancias[r] + SumaHasta(r)[MAX_PID] = INSTANCIAS_RECURSOS[r]

(* A manager that was woken finds the process it was woken for and the     *)
(* instance it was promised (else its thread returns and the resource is   *)
(* never granted again), and the eviction thread, which grants without     *)
(* waiting, never blocks on the counting semaphore afterwards.             *)
GestorConFundamento ==
  /\ \A r \in Recursos :
       /\ gestor[r].pc # "muerto"
       /\ gestor[r].pc = "asigna" => cola_block[r] # <<>> /\ instancias[r] > 0
  /\ desalojo.pc = "confirma" => sem_instancias[desalojo.recurso] > 0

(* The counts behind it: every token of a manager has its own process in   *)
(* the queue.                                                              *)
BlockCoherente ==
  \A r \in Recursos :
    Len(cola_block[r]) >= sem_block[r]
       + Uno(gestor[r].pc \in {"instancia", "asigna", "saca"})
       + Uno(desalojo.pc = "avisa" /\ desalojo.recurso = r)

(* The three together: what the eviction thread and the managers believe   *)
(* of a resource, without a lock across their steps, is never wrong.       *)
RecursosCoherentes ==
  SemInstanciasCoherente /\ GestorConFundamento /\ BlockCoherente

-----------------------------------------------------------------------------
(* The degree in force while a thread is between moving the semaphore and  *)
(* storing the new value.                                                  *)
GradoVigente == IF \E h \in Hilos : hilo[h].pc = "fija"
                THEN hilo[CHOOSE h \in Hilos : hilo[h].pc = "fija"].arg
                ELSE GRADO

OcupaCupo(p) == /\ Copias(p) > 0
                /\ \A h \in Hilos : hilo[h].pc \in {"new", "cupo"} => hilo[h].arg # p

(* Slots are neither lost nor duplicated: the free ones and those of the   *)
(* processes in the system are the degree, plus what is still to be taken  *)
(* back by the bajar_multiprogramacion threads.                            *)
CuposConservados ==
  sem["sem_multiprogramacion"] + Cardinality({p \in Pids : OcupaCupo(p)})
    = GradoVigente + bajando

(* A process reaches READY only after MEMORIA created its structures, and  *)
(* keeps them until its end, so the CPU never fetches in vain.             *)
ReadyConMemoria ==
  /\ cpu.pc # "colgada"
  /\ \A p \in Pids : Veces(p, cola_ready) + Veces(p, despacho) + Bloqueado(p) > 0
                       => p \in memoria

(* What a thread does to stop planning, and what it does to resume it      *)
(* until the flag is up.                                                   *)
Parando == {"para_corto", "para_largo", "para_new", "para_ready", "para_block"}
Abriendo == {"abre_new", "abre_ready", "abre_block"}

(* Planning is stopped or resumed by one thread at a time.                 *)
UnaParadaALaVez ==
  \A h, k \in Hilos :
    hilo[h].pc \in Parando \cup Abriendo /\ hilo[k].pc \in Parando \cup Abriendo
      => h = k

(* While planning is stopped no PCB enters or leaves a queue, although     *)
(* nothing but the mutexes, locked one by one, stops the threads that were *)
(* already past their gate, and the semaphores of the gates hold more      *)
(* posts than planners.  It is so while UnaParadaALaVez: a thread that     *)
(* found the flag down and is slow to unlock may unlock what another one   *)
(* has stopped since (parada_cruzada.cfg).                                 *)
ColasDetenidas ==
  [][~PLANIFICACION /\ (\A h \in Hilos : hilo[h].pc \notin Abriendo)
       => UNCHANGED <<cola_new, cola_ready, cola_block>>]_vars

(* The error exits of the kernel are unreachable: planificador_corto_plazo *)
(* always finds a PCB, planificador_largo_plazo never dereferences NULL,   *)
(* and MEMORIA always knows the process manejar_exit wants eliminated.     *)
(* What is left is the name manejar_signal frees for the second time.      *)
SoloAbortaPorDobleFree ==
  kernel = "abortado" => desalojo.pc = "fin" /\ desalojo.recurso = DobleFree

-----------------------------------------------------------------------------
(* The enum ESTADOS, from where the PCB is.                                *)
Estado(p) == CASE p > lastPID \/ PorNacer(p) # {} -> "..."
               [] EnNew(p) > 0                    -> "NEW"
               [] Veces(p, cola_ready) > 0        -> "READY"
               [] EnExec(p) > 0                   -> "EXEC"
               [] Bloqueado(p) > 0                -> "BLOCK"
               [] OTHER                           -> "EXIT"

Ciclo == INSTANCE CicloDeVida WITH estado <- [p \in Pids |-> Estado(p)]

(* Every process lives the life ESTADOS describes, one move at a time, and *)
(* no process comes back from EXIT.                                        *)
CicloDeVidaCumplido == Ciclo!Spec

-----------------------------------------------------------------------------
(* A kernel that has not died and a user who does not leave it stopped.    *)
Operativo == [](kernel = "activo") /\ <>[]PLANIFICACION

(* Every READY process is sent to the CPU.  It rests on the programs being *)
(* bounded (MAX_INSTR): fairness of the CPU then makes each one leave it,  *)
(* which nothing does with FIFO to a program that never ends.              *)
ReadyAtendido ==
  Operativo => \A p \in Pids : Estado(p) = "READY" ~> Estado(p) # "READY"

(* DETENER_PLANIFICACION always gets both planner semaphores and returns,  *)
(* however many times planning was stopped and resumed before: the extra   *)
(* posts of iniciar_planificacion pay for a planner waiting at its gate.   *)
DetenerTermina ==
  [](kernel = "activo") =>
    \A h \in Hilos : hilo[h].pc = "para_corto" ~> hilo[h].pc = "libre"

-----------------------------------------------------------------------------
(* What comments of the code say and the code does not do.                 *)

(* planificacion.c: "Esperamos a que el CPU termine de ejecutar el         *)
(* proceso": a process is dispatched only when no other one is.            *)
UnoEnEjecucion == Len(despacho) + Uno(cpu.pid # NADIE) <= 1

(* manejo_recursos.c: "Espera hasta que un proceso quede bloqueado por un  *)
(* recurso": a manager that waits is woken when a process is in its queue  *)
(* and an instance is free.                                                *)
BloqueadoAtendido ==
  [](kernel = "activo") =>
    \A r \in Recursos :
      cola_block[r] # <<>> /\ instancias[r] > 0
        ~> cola_block[r] = <<>> \/ instancias[r] = 0
=============================================================================
