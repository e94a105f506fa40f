--------------------------- MODULE InterfacesProofs ---------------------------
(***************************************************************************)
(* The invariants of Interfaces that hold for every value of its constants *)
(* and the refinement of Turnos.                                           *)
(***************************************************************************)
EXTENDS PropiedadesInterfaces, ListasProofs, TLAPS

Atendiendo == {"invalida", "encola", "toma", "espera", "envia"}
EnEspera   == {"toma", "espera", "envia"}

(* The eviction thread and the planner share one post of sem_exec.         *)
PlanifInv ==
  planif.exec + Uno(planif.cpu # NADA) + Uno(desalojo.pc # "recibe") = 1

(* What the eviction thread carries at each point of a handler.            *)
DesalojoInv ==
  /\ desalojo.pc \in Atendiendo => desalojo.pid \in Pids /\ desalojo.ins \in DOMAIN TipoDe
  /\ desalojo.pc \in EnEspera =>
       desalojo.nombre \in Nombres /\ Len(sems[desalojo.nombre]) > 0
  /\ desalojo.pc \in {"espera", "envia"} => desalojo.sem \in 1 .. Len(sems[desalojo.nombre])

(* What the thread of an interface carries, and when its queue exists.     *)
HilosInv == \A i \in Nombres :
  /\ hilo[i].pcb # NADA => hilo[i].pc \in {"sale", "ingresa"}
  /\ cola[i] = NADA <=> hilo[i].pc \in {"ninguno", "quita"}
  /\ hilo[i].pc # "ninguno" => Len(sems[i]) > 0
  /\ Len(sems[i]) <= MAX_CONEXIONES
  /\ io[i].pid # NADA <=> io[i].pc = "sirve"

FinalizaInv == finaliza.pc \in {"busca", "sale"} => finaliza.pid \in Pids

TiposInv == TypeOK /\ PlanifInv /\ DesalojoInv /\ HilosInv /\ FinalizaInv

-----------------------------------------------------------------------------
(* The operators of the module.                                            *)
LEMMA TipoDeTipo == \A ins \in DOMAIN TipoDe : TipoDe[ins] \in Tipos
BY DEF TipoDe, Tipos

LEMMA PedidosTipo ==
  \A q \in Pedidos : q[1] \in DOMAIN TipoDe /\ q[2] \in Nombres \cup Desconocidos
BY ConstantesAssumption

LEMMA NadaFuera ==
  /\ NADA \notin Pids /\ NADA \notin Nombres /\ NADA # <<>>
  /\ \A s \in Seq(Pids) : s # NADA
<1>1. <<>> \in Seq(Pids)
  OBVIOUS
<1>2. QED
  BY <1>1, ConstantesAssumption

(* An element of a list is of the type of the list.                        *)
LEMMA ElementoTipo ==
  ASSUME NEW S, NEW s \in Seq(S)
  PROVE  /\ \A e \in ToSet(s) : e \in S
         /\ s # <<>> => Last(s) \in ToSet(s) /\ Head(s) \in ToSet(s)
<1>1. /\ DOMAIN s = 1 .. Len(s) /\ Len(s) \in Nat
      /\ \A k \in 1 .. Len(s) : s[k] \in S
      /\ s = <<>> <=> Len(s) = 0
  BY LenProperties, ElementOfSeq, EmptySeq
<1>2. s # <<>> => Last(s) = s[Len(s)] /\ Head(s) = s[1]
  BY HeadTailProperties DEF Last
<1>3. QED
  BY <1>1, <1>2 DEF ToSet

(* What a pointer found for an instruction is.                             *)
LEMMA ApuntadaTipo ==
  ASSUME TipoInterfaces, NEW ins \in DOMAIN TipoDe, NEW n
  PROVE  /\ Apuntada(ins, n) \in Punteros \cup {NADA}
         /\ Halladas(ins, n) # {} =>
              Apuntada(ins, n) \in ToSet(lista[TipoDe[ins]]) /\ Apuntada(ins, n).nombre = n
<1> DEFINE l == lista[TipoDe[ins]]
<1>1. l \in Seq(Punteros)
  BY TipoDeTipo DEF TipoInterfaces
<1>2. CASE Halladas(ins, n) # {}
  <2>1. Apuntada(ins, n) \in Halladas(ins, n)
    BY <1>2 DEF Apuntada
  <2>2. Apuntada(ins, n) \in ToSet(l) /\ Apuntada(ins, n).nombre = n
    BY <2>1 DEF Halladas
  <2>3. QED
    BY <1>1, <2>2, ElementoTipo
<1>3. CASE Halladas(ins, n) = {}
  BY <1>1, <1>3, ElementoTipo DEF Apuntada
<1>4. QED
  BY <1>2, <1>3

-----------------------------------------------------------------------------
(* The types, thread by thread: the short-term planner and the requests.   *)
LEMMA DespacharTipos ==
  ASSUME TiposInv, Despachar
  PROVE  TiposInv'
<1>1. CASE planif.ready = <<>>
  BY <1>1 DEF Despachar, Abortar, conexiones, TiposInv, TypeOK, TipoPlanif, TipoDesalojo,
     TipoInterfaces, TipoIo, TipoProcesos, PlanifInv, DesalojoInv, HilosInv, FinalizaInv
<1>2. CASE planif.ready # <<>>
  <2>1. Head(planif.ready) \in Pids /\ Tail(planif.ready) \in Seq(Pids)
    BY <1>2, HeadTailProperties DEF TiposInv, TypeOK, TipoPlanif
  <2>2. TipoPlanif' /\ PlanifInv'
    <3>1. planif' = [planif EXCEPT !.corto = @ - 1, !.exec = @ - 1,
                       !.cpu = Head(planif.ready), !.ready = Tail(@)]
      BY <1>2 DEF Despachar
    <3>2. planif.exec = 1 /\ planif.corto > 0 /\ desalojo' = desalojo
      BY DEF Despachar, TiposInv, TypeOK, TipoPlanif
    <3>3. planif.cpu = NADA /\ desalojo.pc = "recibe"
      BY <3>2 DEF TiposInv, PlanifInv, Uno
    <3>4. TipoPlanif'
      <4>1. planif.corto - 1 \in Nat /\ planif.exec - 1 \in 0 .. 1
        BY <3>2 DEF TiposInv, TypeOK, TipoPlanif
      <4>2. QED
        BY <2>1, <3>1, <4>1 DEF TiposInv, TypeOK, TipoPlanif, Pcb
    <3>5. planif'.exec = 0 /\ planif'.cpu # NADA
      BY <2>1, <3>1, <3>2, NadaFuera DEF TiposInv, TypeOK, TipoPlanif
    <3>6. QED
      BY <3>2, <3>3, <3>4, <3>5 DEF PlanifInv, Uno
  <2>3. TipoDesalojo' /\ TipoInterfaces' /\ TipoIo' /\ TipoProcesos'
        /\ DesalojoInv' /\ HilosInv' /\ FinalizaInv'
    BY <1>2 DEF Despachar, Vivo, conexiones, TiposInv, TypeOK, TipoDesalojo,
     TipoInterfaces, TipoIo, TipoProcesos, DesalojoInv, HilosInv, FinalizaInv
  <2>4. QED
    BY <2>2, <2>3 DEF TiposInv, TypeOK
<1>3. QED
  BY <1>1, <1>2

LEMMA PedirTipos ==
  ASSUME TiposInv, NEW q \in Pedidos, Pedir(q[1], q[2])
  PROVE  TiposInv'
<1>1. q[1] \in DOMAIN TipoDe /\ q[2] \in Nombres \cup Desconocidos
  BY PedidosTipo
<1>2. TipoInterfaces' /\ TipoIo' /\ HilosInv' /\ FinalizaInv'
  BY DEF Pedir, conexiones, TiposInv, TypeOK, TipoInterfaces, TipoIo, HilosInv, FinalizaInv
<1>3. planif.cpu \in Pids
  BY DEF Pedir, TiposInv, TypeOK, TipoPlanif, Pcb
<1>4. TipoPlanif' /\ PlanifInv'
  BY <1>3, NadaFuera DEF Pedir, TiposInv, TypeOK, TipoPlanif, Pcb, PlanifInv, Uno
<1>5. TipoDesalojo' /\ DesalojoInv'
  <2>1. Apuntada(q[1], q[2]) \in Punteros \cup {NADA}
    BY <1>1, ApuntadaTipo DEF TiposInv, TypeOK
  <2>2. existe_tipo' \in BOOLEAN
    BY DEF Pedir, TiposInv, TypeOK, TipoDesalojo, Existe
  <2>3. 0 \in 0 .. MAX_CONEXIONES
    BY ConstantesAssumption
  <2>4. QED
    BY <1>1, <1>3, <2>1, <2>2, <2>3 DEF Pedir, TipoDesalojo, DesalojoInv, PcDesalojo, Pcb, Atendiendo, EnEspera
<1>6. TipoProcesos'
  <2>1. restan' \in [Pids -> 0 .. MAX_PEDIDOS]
    BY <1>3, ConstantesAssumption DEF Pedir, TiposInv, TypeOK, TipoProcesos
  <2>2. desvios' \subseteq Desvios
    BY DEF Pedir, Desviar, Desvios, TiposInv, TypeOK, TipoProcesos
  <2>3. QED
    BY <2>1, <2>2 DEF Pedir, Vivo, TiposInv, TypeOK, TipoProcesos
<1>7. QED
  BY <1>2, <1>4, <1>5, <1>6 DEF TiposInv, TypeOK

(* What manejar_exit does to the types.                                    *)
LEMMA ManejarExitTipo ==
  ASSUME TiposInv, NEW p \in Pcb, ManejarExit(p)
  PROVE  salidos' \subseteq Pcb /\ kernel' \in {"activo", "abortado"}
BY DEF ManejarExit, TiposInv, TypeOK, TipoProcesos

LEMMA TerminarTipos ==
  ASSUME TiposInv, Terminar
  PROVE  TiposInv'
<1>1. planif.cpu \in Pcb
  BY DEF TiposInv, TypeOK, TipoPlanif
<1>2. TipoInterfaces' /\ TipoIo' /\ HilosInv' /\ FinalizaInv'
  BY DEF Terminar, conexiones, TiposInv, TypeOK, TipoInterfaces, TipoIo, HilosInv, FinalizaInv
<1>3. TipoPlanif' /\ PlanifInv' /\ TipoDesalojo' /\ DesalojoInv'
  BY <1>1, NadaFuera DEF Terminar, TiposInv, TypeOK, TipoPlanif, Pcb, PlanifInv, Uno, TipoDesalojo,
     DesalojoInv, PcDesalojo, Atendiendo, EnEspera
<1>4. TipoProcesos'
  BY <1>1, ManejarExitTipo DEF Terminar, TiposInv, TypeOK, TipoProcesos
<1>5. QED
  BY <1>2, <1>3, <1>4 DEF TiposInv, TypeOK

-----------------------------------------------------------------------------
(* motivo_desalojo.                                                        *)
LEMMA DesalojoTipos ==
  ASSUME TiposInv,
         \/ DesalojoInvalida \/ DesalojoSinCola \/ DesalojoToma \/ DesalojoEspera
         \/ DesalojoEncola \/ DesalojoEnvia \/ DesalojoFin
  PROVE  TiposInv'
<1> USE DEF TiposInv, TypeOK
<1>1. CASE DesalojoInvalida
  <2>1. TipoInterfaces' /\ TipoIo' /\ HilosInv' /\ FinalizaInv' /\ TipoPlanif'
    BY <1>1 DEF DesalojoInvalida, conexiones, TipoInterfaces, TipoIo, HilosInv, FinalizaInv, TipoPlanif
  <2>2. PlanifInv' /\ TipoDesalojo' /\ DesalojoInv'
    BY <1>1 DEF DesalojoInvalida, DesalojoA, PlanifInv, Uno, TipoDesalojo, DesalojoInv, PcDesalojo,
       Atendiendo, EnEspera
  <2>3. desalojo.pid \in Pcb
    BY DEF TipoDesalojo
  <2>4. TipoProcesos'
    BY <1>1, <2>3, ManejarExitTipo DEF DesalojoInvalida, TipoProcesos
  <2>5. QED
    BY <2>1, <2>2, <2>4
<1>2. CASE DesalojoSinCola \/ DesalojoToma \/ DesalojoFin
  <2>1. TipoInterfaces' /\ TipoIo' /\ HilosInv' /\ FinalizaInv' /\ TipoProcesos'
    BY <1>2 DEF DesalojoSinCola, DesalojoToma, DesalojoFin, Vivo, conexiones, TipoInterfaces, TipoIo,
       HilosInv, FinalizaInv, TipoProcesos
  <2>2. TipoPlanif' /\ PlanifInv'
    <3>1. CASE DesalojoFin
      <4>1. planif.exec = 0 /\ planif.cpu = NADA
        BY <3>1 DEF DesalojoFin, TipoPlanif, PlanifInv, Uno
      <4>2. planif' = [planif EXCEPT !.exec = 1]
        BY <3>1, <4>1 DEF DesalojoFin
      <4>3. TipoPlanif' /\ planif'.exec = 1 /\ planif'.cpu = NADA
        BY <4>1, <4>2 DEF TipoPlanif
      <4>4. desalojo'.pc = "recibe"
        BY <3>1 DEF DesalojoFin, DesalojoA, TipoDesalojo
      <4>5. QED
        BY <4>3, <4>4 DEF PlanifInv, Uno
    <3>2. CASE DesalojoSinCola \/ DesalojoToma
      BY <3>2 DEF DesalojoSinCola, DesalojoToma, DesalojoA, TipoPlanif, PlanifInv, Uno, TipoDesalojo
    <3>3. QED
      BY <1>2, <3>1, <3>2
  <2>3. TipoDesalojo' /\ DesalojoInv'
    <3>1. CASE DesalojoToma
      <4>1. /\ desalojo.nombre \in Nombres /\ Len(sems[desalojo.nombre]) > 0
            /\ sems[desalojo.nombre] \in Seq(0 .. 1)
        BY <3>1 DEF DesalojoToma, DesalojoInv, EnEspera, TipoInterfaces
      <4>2. Actual(desalojo.nombre) \in 1 .. Len(sems[desalojo.nombre])
        BY <4>1, LenProperties DEF Actual
      <4>3. Actual(desalojo.nombre) \in 0 .. MAX_CONEXIONES
        BY <4>1, <4>2, ConstantesAssumption DEF HilosInv, Actual
      <4>4. QED
        BY <3>1, <4>1, <4>2, <4>3 DEF DesalojoToma, TipoDesalojo, DesalojoInv, PcDesalojo, Atendiendo, EnEspera
    <3>2. CASE DesalojoSinCola \/ DesalojoFin
      BY <3>2 DEF DesalojoSinCola, DesalojoFin, DesalojoA, TipoDesalojo, DesalojoInv, PcDesalojo,
         Atendiendo, EnEspera
    <3>3. QED
      BY <1>2, <3>1, <3>2
  <2>4. QED
    BY <2>1, <2>2, <2>3
<1>3. CASE DesalojoEncola
  <2> DEFINE n == desalojo.nombre
  <2>1. /\ n \in Nombres /\ cola[n] # NADA /\ desalojo.pid \in Pids
        /\ cola' = [cola EXCEPT ![n] = Append(@, desalojo.pid)]
        /\ desalojo' = [desalojo EXCEPT !.pc = "toma"]
    BY <1>3, NadaFuera DEF DesalojoEncola, ColaDe, Encolada, DesalojoA, DesalojoInv, Atendiendo
  <2>2. cola[n] \in Seq(Pids)
    BY <2>1 DEF TipoInterfaces
  <2>3. Append(cola[n], desalojo.pid) \in Seq(Pids)
    BY <2>1, <2>2, AppendProperties
  <2>4. Append(cola[n], desalojo.pid) # NADA
    BY <2>3, NadaFuera
  <2>5. TipoInterfaces' /\ HilosInv'
    BY <1>3, <2>1, <2>3, <2>4, SMTT(30) DEF DesalojoEncola, TipoInterfaces, HilosInv, conexiones
  <2>6. TipoIo' /\ TipoProcesos' /\ TipoPlanif' /\ FinalizaInv' /\ PlanifInv'
    BY <1>3, <2>1 DEF DesalojoEncola, conexiones, Vivo, TipoIo, TipoProcesos, TipoPlanif, FinalizaInv,
       PlanifInv, Uno, TipoDesalojo
  <2>7. Len(sems[n]) > 0
    BY <2>1 DEF HilosInv
  <2>8. TipoDesalojo' /\ DesalojoInv'
    BY <1>3, <2>1, <2>7 DEF DesalojoEncola, TipoDesalojo, DesalojoInv, PcDesalojo, Atendiendo, EnEspera
  <2>9. QED
    BY <2>5, <2>6, <2>8
<1>4. CASE DesalojoEspera
  <2> DEFINE n == desalojo.nombre
             k == desalojo.sem
  <2>1. /\ n \in Nombres /\ k \in 1 .. Len(sems[n]) /\ sems[n] \in Seq(0 .. 1) /\ sems[n][k] > 0
    BY <1>4 DEF DesalojoEspera, DesalojoInv, EnEspera, TipoInterfaces
  <2>2. sems[n][k] \in 0 .. 1
    BY <2>1, ElementOfSeq
  <2>3. sems' = [sems EXCEPT ![n] = [@ EXCEPT ![k] = sems[n][k] - 1]]
    BY <1>4 DEF DesalojoEspera
  <2>4. /\ [sems[n] EXCEPT ![k] = sems[n][k] - 1] \in Seq(0 .. 1)
        /\ Len([sems[n] EXCEPT ![k] = sems[n][k] - 1]) = Len(sems[n])
    <3>1. sems[n][k] - 1 \in 0 .. 1
      BY <2>1, <2>2
    <3>2. QED
      BY <2>1, <3>1, ExceptSeq
  <2>5. \A i \in Nombres : Len(sems'[i]) = Len(sems[i])
    BY <2>1, <2>3, <2>4 DEF TipoInterfaces
  <2>6. TipoInterfaces' /\ HilosInv'
    BY <1>4, <2>1, <2>3, <2>4, <2>5 DEF DesalojoEspera, TipoInterfaces, HilosInv, conexiones
  <2>7. TipoIo' /\ TipoProcesos' /\ TipoPlanif' /\ FinalizaInv' /\ PlanifInv'
    BY <1>4 DEF DesalojoEspera, DesalojoA, conexiones, Vivo, TipoIo, TipoProcesos, TipoPlanif, FinalizaInv,
       PlanifInv, Uno, TipoDesalojo
  <2>8. TipoDesalojo' /\ DesalojoInv'
    <3>1. desalojo' = [desalojo EXCEPT !.pc = "envia"] /\ existe_tipo' = existe_tipo /\ desalojo.pc = "espera"
      BY <1>4 DEF DesalojoEspera, DesalojoA
    <3>2. desalojo'.nombre = n /\ desalojo'.sem = k /\ desalojo'.pc = "envia"
          /\ desalojo'.pid = desalojo.pid /\ desalojo'.ins = desalojo.ins
      BY <3>1 DEF TipoDesalojo
    <3>3. TipoDesalojo'
      BY <3>1 DEF TipoDesalojo, PcDesalojo
    <3>4. DesalojoInv'
      BY <2>1, <2>5, <3>1, <3>2 DEF DesalojoInv, Atendiendo, EnEspera
    <3>5. QED
      BY <3>3, <3>4
  <2>9. QED
    BY <2>6, <2>7, <2>8
<1>5. CASE DesalojoEnvia
  <2>1. /\ UNCHANGED <<planif, cola, sems, hilo, existe_tipo, finaliza, lista, io, avisos, restan, desvios>>
        /\ desalojo' = [desalojo EXCEPT !.pc = "fin"] /\ desalojo.pc = "envia"
        /\ salidos' = salidos /\ kernel' \in {kernel, "abortado"}
        /\ pedidos' = pedidos \/ \E i \in Nombres : pedidos' = [pedidos EXCEPT ![i] = Append(@, desalojo.pid)]
    <3>1. desalojo.interfaz \in ToSet(lista[TipoDe[desalojo.ins]]) => desalojo.interfaz.nombre \in Nombres
      <4>1. desalojo.ins \in DOMAIN TipoDe
        BY <1>5 DEF DesalojoEnvia, DesalojoInv, Atendiendo
      <4>2. lista[TipoDe[desalojo.ins]] \in Seq(Punteros)
        BY <4>1, TipoDeTipo DEF TipoInterfaces
      <4>3. \A e \in Punteros : e.nombre \in Nombres
        BY DEF Punteros
      <4>4. QED
        BY <4>2, <4>3, ElementoTipo
    <3>2. QED
      BY <1>5, <3>1 DEF DesalojoEnvia, DesalojoA, Llega, SePierde, Vivo, Abortar
  <2>2. TipoInterfaces' /\ HilosInv' /\ TipoProcesos' /\ TipoPlanif' /\ FinalizaInv' /\ PlanifInv'
    BY <2>1 DEF TipoInterfaces, HilosInv, TipoProcesos, TipoPlanif, FinalizaInv, PlanifInv, Uno, TipoDesalojo
  <2>3. TipoDesalojo' /\ DesalojoInv'
    BY <2>1 DEF TipoDesalojo, DesalojoInv, PcDesalojo, Atendiendo, EnEspera
  <2>4. TipoIo'
    <3>1. desalojo.pid \in Pids
      BY <2>1 DEF DesalojoInv, Atendiendo
    <3>2. \A i \in Nombres : Append(pedidos[i], desalojo.pid) \in Seq(Pids)
      BY <3>1, AppendProperties DEF TipoIo
    <3>3. QED
      BY <2>1, <3>2 DEF TipoIo
  <2>5. QED
    BY <2>2, <2>3, <2>4
<1>6. QED
  BY <1>1, <1>2, <1>3, <1>4, <1>5

-----------------------------------------------------------------------------
(* The connection of an interface, and its IO program.                     *)
LEMMA ConectarTipos ==
  ASSUME TiposInv, NEW i \in Nombres, Conectar(i)
  PROVE  TiposInv'
<1> USE DEF TiposInv, TypeOK
<1>1. /\ sems[i] \in Seq(0 .. 1) /\ Len(sems[i]) \in Nat /\ Len(sems[i]) < MAX_CONEXIONES
      /\ hilo[i].pc = "ninguno" /\ io[i].pc = "ausente"
  BY LenProperties DEF Conectar, Conectada, TipoInterfaces, Actual
<1>2. Append(sems[i], 1) \in Seq(0 .. 1) /\ Len(Append(sems[i], 1)) = Len(sems[i]) + 1
  BY <1>1, AppendProperties
<1>3. sems' = [sems EXCEPT ![i] = Append(@, 1)]
  BY DEF Conectar
<1>4. \A j \in Nombres : Len(sems'[j]) = Len(sems[j]) \/ (j = i /\ Len(sems'[j]) = Len(sems[j]) + 1)
  BY <1>2, <1>3 DEF TipoInterfaces
<1>5. \A j \in Nombres : sems'[j] \in Seq(0 .. 1)
  BY <1>2, <1>3 DEF TipoInterfaces
<1>6. Puntero(i, Actual(i) + 1) \in Punteros
  BY <1>1, ConstantesAssumption DEF Puntero, Punteros, Actual
<1>7. lista' \in [Tipos -> Seq(Punteros)]
  <2>1. TIPO[i] \in Tipos
    BY ConstantesAssumption
  <2>2. Append(lista[TIPO[i]], Puntero(i, Actual(i) + 1)) \in Seq(Punteros)
    BY <1>6, <2>1, AppendProperties DEF TipoInterfaces
  <2>3. QED
    BY <2>1, <2>2 DEF Conectar, TipoInterfaces
<1>8. cola' = [cola EXCEPT ![i] = <<>>] /\ hilo' = [hilo EXCEPT ![i].pc = "recibe"]
      /\ io' = [io EXCEPT ![i].pc = "espera"] /\ pedidos' = [pedidos EXCEPT ![i] = <<>>]
  BY DEF Conectar
<1>9. TipoInterfaces'
  <2>1. <<>> \in Seq(Pids)
    OBVIOUS
  <2>2. cola' \in [Nombres -> Seq(Pids) \cup {NADA}]
    BY <1>8, <2>1 DEF TipoInterfaces
  <2>3. sems' \in [Nombres -> Seq(0 .. 1)]
    BY <1>2, <1>3 DEF TipoInterfaces
  <2>4. hilo' \in [Nombres -> [pc : PcHilo, pcb : Pcb, codigo : Codigos \cup {NADA}, k : Nat \ {0}]]
    BY <1>8, ZenonT(40) DEF TipoInterfaces, PcHilo
  <2>5. QED
    BY <1>7, <2>2, <2>3, <2>4 DEF TipoInterfaces
<1>10. TipoIo'
  <2>1. <<>> \in Seq(Pids)
    OBVIOUS
  <2>2. io' \in [Nombres -> [pc : {"ausente", "espera", "sirve"}, pid : Pcb]]
    BY <1>8 DEF TipoIo
  <2>3. pedidos' \in [Nombres -> Seq(Pids)] /\ avisos' = avisos
    BY <1>8, <2>1 DEF Conectar, TipoIo
  <2>4. QED
    BY <2>2, <2>3 DEF TipoIo
<1>11. HilosInv'
  <2> SUFFICES ASSUME NEW j \in Nombres
               PROVE  /\ hilo'[j].pcb # NADA => hilo'[j].pc \in {"sale", "ingresa"}
                      /\ cola'[j] = NADA <=> hilo'[j].pc \in {"ninguno", "quita"}
                      /\ hilo'[j].pc # "ninguno" => Len(sems'[j]) > 0
                      /\ Len(sems'[j]) <= MAX_CONEXIONES
                      /\ io'[j].pid # NADA <=> io'[j].pc = "sirve"
    BY DEF HilosInv
  <2>1. CASE j = i
    <3>1. /\ hilo'[i].pc = "recibe" /\ hilo'[i].pcb = hilo[i].pcb /\ cola'[i] = <<>>
          /\ io'[i].pc = "espera" /\ io'[i].pid = io[i].pid
      BY <1>8 DEF TipoInterfaces, TipoIo
    <3>2. hilo[i].pcb = NADA /\ io[i].pid = NADA
      BY <1>1 DEF HilosInv
    <3>3. Len(sems'[i]) = Len(sems[i]) + 1
      BY <1>2, <1>3 DEF TipoInterfaces
    <3>4. Len(sems'[i]) > 0 /\ Len(sems'[i]) <= MAX_CONEXIONES
      BY <1>1, <3>3, ConstantesAssumption
    <3>5. QED
      BY <2>1, <3>1, <3>2, <3>4, NadaFuera
  <2>2. CASE j # i
    BY <1>3, <1>8, <2>2 DEF HilosInv, TipoInterfaces, TipoIo
  <2>3. QED
    BY <2>1, <2>2
<1>12. DesalojoInv' /\ TipoDesalojo'
  <2>1. desalojo' = desalojo /\ existe_tipo' = existe_tipo
    BY DEF Conectar
  <2>2. \A j \in Nombres : Len(sems[j]) \in Nat /\ Len(sems'[j]) \in Nat
    BY <1>5, LenProperties DEF TipoInterfaces
  <2>3. QED
    BY <1>4, <2>1, <2>2 DEF DesalojoInv, TipoDesalojo, EnEspera
<1>13. TipoProcesos' /\ TipoPlanif' /\ FinalizaInv' /\ PlanifInv'
  BY DEF Conectar, Vivo, TipoProcesos, TipoPlanif, FinalizaInv, PlanifInv
<1>14. QED
  BY <1>9, <1>10, <1>11, <1>12, <1>13

LEMMA IoTipos ==
  ASSUME TiposInv, NEW i \in Nombres, IO(i) \/ Averias(i)
  PROVE  TiposInv'
<1> USE DEF TiposInv, TypeOK
<1>1. /\ UNCHANGED <<kernelVars, lista, restan, salidos, kernel>>
      /\ desvios' = desvios \/ \E d \in SUBSET Desvios : desvios' = desvios \cup d
  BY DEF IO, IoToma, IoTermina, IoContesta, Averias, IoFalla, IoFallaYTermina, Desconectar, Desviar,
     Desvios, Vivo
<1>2. TipoDesalojo' /\ TipoInterfaces' /\ TipoProcesos' /\ TipoPlanif' /\ FinalizaInv' /\ PlanifInv'
      /\ DesalojoInv'
  BY <1>1 DEF kernelVars, TipoDesalojo, TipoInterfaces, TipoProcesos, TipoPlanif, FinalizaInv, PlanifInv,
     DesalojoInv
<1>3. TipoIo' /\ \A j \in Nombres : io'[j].pid # NADA <=> io'[j].pc = "sirve"
  <2>1. CASE IoToma(i)
    <3>1. Head(pedidos[i]) \in Pids /\ Tail(pedidos[i]) \in Seq(Pids)
      BY <2>1, HeadTailProperties DEF IoToma, TipoIo
    <3>2. QED
      BY <2>1, <3>1, NadaFuera DEF IoToma, TipoIo, HilosInv, Pcb
  <2>2. ASSUME NEW codigo \in Codigos, NEW pc \in {"espera", "ausente"}, IoContesta(i, codigo, pc),
               pedidos' = pedidos
        PROVE  TipoIo' /\ \A j \in Nombres : io'[j].pid # NADA <=> io'[j].pc = "sirve"
    <3>1. Append(avisos[i], codigo) \in Seq(Codigos)
      BY AppendProperties DEF TipoIo
    <3>2. QED
      BY <2>2, <3>1 DEF IoContesta, TipoIo, HilosInv, Pcb
  <2>3. CASE Desconectar(i)
    BY <2>3 DEF Desconectar, TipoIo, HilosInv, Pcb
  <2>4. TIPO[i] \in Codigos /\ "M_EXIT" \in Codigos
    BY ConstantesAssumption DEF Codigos
  <2>5. CASE IoTermina(i) \/ IoFalla(i) \/ IoFallaYTermina(i)
    <3>1. \E codigo \in Codigos, pc \in {"espera", "ausente"} : IoContesta(i, codigo, pc)
      BY <2>4, <2>5 DEF IoTermina, IoFalla, IoFallaYTermina
    <3>2. pedidos' = pedidos
      BY <2>5 DEF IoTermina, IoFalla, IoFallaYTermina, IoContesta
    <3>3. QED
      BY <2>2, <3>1, <3>2
  <2>6. QED
    BY <2>1, <2>3, <2>5 DEF IO, Averias
<1>4. HilosInv'
  BY <1>1, <1>3 DEF HilosInv, kernelVars
<1>5. QED
  BY <1>2, <1>3, <1>4

-----------------------------------------------------------------------------
(* esperar_fin_io.                                                         *)
LEMMA HiloTipos ==
  ASSUME TiposInv, NEW i \in Nombres, EsperarFinIo(i)
  PROVE  TiposInv'
<1> USE DEF TiposInv, TypeOK
<1>1. /\ UNCHANGED <<desalojo, existe_tipo, finaliza, io, pedidos, restan, desvios>>
      /\ \A j \in Nombres \ {i} : cola'[j] = cola[j] /\ hilo'[j] = hilo[j] /\ sems'[j] = sems[j]
  BY DEF EsperarFinIo, HiloRecibe, HiloMira, HiloSaca, HiloSale, HiloIngresa, HiloAvisa, HiloCorta,
     HiloElimina, HiloDestruye, HiloQuita, HiloA, conexiones, TipoInterfaces
<1>2. TipoDesalojo' /\ FinalizaInv'
  BY <1>1 DEF TipoDesalojo, FinalizaInv
<1> DEFINE R == [pc : PcHilo, pcb : Pcb, codigo : Codigos \cup {NADA}, k : Nat \ {0}]
<1>3. hilo' \in [Nombres -> R] /\ (hilo'[i].pcb # NADA => hilo'[i].pc \in {"sale", "ingresa"})
  <2> DEFINE Bien(h) == /\ hilo' = [hilo EXCEPT ![i] = h] /\ h \in R
                        /\ h.pcb # NADA => h.pc \in {"sale", "ingresa"}
  <2>1. hilo[i] \in R /\ hilo \in [Nombres -> R]
        /\ (hilo[i].pcb # NADA => hilo[i].pc \in {"sale", "ingresa"})
    BY DEF TipoInterfaces, HilosInv
  <2>2. ASSUME NEW h, Bien(h)
        PROVE  hilo' \in [Nombres -> R] /\ (hilo'[i].pcb # NADA => hilo'[i].pc \in {"sale", "ingresa"})
    BY <2>1, <2>2
  <2>3. CASE HiloRecibe(i)
    <3>1. Head(avisos[i]) \in Codigos
      BY <2>3, HeadTailProperties DEF HiloRecibe, TipoIo
    <3>2. Bien([hilo[i] EXCEPT !.pc = "mira", !.codigo = Head(avisos[i]), !.pcb = NADA])
      BY <2>1, <2>3, <3>1 DEF HiloRecibe, PcHilo, Pcb
    <3>3. QED
      BY <2>2, <3>2
  <2>4. CASE HiloSaca(i)
    <3>1. CASE cola[i] = <<>>
      BY <2>1, <2>4, <3>1 DEF HiloSaca
    <3>2. CASE cola[i] # <<>>
      <4>1. cola[i] \in Seq(Pids)
        BY <2>4 DEF HiloSaca, TipoInterfaces, HilosInv
      <4>2. Head(cola[i]) \in Pids
        BY <3>2, <4>1, HeadTailProperties
      <4>3. Resolver(i) \in {"sale", "ingresa"}
        BY DEF Resolver
      <4>4. Bien([hilo[i] EXCEPT !.pc = Resolver(i), !.pcb = Head(cola[i])])
        BY <2>1, <2>4, <3>2, <4>2, <4>3 DEF HiloSaca, PcHilo, Pcb
      <4>5. QED
        BY <2>2, <4>4
    <3>3. QED
      BY <3>1, <3>2
  <2>5. CASE HiloMira(i)
    <3>1. PICK pc \in {"sale", "ingresa", "saca"} : HiloA(i, pc) /\ hilo[i].pcb = NADA
      BY <2>1, <2>5 DEF HiloMira, Resolver
    <3>2. Bien([hilo[i] EXCEPT !.pc = pc])
      BY <2>1, <3>1 DEF HiloA, PcHilo
    <3>3. QED
      BY <2>2, <3>2
  <2>6. CASE HiloSale(i) \/ HiloIngresa(i)
    <3>1. PICK pc \in {"recibe", "avisa"} : hilo' = [hilo EXCEPT ![i] = [@ EXCEPT !.pc = pc, !.pcb = NADA]]
      BY <2>6 DEF HiloSale, HiloIngresa
    <3>2. Bien([hilo[i] EXCEPT !.pc = pc, !.pcb = NADA])
      BY <2>1, <3>1 DEF PcHilo, Pcb
    <3>3. QED
      BY <2>2, <3>2
  <2>7. CASE HiloAvisa(i) \/ HiloDestruye(i) \/ HiloQuita(i)
    <3>1. PICK pc \in {"recibe", "quita", "ninguno"} : HiloA(i, pc) /\ hilo[i].pcb = NADA
      BY <2>1, <2>7 DEF HiloAvisa, HiloDestruye, HiloQuita
    <3>2. Bien([hilo[i] EXCEPT !.pc = pc])
      BY <2>1, <3>1 DEF HiloA, PcHilo
    <3>3. QED
      BY <2>2, <3>2
  <2>8. CASE HiloCorta(i)
    <3>1. hilo[i].pcb = NADA /\ 1 \in Nat \ {0} /\ "elimina" \in PcHilo
      BY <2>1, <2>8 DEF HiloCorta, PcHilo
    <3>2. hilo' = [hilo EXCEPT ![i] = [hilo[i] EXCEPT !.pc = "elimina", !.k = 1]]
      BY <2>8 DEF HiloCorta
    <3>3. [hilo[i] EXCEPT !.pc = "elimina", !.k = 1].pcb = NADA
      BY <2>1, <3>1
    <3>4. Bien([hilo[i] EXCEPT !.pc = "elimina", !.k = 1])
      BY <2>1, <3>1, <3>2, <3>3
    <3>5. QED
      BY <2>2, <3>4
  <2>9. CASE HiloElimina(i)
    <3>1. hilo[i].k + 1 \in Nat \ {0}
      BY <2>1
    <3>2. Bien([hilo[i] EXCEPT !.k = hilo[i].k + 1])
      BY <2>1, <2>9, <3>1 DEF HiloElimina
    <3>3. QED
      BY <2>2, <3>2
  <2>10. QED
    BY <2>3, <2>4, <2>5, <2>6, <2>7, <2>8, <2>9 DEF EsperarFinIo
<1>4. sems' \in [Nombres -> Seq(0 .. 1)] /\ Len(sems'[i]) = Len(sems[i])
  <2>1. CASE HiloAvisa(i)
    <3>1. sems[i] \in Seq(0 .. 1) /\ Len(sems[i]) > 0
      BY <2>1 DEF HiloAvisa, TipoInterfaces, HilosInv
    <3>2. Actual(i) \in 1 .. Len(sems[i])
      BY <3>1, LenProperties DEF Actual
    <3>3. /\ [sems[i] EXCEPT ![Actual(i)] = 1] \in Seq(0 .. 1)
          /\ Len([sems[i] EXCEPT ![Actual(i)] = 1]) = Len(sems[i])
      BY <3>1, <3>2, ExceptSeq
    <3>4. sems' = [sems EXCEPT ![i] = [sems[i] EXCEPT ![Actual(i)] = 1]]
      BY <2>1 DEF HiloAvisa
    <3>5. QED
      BY <3>3, <3>4 DEF TipoInterfaces
  <2>2. CASE ~HiloAvisa(i)
    BY <2>2 DEF EsperarFinIo, HiloRecibe, HiloMira, HiloSaca, HiloSale, HiloIngresa, HiloCorta,
     HiloElimina, HiloDestruye, HiloQuita, conexiones, TipoInterfaces
  <2>3. QED
    BY <2>1, <2>2
<1>5. cola' \in [Nombres -> Seq(Pids) \cup {NADA}]
      /\ (cola'[i] = NADA <=> hilo'[i].pc \in {"ninguno", "quita"})
  <2>1. CASE HiloSaca(i)
    <3>1. CASE cola[i] = <<>>
      BY <2>1, <3>1 DEF HiloSaca, TipoInterfaces, HilosInv
    <3>2. CASE cola[i] # <<>>
      <4>1. cola[i] \in Seq(Pids)
        BY <2>1 DEF HiloSaca, TipoInterfaces, HilosInv
      <4>2. Tail(cola[i]) \in Seq(Pids) /\ Tail(cola[i]) # NADA
        BY <3>2, <4>1, HeadTailProperties, NadaFuera
      <4>3. hilo'[i].pc \in {"sale", "ingresa"} /\ cola'[i] = Tail(cola[i])
        BY <2>1, <3>2, ZenonT(40) DEF HiloSaca, TipoInterfaces, Resolver
      <4>4. cola' \in [Nombres -> Seq(Pids) \cup {NADA}]
        BY <2>1, <3>2, <4>2 DEF HiloSaca, TipoInterfaces
      <4>5. QED
        BY <4>2, <4>3, <4>4
    <3>3. QED
      BY <3>1, <3>2
  <2>2. CASE HiloDestruye(i)
    BY <2>2 DEF HiloDestruye, HiloA, TipoInterfaces
  <2>3. CASE ~HiloSaca(i) /\ ~HiloDestruye(i)
    <3>1. cola' = cola
      BY <2>3 DEF EsperarFinIo, HiloRecibe, HiloMira, HiloSale, HiloIngresa, HiloAvisa, HiloCorta,
         HiloElimina, HiloQuita
    <3>2. hilo'[i].pc \in {"ninguno", "quita"} <=> hilo[i].pc \in {"ninguno", "quita"}
      <4>1. hilo[i].pc = "quita" <=> HiloQuita(i)
        BY <2>3 DEF EsperarFinIo, HiloRecibe, HiloMira, HiloSale, HiloIngresa, HiloAvisa, HiloCorta,
           HiloElimina, HiloQuita
      <4>2. CASE HiloQuita(i)
        BY <4>1, <4>2 DEF HiloQuita, HiloA, TipoInterfaces
      <4>3. CASE HiloMira(i) \/ HiloAvisa(i)
        BY <4>3 DEF HiloMira, HiloAvisa, HiloA, Resolver, TipoInterfaces
      <4>4. CASE HiloRecibe(i)
        BY <4>4 DEF HiloRecibe, TipoInterfaces
      <4>5. CASE HiloSale(i)
        BY <4>5 DEF HiloSale, TipoInterfaces
      <4>6. CASE HiloIngresa(i)
        BY <4>6 DEF HiloIngresa, TipoInterfaces
      <4>7. CASE HiloCorta(i)
        BY <4>7 DEF HiloCorta, TipoInterfaces
      <4>8. CASE HiloElimina(i)
        <5>1. hilo'[i] = [hilo[i] EXCEPT !.k = @ + 1] /\ hilo[i].pc = "elimina"
          BY <4>8 DEF HiloElimina, TipoInterfaces
        <5>2. hilo'[i].pc = "elimina"
          BY <5>1 DEF TipoInterfaces
        <5>3. QED
          BY <5>1, <5>2
      <4>9. QED
        BY <2>3, <4>2, <4>3, <4>4, <4>5, <4>6, <4>7, <4>8 DEF EsperarFinIo
    <3>3. QED
      BY <3>1, <3>2 DEF TipoInterfaces, HilosInv
  <2>5. QED
    BY <2>1, <2>2, <2>3
<1>6. lista' \in [Tipos -> Seq(Punteros)]
  <2>1. CASE HiloQuita(i)
    <3>1. TIPO[i] \in Tipos
      BY ConstantesAssumption
    <3>2. \A e : RemoveFirst(lista[TIPO[i]], e) \in Seq(Punteros)
      BY <3>1, RemoveFirstTipo DEF TipoInterfaces
    <3>3. QED
      BY <2>1, <3>2 DEF HiloQuita, TipoInterfaces
  <2>2. CASE ~HiloQuita(i)
    BY <2>2 DEF EsperarFinIo, HiloRecibe, HiloMira, HiloSaca, HiloSale, HiloIngresa, HiloAvisa, HiloCorta,
     HiloElimina, HiloDestruye, conexiones, TipoInterfaces
  <2>3. QED
    BY <2>1, <2>2
<1>7. HilosInv'
  <2> SUFFICES ASSUME NEW j \in Nombres
               PROVE  /\ hilo'[j].pcb # NADA => hilo'[j].pc \in {"sale", "ingresa"}
                      /\ cola'[j] = NADA <=> hilo'[j].pc \in {"ninguno", "quita"}
                      /\ hilo'[j].pc # "ninguno" => Len(sems'[j]) > 0
                      /\ Len(sems'[j]) <= MAX_CONEXIONES
                      /\ io'[j].pid # NADA <=> io'[j].pc = "sirve"
    BY DEF HilosInv
  <2>1. CASE j = i
    <3>1. hilo[i].pc # "ninguno"
      BY DEF EsperarFinIo, HiloRecibe, HiloMira, HiloSaca, HiloSale, HiloIngresa, HiloAvisa, HiloCorta,
         HiloElimina, HiloDestruye, HiloQuita
    <3>2. Len(sems'[i]) > 0 /\ Len(sems'[i]) <= MAX_CONEXIONES
      BY <1>4, <3>1 DEF HilosInv
    <3>3. QED
      BY <1>1, <1>3, <1>5, <2>1, <3>2 DEF HilosInv
  <2>2. CASE j # i
    BY <1>1, <2>2 DEF HilosInv
  <2>3. QED
    BY <2>1, <2>2
<1>8. TipoInterfaces'
  BY <1>3, <1>4, <1>5, <1>6 DEF TipoInterfaces
<1>9. TipoIo'
  <2>1. avisos' \in [Nombres -> Seq(Codigos)]
    <3>1. CASE HiloRecibe(i)
      <4>1. Tail(avisos[i]) \in Seq(Codigos)
        BY <3>1, HeadTailProperties DEF HiloRecibe, TipoIo
      <4>2. QED
        BY <3>1, <4>1 DEF HiloRecibe, TipoIo
    <3>2. CASE ~HiloRecibe(i)
      BY <3>2 DEF EsperarFinIo, HiloMira, HiloSaca, HiloSale, HiloIngresa, HiloAvisa, HiloCorta,
         HiloElimina, HiloDestruye, HiloQuita, conexiones, TipoIo
    <3>3. QED
      BY <3>1, <3>2
  <2>2. QED
    BY <1>1, <2>1 DEF TipoIo
<1>10. DesalojoInv'
  <2>1. \A j \in Nombres : Len(sems'[j]) = Len(sems[j])
    BY <1>1, <1>4
  <2>2. QED
    BY <1>1, <2>1 DEF DesalojoInv, EnEspera
<1>11. TipoPlanif' /\ PlanifInv'
  <2>1. CASE HiloIngresa(i)
    <3>1. hilo[i].pcb \in Pcb
      BY DEF TipoInterfaces
    <3>2. hilo[i].pcb # NADA => Append(planif.ready, hilo[i].pcb) \in Seq(Pids)
      BY <3>1, AppendProperties DEF TipoPlanif, Pcb
    <3>3. TipoPlanif' /\ planif'.exec = planif.exec /\ planif'.cpu = planif.cpu
      <4>1. CASE hilo[i].pcb = NADA
        BY <2>1, <4>1 DEF HiloIngresa, TipoPlanif
      <4>2. CASE hilo[i].pcb # NADA
        <5>1. planif' = [planif EXCEPT !.ready = Append(planif.ready, hilo[i].pcb), !.corto = planif.corto + 1]
          BY <2>1, <4>2 DEF HiloIngresa
        <5>2. planif.corto + 1 \in Nat
          BY DEF TipoPlanif
        <5>3. QED
          BY <3>2, <4>2, <5>1, <5>2 DEF TipoPlanif
      <4>3. QED
        BY <4>1, <4>2
    <3>4. QED
      BY <1>1, <3>3 DEF PlanifInv
  <2>2. CASE ~HiloIngresa(i)
    <3>1. planif' = planif
      BY <2>2 DEF EsperarFinIo, HiloRecibe, HiloMira, HiloSaca, HiloSale, HiloAvisa, HiloCorta,
         HiloElimina, HiloDestruye, HiloQuita
    <3>2. QED
      BY <1>1, <3>1 DEF TipoPlanif, PlanifInv
  <2>3. QED
    BY <2>1, <2>2
<1>12. TipoProcesos'
  <2>1. CASE HiloSale(i)
    <3>1. hilo[i].pcb \in Pcb
      BY DEF TipoInterfaces
    <3>2. QED
      BY <1>1, <2>1, <3>1, ManejarExitTipo DEF HiloSale, TipoProcesos
  <2>2. CASE HiloElimina(i)
    <3>1. hilo[i].k \in Nat \ {0}
      BY DEF TipoInterfaces
    <3>2. ManejarExit(cola[i][hilo[i].k])
      BY <2>2 DEF HiloElimina
    <3>3. cola[i][hilo[i].k] \in Pcb
      <4>1. cola[i] \in Seq(Pids)
        BY <2>2 DEF HiloElimina, TipoInterfaces, HilosInv
      <4>2. hilo[i].k \in 1 .. Len(cola[i])
        BY <2>2, <3>1, <4>1, LenProperties DEF HiloElimina
      <4>3. QED
        BY <4>1, <4>2, ElementOfSeq DEF Pcb
    <3>4. QED
      BY <1>1, <3>2, <3>3, ManejarExitTipo DEF TipoProcesos
  <2>3. CASE ~HiloSale(i) /\ ~HiloElimina(i)
    BY <2>3 DEF EsperarFinIo, HiloRecibe, HiloMira, HiloSaca, HiloIngresa, HiloAvisa, HiloCorta,
       HiloDestruye, HiloQuita, Vivo, Abortar, TipoProcesos
  <2>4. QED
    BY <2>1, <2>2, <2>3
<1>13. QED
  BY <1>2, <1>7, <1>8, <1>9, <1>10, <1>11, <1>12

-----------------------------------------------------------------------------
(* FINALIZAR_PROCESO.                                                      *)
LEMMA FinalizarTipos ==
  ASSUME TiposInv, FinalizarProceso
  PROVE  TiposInv'
<1> USE DEF TiposInv, TypeOK
<1>1. UNCHANGED <<sems, hilo, desalojo, existe_tipo, conexiones, restan>>
  BY DEF FinalizarProceso, Finalizar, FinalizarDeReady, FinalizarDeCola, FinalizarSinPcb, FinalizarSale
<1>2. TipoDesalojo' /\ TipoIo' /\ DesalojoInv'
  BY <1>1 DEF conexiones, TipoDesalojo, TipoIo, DesalojoInv
<1>3. TipoPlanif' /\ PlanifInv'
  <2>1. CASE FinalizarDeReady
    <3>1. RemoveFirst(planif.ready, finaliza.pid) \in Seq(Pids)
      BY RemoveFirstTipo DEF TipoPlanif
    <3>2. TipoPlanif' /\ planif'.exec = planif.exec /\ planif'.cpu = planif.cpu
      BY <2>1, <3>1 DEF FinalizarDeReady, TipoPlanif
    <3>3. QED
      BY <1>1, <3>2 DEF PlanifInv
  <2>2. CASE ~FinalizarDeReady
    <3>1. TipoPlanif' /\ planif'.exec = planif.exec /\ planif'.cpu = planif.cpu
      BY <2>2 DEF FinalizarProceso, Finalizar, FinalizarDeCola, FinalizarSinPcb, FinalizarSale, TipoPlanif
    <3>2. QED
      BY <1>1, <3>1 DEF PlanifInv
  <2>3. QED
    BY <2>1, <2>2
<1>4. TipoInterfaces' /\ HilosInv'
  <2>1. CASE FinalizarDeCola
    <3>1. PICK i \in ConSuPcb(finaliza.pid) : cola' = [cola EXCEPT ![i] = RemoveFirst(@, finaliza.pid)]
      BY <2>1 DEF FinalizarDeCola
    <3>2. i \in Nombres /\ cola[i] # NADA /\ cola[i] \in Seq(Pids)
      BY <3>1 DEF ConSuPcb, TipoInterfaces
    <3>3. RemoveFirst(cola[i], finaliza.pid) \in Seq(Pids)
      BY <3>2, RemoveFirstTipo
    <3>4. RemoveFirst(cola[i], finaliza.pid) # NADA
      BY <3>3, NadaFuera
    <3>5. cola' \in [Nombres -> Seq(Pids) \cup {NADA}] /\ \A j \in Nombres : cola'[j] = NADA <=> cola[j] = NADA
      BY <3>1, <3>2, <3>3, <3>4 DEF TipoInterfaces
    <3>6. QED
      BY <1>1, <3>5 DEF TipoInterfaces, HilosInv, conexiones
  <2>2. CASE ~FinalizarDeCola
    <3>1. cola' = cola
      BY <2>2 DEF FinalizarProceso, Finalizar, FinalizarDeReady, FinalizarSinPcb, FinalizarSale
    <3>2. QED
      BY <1>1, <3>1 DEF TipoInterfaces, HilosInv, conexiones
  <2>3. QED
    BY <2>1, <2>2
<1>5. TipoProcesos' /\ FinalizaInv'
  <2>1. CASE FinalizarSale
    <3>1. finaliza.pid \in Pcb
      BY DEF TipoProcesos
    <3>2. QED
      BY <1>1, <2>1, <3>1, ManejarExitTipo DEF FinalizarSale, TipoProcesos, FinalizaInv, Pcb
  <2>2. ASSUME NEW p \in Pids, Finalizar(p)
        PROVE  TipoProcesos' /\ FinalizaInv'
    BY <1>1, <2>2 DEF Finalizar, Vivo, Desviar, Desvios, TipoProcesos, FinalizaInv, Pcb
  <2>3. CASE FinalizarDeReady \/ FinalizarDeCola \/ FinalizarSinPcb
    BY <1>1, <2>3 DEF FinalizarDeReady, FinalizarDeCola, FinalizarSinPcb, Vivo, TipoProcesos, FinalizaInv, Pcb
  <2>4. QED
    BY <2>1, <2>2, <2>3 DEF FinalizarProceso
<1>6. QED
  BY <1>2, <1>3, <1>4, <1>5

LEMMA InitTipos == Init => TiposInv
<1> SUFFICES ASSUME Init PROVE TiposInv
  OBVIOUS
<1>1. PICK s \in SetToSeqs(Pids) : planif = [ready |-> s, corto |-> Len(s), exec |-> 1, cpu |-> NADA,
                                            retenidas |-> FALSE]
  BY DEF Init
<1>2. s \in Seq(Pids)
  BY SetToSeqsOcurrencias, ConstantesAssumption
<1>3. TipoPlanif
  BY <1>1, <1>2, LenProperties DEF TipoPlanif, Pcb
<1>4. TipoDesalojo /\ DesalojoInv /\ FinalizaInv
  <2>1. 0 \in 0 .. MAX_CONEXIONES
    BY ConstantesAssumption
  <2>2. TipoDesalojo
    BY <2>1 DEF Init, TipoDesalojo, PcDesalojo, Pcb
  <2>3. QED
    BY <2>2 DEF Init, DesalojoInv, FinalizaInv, Atendiendo, EnEspera
<1>5. PlanifInv
  BY <1>1 DEF Init, PlanifInv, Uno
<1>6. <<>> \in Seq(Pids) /\ <<>> \in Seq(0 .. 1) /\ <<>> \in Seq(Punteros) /\ <<>> \in Seq(Codigos)
      /\ Len(<<>>) = 0
  OBVIOUS
<1>7. TipoInterfaces
  BY <1>6 DEF Init, TipoInterfaces, PcHilo, Pcb
<1>8. TipoIo
  BY <1>6 DEF Init, TipoIo, Pcb
<1>9. HilosInv
  BY <1>6, ConstantesAssumption DEF Init, HilosInv
<1>10. TipoProcesos
  BY ConstantesAssumption DEF Init, TipoProcesos, Pcb, Desvios
<1>11. QED
  BY <1>3, <1>4, <1>5, <1>7, <1>8, <1>9, <1>10 DEF TiposInv, TypeOK

(* A connection under a name that is taken is the last step.               *)
LEMMA RepetidaCorta ==
  ASSUME NEW i \in Nombres, ConectarRepetida(i)
  PROVE  /\ UNCHANGED <<kernelVars, conexiones, restan, salidos>>
         /\ kernel = "activo" /\ kernel' = "sin_seguir"
         /\ desvios' = desvios \cup {"repetida"}
BY DEF ConectarRepetida, Desviar

LEMMA NextTipos == TiposInv /\ [Next]_vars => TiposInv'
<1> SUFFICES ASSUME TiposInv, [Next]_vars PROVE TiposInv'
  OBVIOUS
<1>1. CASE UNCHANGED vars
  BY <1>1 DEF vars, kernelVars, conexiones, TiposInv, TypeOK, TipoPlanif, TipoDesalojo, TipoInterfaces,
     TipoIo, TipoProcesos, PlanifInv, DesalojoInv, HilosInv, FinalizaInv
<1>2. CASE Despachar
  BY <1>2, DespacharTipos
<1>3. CASE MotivoDesalojo
  BY <1>3, PedirTipos, TerminarTipos, DesalojoTipos DEF MotivoDesalojo
<1>4. CASE FinalizarProceso
  BY <1>4, FinalizarTipos
<1>5. ASSUME NEW i \in Nombres, Conectar(i) \/ IO(i) \/ Averias(i) \/ EsperarFinIo(i)
      PROVE  TiposInv'
  BY <1>5, ConectarTipos, IoTipos, HiloTipos
<1>6. ASSUME NEW i \in Nombres, ConectarRepetida(i)
      PROVE  TiposInv'
  <2>1. /\ UNCHANGED <<kernelVars, conexiones, restan, salidos>>
        /\ kernel' = "sin_seguir" /\ desvios' = desvios \cup {"repetida"}
    BY <1>6, RepetidaCorta
  <2>2. QED
    BY <2>1 DEF kernelVars, conexiones, TiposInv, TypeOK, TipoPlanif, TipoDesalojo, TipoInterfaces,
       TipoIo, TipoProcesos, PlanifInv, DesalojoInv, HilosInv, FinalizaInv, Desvios
<1>7. QED
  BY <1>1, <1>2, <1>3, <1>4, <1>5, <1>6 DEF Next

(* Every variable keeps its type, sem_exec never has more than one post,   *)
(* and what the threads carry is what their handlers need.                 *)
THEOREM TiposDeInterfaces == Spec => []TypeOK
<1>1. TiposInv => TypeOK
  BY DEF TiposInv
<1>2. QED
  BY <1>1, InitTipos, NextTipos, PTL DEF Spec

-----------------------------------------------------------------------------
(* How many times a PCB is in the queue of an interface or in the hand of  *)
(* its thread.                                                             *)
VecesFila(p, i) == Uno(hilo[i].pcb = p) + Veces(p, EnCola(i))

(* A PCB is in one place at most, ...                                      *)
Separados(p) ==
  /\ Fuera(p) <= 1
  /\ \A i \in Nombres :
       /\ VecesFila(p, i) <= 1
       /\ Fuera(p) > 0 => VecesFila(p, i) = 0
       /\ \A j \in Nombres \ {i} : VecesFila(p, i) = 0 \/ VecesFila(p, j) = 0

(* ... one that was freed is in no place where it could run, ...           *)
Liberado(p) ==
  /\ Veces(p, planif.ready) = 0 /\ planif.cpu # p
  /\ desalojo.pc = "encola" => desalojo.pid # p
  /\ \A i \in Nombres : VecesFila(p, i) > 0 => hilo[i].pc = "elimina"

(* ... and no PCB is lost while no interface is removed.                   *)
Presente(p) ==
  IF p \in salidos THEN finaliza.pc = "sale" => finaliza.pid # p
  ELSE Fuera(p) > 0 \/ \E i \in Nombres : VecesFila(p, i) > 0

SinCortes == \A i \in Nombres :
  /\ hilo[i].pc \notin {"elimina", "quita"}
  /\ Conectada(i) <=> hilo[i].pc # "ninguno"

PartesInv ==
  /\ \A p \in Pids : Separados(p)
  /\ kernel = "activo" => NADA \notin salidos /\ \A p \in Pids \cap salidos : Liberado(p)
  /\ "desconexion" \notin desvios => SinCortes
  /\ kernel = "activo" /\ "desconexion" \notin desvios => \A p \in Pids : Presente(p)

-----------------------------------------------------------------------------
(* The counts of the module are those of ListasProofs.                     *)
LEMMA VecesOcurrencias == \A p, s : Veces(p, s) = Ocurrencias(p, s)
BY DEF Veces, Ocurrencias

LEMMA VecesNat ==
  ASSUME NEW S, NEW s \in Seq(S), NEW p
  PROVE  Veces(p, s) \in Nat /\ (Veces(p, s) > 0 <=> p \in ToSet(s))
BY OcurrenciasNat DEF Veces, Ocurrencias

LEMMA VecesVacia == \A p : Veces(p, <<>>) = 0
<1> TAKE p
<1>1. {k \in DOMAIN <<>> : <<>>[k] = p} = {}
  OBVIOUS
<1>2. QED
  BY <1>1, FS_EmptySet DEF Veces

LEMMA VecesAppend ==
  ASSUME NEW S, NEW s \in Seq(S), NEW e \in S, NEW p
  PROVE  Veces(p, Append(s, e)) = Veces(p, s) + Uno(e = p)
<1>1. Ocurrencias(p, Append(s, e)) = Ocurrencias(p, s) + Cuenta(e = p)
  BY OcurrenciasAppend
<1>2. Cuenta(e = p) = Uno(e = p)
  BY DEF Cuenta, Uno
<1>3. QED
  BY <1>1, <1>2, VecesOcurrencias

LEMMA VecesTail ==
  ASSUME NEW S, NEW s \in Seq(S), s # <<>>, NEW p
  PROVE  Veces(p, s) = Veces(p, Tail(s)) + Uno(Head(s) = p)
<1>1. Ocurrencias(p, s) = Ocurrencias(p, Tail(s)) + Cuenta(Head(s) = p)
  BY OcurrenciasTail
<1>2. Cuenta(Head(s) = p) = Uno(Head(s) = p)
  BY DEF Cuenta, Uno
<1>3. QED
  BY <1>1, <1>2, VecesOcurrencias

LEMMA VecesRemoveFirst ==
  ASSUME NEW S, NEW s \in Seq(S), NEW q \in ToSet(s), NEW p
  PROVE  Veces(p, RemoveFirst(s, q)) = Veces(p, s) - Uno(p = q)
<1>1. Veces(p, RemoveFirst(s, q)) = Veces(p, s) - Cuenta(p = q /\ q \in ToSet(s))
  BY OcurrenciasRemoveFirst DEF Veces, Ocurrencias
<1>2. QED
  BY <1>1 DEF Uno, Cuenta

(* The hand of a thread and the queue of its interface, as one list.       *)
LEMMA VecesMano ==
  ASSUME NEW pcb \in Pcb, NEW c \in Seq(Pids), NEW p \in Pids
  PROVE  LET mano == IF pcb = NADA THEN <<>> ELSE <<pcb>>
         IN  mano \o c \in Seq(Pids) /\ Veces(p, mano \o c) = Uno(pcb = p) + Veces(p, c)
<1> DEFINE mano == IF pcb = NADA THEN <<>> ELSE <<pcb>>
<1>1. mano \in Seq(Pids) /\ Veces(p, mano) = Uno(pcb = p)
  <2>1. CASE pcb = NADA
    <3>1. mano = <<>> /\ <<>> \in Seq(Pids) /\ pcb # p
      BY <2>1, NadaFuera
    <3>2. QED
      BY <3>1, VecesVacia DEF Uno
  <2>2. CASE pcb # NADA
    <3>1. mano = <<pcb>> /\ pcb \in Pids
      BY <2>2 DEF Pcb
    <3>2. <<pcb>> \in Seq(Pids)
      BY <3>1
    <3>3. Veces(p, <<pcb>>) = Uno(pcb = p)
      BY OcurrenciasUno, ZenonT(40) DEF Veces, Ocurrencias, Uno, Cuenta
    <3>4. QED
      BY <3>1, <3>2, <3>3
  <2>3. QED
    BY <2>1, <2>2
<1>2. Veces(p, mano \o c) = Veces(p, mano) + Veces(p, c)
  <2>1. Ocurrencias(p, mano \o c) = Ocurrencias(p, mano) + Ocurrencias(p, c)
    BY <1>1, OcurrenciasConcat
  <2>2. QED
    BY <2>1, VecesOcurrencias
<1>3. mano \o c \in Seq(Pids)
  BY <1>1, ConcatProperties
<1>4. QED
  BY <1>1, <1>2, <1>3

(* The numbers of the invariant are numbers, and stay so.                  *)
LEMMA NumerosNat ==
  ASSUME TiposInv, NEW p \in Pids
  PROVE  /\ Veces(p, planif.ready) \in Nat /\ Fuera(p) \in Nat
         /\ \A i \in Nombres : EnCola(i) \in Seq(Pids) /\ VecesFila(p, i) \in Nat
<1>1. Veces(p, planif.ready) \in Nat
  BY VecesNat DEF TiposInv, TypeOK, TipoPlanif
<1>2. Fuera(p) \in Nat
  BY <1>1 DEF Fuera, Uno
<1>3. ASSUME NEW i \in Nombres
      PROVE  EnCola(i) \in Seq(Pids) /\ VecesFila(p, i) \in Nat
  <2>1. EnCola(i) \in Seq(Pids)
    BY DEF TiposInv, TypeOK, TipoInterfaces, EnCola
  <2>2. Veces(p, EnCola(i)) \in Nat
    BY <2>1, VecesNat
  <2>3. QED
    BY <2>1, <2>2 DEF VecesFila, Uno
<1>4. QED
  BY <1>1, <1>2, <1>3

LEMMA NumerosNatPrima ==
  ASSUME TiposInv', NEW p \in Pids
  PROVE  /\ Veces(p, planif'.ready) \in Nat /\ Fuera(p)' \in Nat
         /\ \A i \in Nombres : EnCola(i)' \in Seq(Pids) /\ VecesFila(p, i)' \in Nat
<1>1. Veces(p, planif'.ready) \in Nat
  BY VecesNat DEF TiposInv, TypeOK, TipoPlanif
<1>2. Fuera(p)' \in Nat
  BY <1>1 DEF Fuera, Uno
<1>3. ASSUME NEW i \in Nombres
      PROVE  EnCola(i)' \in Seq(Pids) /\ VecesFila(p, i)' \in Nat
  <2>1. EnCola(i)' \in Seq(Pids)
    BY DEF TiposInv, TypeOK, TipoInterfaces, EnCola
  <2>2. Veces(p, EnCola(i)') \in Nat
    BY <2>1, VecesNat
  <2>3. QED
    BY <2>1, <2>2 DEF VecesFila, Uno
<1>4. QED
  BY <1>1, <1>2, <1>3

-----------------------------------------------------------------------------
(* What a step does to the places of a PCB: nothing, it goes into the      *)
(* queue of an interface, it leaves it, or it is freed or lost.            *)
Igual(p) == Fuera(p)' = Fuera(p) /\ \A i \in Nombres : VecesFila(p, i)' = VecesFila(p, i)

Entra(p, i) ==
  /\ Fuera(p)' = Fuera(p) - 1 /\ VecesFila(p, i)' = VecesFila(p, i) + 1
  /\ \A j \in Nombres \ {i} : VecesFila(p, j)' = VecesFila(p, j)

Deja(p, i) ==
  /\ Fuera(p)' = Fuera(p) + 1 /\ VecesFila(p, i)' = VecesFila(p, i) - 1
  /\ \A j \in Nombres \ {i} : VecesFila(p, j)' = VecesFila(p, j)

Mengua(p) ==
  /\ Fuera(p)' <= Fuera(p) /\ \A i \in Nombres : VecesFila(p, i)' <= VecesFila(p, i)
  /\ p \in salidos' \/ "desconexion" \in desvios

Movimiento(p) ==
  Igual(p) \/ Mengua(p) \/ \E i \in Nombres : Entra(p, i) \/ Deja(p, i)

(* What has to be shown of a step for each PCB.                            *)
Paso(p) ==
  /\ Movimiento(p)
  /\ kernel' = "activo" /\ p \in salidos' => Liberado(p)'
  /\ kernel' = "activo" /\ "desconexion" \notin desvios /\ p \in salidos' /\ finaliza'.pc = "sale"
       => finaliza'.pid # p

LEMMA PasoPartes ==
  ASSUME TiposInv, TiposInv', NEW p \in Pids, Separados(p), Paso(p), salidos \subseteq salidos'
  PROVE  /\ Separados(p)'
         /\ kernel' = "activo" /\ "desconexion" \notin desvios /\ Presente(p) => Presente(p)'
<1>1. /\ Fuera(p) \in Nat /\ Fuera(p)' \in Nat
      /\ \A i \in Nombres : VecesFila(p, i) \in Nat /\ VecesFila(p, i)' \in Nat
  BY NumerosNat, NumerosNatPrima
<1>2. CASE Igual(p)
  BY <1>2 DEF Igual, Separados, Presente, Paso
<1>3. CASE Mengua(p)
  <2>1. Separados(p)'
    BY <1>1, <1>3 DEF Mengua, Separados
  <2>2. QED
    BY <1>3, <2>1 DEF Mengua, Presente, Paso
<1>4. ASSUME NEW i \in Nombres, Entra(p, i)
      PROVE  Separados(p)' /\ VecesFila(p, i)' > 0
  BY <1>1, <1>4 DEF Entra, Separados
<1>5. ASSUME NEW i \in Nombres, Deja(p, i)
      PROVE  Separados(p)' /\ Fuera(p)' > 0
  BY <1>1, <1>5 DEF Deja, Separados
<1>6. QED
  BY <1>2, <1>3, <1>4, <1>5 DEF Paso, Movimiento, Presente

(* The queues of the interfaces are not touched.                           *)
LEMMA FilasQuietas ==
  ASSUME TiposInv, TiposInv', cola' = cola, \A i \in Nombres : hilo'[i].pcb = hilo[i].pcb, NEW p
  PROVE  \A i \in Nombres : VecesFila(p, i)' = VecesFila(p, i)
BY DEF VecesFila, EnCola

EnDesalojo(p) == Uno(desalojo.pid = p /\ desalojo.pc \in {"invalida", "encola"} /\ p \notin salidos)
EnFinaliza(p) == Uno(finaliza.pid = p /\ finaliza.pc = "sale")

LEMMA FueraPartes ==
  ASSUME TiposInv, TiposInv', NEW p \in Pids
  PROVE  /\ Fuera(p) = Veces(p, planif.ready) + Uno(planif.cpu = p) + EnDesalojo(p) + EnFinaliza(p)
         /\ Fuera(p)' = Veces(p, planif'.ready) + Uno(planif'.cpu = p) + EnDesalojo(p)' + EnFinaliza(p)'
         /\ Veces(p, planif.ready) \in Nat /\ Veces(p, planif'.ready) \in Nat
         /\ Uno(planif.cpu = p) \in 0 .. 1 /\ Uno(planif'.cpu = p) \in 0 .. 1
         /\ EnDesalojo(p) \in 0 .. 1 /\ EnDesalojo(p)' \in 0 .. 1
         /\ EnFinaliza(p) \in 0 .. 1 /\ EnFinaliza(p)' \in 0 .. 1
<1>1. Veces(p, planif.ready) \in Nat /\ Veces(p, planif'.ready) \in Nat
  BY NumerosNat, NumerosNatPrima
<1>2. /\ Uno(planif.cpu = p) \in 0 .. 1 /\ Uno(planif'.cpu = p) \in 0 .. 1
      /\ EnDesalojo(p) \in 0 .. 1 /\ EnDesalojo(p)' \in 0 .. 1
      /\ EnFinaliza(p) \in 0 .. 1 /\ EnFinaliza(p)' \in 0 .. 1
  BY DEF Uno, EnDesalojo, EnFinaliza
<1>3. Fuera(p) = Veces(p, planif.ready) + Uno(planif.cpu = p) + EnDesalojo(p) + EnFinaliza(p)
  BY DEF Fuera, EnDesalojo, EnFinaliza
<1>4. Fuera(p)' = Veces(p, planif'.ready) + Uno(planif'.cpu = p) + EnDesalojo(p)' + EnFinaliza(p)'
  BY DEF Fuera, EnDesalojo, EnFinaliza
<1>5. QED
  BY <1>1, <1>2, <1>3, <1>4

(* The planner, and a process that asks for something or ends.             *)
LEMMA DespacharPaso ==
  ASSUME TiposInv, TiposInv', PartesInv, Despachar, NEW p \in Pids
  PROVE  Paso(p) /\ salidos' = salidos
<1>1. /\ UNCHANGED <<cola, sems, hilo, desalojo, existe_tipo, finaliza, conexiones, restan, desvios, salidos>>
      /\ kernel = "activo"
  BY DEF Despachar, Abortar, Vivo
<1>2. \A i \in Nombres : VecesFila(p, i)' = VecesFila(p, i)
  BY <1>1, FilasQuietas
<1>3. EnDesalojo(p)' = EnDesalojo(p) /\ EnFinaliza(p)' = EnFinaliza(p)
  BY <1>1 DEF EnDesalojo, EnFinaliza
<1>4. Veces(p, planif'.ready) + Uno(planif'.cpu = p) = Veces(p, planif.ready) + Uno(planif.cpu = p)
      /\ (planif' = planif \/ Uno(planif.cpu = p) = 0)
  <2>1. CASE planif.ready = <<>>
    BY <1>1, <2>1 DEF Despachar
  <2>2. CASE planif.ready # <<>>
    <3>1. planif'.ready = Tail(planif.ready) /\ planif'.cpu = Head(planif.ready)
      BY <2>2 DEF Despachar, TiposInv, TypeOK, TipoPlanif
    <3>2. planif.cpu = NADA
      BY DEF Despachar, TiposInv, TypeOK, TipoPlanif, PlanifInv, Uno
    <3>3. planif.ready \in Seq(Pids) /\ Tail(planif.ready) \in Seq(Pids)
      BY <2>2, HeadTailProperties DEF TiposInv, TypeOK, TipoPlanif
    <3>4. Veces(p, planif.ready) = Veces(p, Tail(planif.ready)) + Uno(Head(planif.ready) = p)
      BY <2>2, <3>3, VecesTail
    <3>5. Uno(planif.cpu = p) = 0
      BY <3>2, NadaFuera DEF Uno
    <3>6. Veces(p, Tail(planif.ready)) \in Nat
      BY <3>3, VecesNat
    <3>7. Uno(planif'.cpu = p) = Uno(Head(planif.ready) = p) /\ Uno(planif'.cpu = p) \in 0 .. 1
      BY <3>1 DEF Uno
    <3>8. QED
      BY <3>1, <3>4, <3>5, <3>6, <3>7
  <2>3. QED
    BY <2>1, <2>2
<1>5. Igual(p)
  <2>1. Fuera(p)' = Fuera(p)
    BY <1>3, <1>4, FueraPartes
  <2>2. QED
    BY <1>2, <2>1 DEF Igual
<1>6. ASSUME p \in salidos', kernel' = "activo"
      PROVE  Liberado(p)'
  <2>1. Liberado(p)
    BY <1>1, <1>6 DEF PartesInv
  <2>2. Veces(p, planif'.ready) = 0 /\ Uno(planif'.cpu = p) = 0
    <3>1. Veces(p, planif.ready) = 0 /\ Uno(planif.cpu = p) = 0
      BY <2>1 DEF Liberado, Uno
    <3>2. QED
      BY <1>4, <3>1, FueraPartes
  <2>3. QED
    BY <1>1, <1>2, <2>1, <2>2 DEF Liberado, Uno
<1>7. kernel' = "activo" /\ "desconexion" \notin desvios /\ p \in salidos' /\ finaliza'.pc = "sale"
        => finaliza'.pid # p
  BY <1>1 DEF PartesInv, Presente
<1>8. QED
  BY <1>1, <1>5, <1>6, <1>7 DEF Paso, Movimiento

LEMMA PedirPaso ==
  ASSUME TiposInv, TiposInv', PartesInv, NEW q \in Pedidos, Pedir(q[1], q[2]), NEW p \in Pids
  PROVE  Paso(p) /\ salidos' = salidos
<1>1. /\ UNCHANGED <<cola, sems, hilo, finaliza, conexiones, salidos, kernel>>
      /\ kernel = "activo" /\ desalojo.pc = "recibe" /\ planif.cpu # NADA
      /\ planif' = [planif EXCEPT !.cpu = NADA]
      /\ desalojo'.pc \in {"encola", "invalida"} /\ desalojo'.pid = planif.cpu
  BY DEF Pedir, Vivo
<1>2. \A i \in Nombres : VecesFila(p, i)' = VecesFila(p, i)
  BY <1>1, FilasQuietas
<1>3. planif'.ready = planif.ready /\ planif'.cpu = NADA
  BY <1>1 DEF TiposInv, TypeOK, TipoPlanif
<1>4. ASSUME p \in salidos
      PROVE  Liberado(p) /\ planif.cpu # p
  BY <1>1, <1>4 DEF PartesInv, Liberado
<1>5. /\ Uno(planif'.cpu = p) = 0 /\ EnDesalojo(p) = 0 /\ EnDesalojo(p)' = Uno(planif.cpu = p)
      /\ EnFinaliza(p)' = EnFinaliza(p)
  BY <1>1, <1>3, <1>4, NadaFuera DEF EnDesalojo, EnFinaliza, Uno
<1>6. Igual(p)
  <2>1. Fuera(p)' = Fuera(p)
    BY <1>3, <1>5, FueraPartes
  <2>2. QED
    BY <1>2, <2>1 DEF Igual
<1>7. p \in salidos' => Liberado(p)'
  BY <1>1, <1>2, <1>3, <1>4, NadaFuera DEF Liberado
<1>8. kernel' = "activo" /\ "desconexion" \notin desvios /\ p \in salidos' /\ finaliza'.pc = "sale"
        => finaliza'.pid # p
  BY <1>1 DEF PartesInv, Presente
<1>9. QED
  BY <1>1, <1>6, <1>7, <1>8 DEF Paso, Movimiento

LEMMA TerminarPaso ==
  ASSUME TiposInv, TiposInv', PartesInv, Terminar, NEW p \in Pids
  PROVE  Paso(p) /\ salidos' = salidos \cup {planif.cpu}
<1>1. /\ UNCHANGED <<cola, sems, hilo, finaliza, conexiones, desvios>>
      /\ kernel = "activo" /\ desalojo.pc = "recibe" /\ planif.cpu # NADA
      /\ planif' = [planif EXCEPT !.cpu = NADA]
      /\ desalojo' = [desalojo EXCEPT !.pc = "fin"]
      /\ salidos' = salidos \cup {planif.cpu}
  BY DEF Terminar, ManejarExit
<1>2. \A i \in Nombres : VecesFila(p, i)' = VecesFila(p, i)
  BY <1>1, FilasQuietas
<1>3. planif'.ready = planif.ready /\ planif'.cpu = NADA /\ desalojo'.pc = "fin"
  BY <1>1 DEF TiposInv, TypeOK, TipoPlanif, TipoDesalojo
<1>4. /\ Uno(planif'.cpu = p) = 0 /\ EnDesalojo(p) = 0 /\ EnDesalojo(p)' = 0
      /\ EnFinaliza(p)' = EnFinaliza(p) /\ (p = planif.cpu => Uno(planif.cpu = p) = 1)
      /\ (p # planif.cpu => Uno(planif.cpu = p) = 0)
  BY <1>1, <1>3, NadaFuera DEF EnDesalojo, EnFinaliza, Uno
<1>5. Separados(p)
  BY DEF PartesInv
<1>6. CASE p = planif.cpu
  <2>1. Fuera(p) = 1 /\ Veces(p, planif.ready) = 0 /\ EnFinaliza(p) = 0 /\ Fuera(p)' = 0
    BY <1>3, <1>4, <1>5, <1>6, FueraPartes DEF Separados
  <2>2. Mengua(p)
    <3>1. \A i \in Nombres : VecesFila(p, i)' <= VecesFila(p, i)
      BY <1>2, NumerosNat
    <3>2. QED
      BY <1>1, <1>6, <2>1, <3>1 DEF Mengua
  <2>3. \A i \in Nombres : VecesFila(p, i)' = 0
    BY <1>2, <1>5, <2>1 DEF Separados
  <2>4. Liberado(p)'
    BY <1>3, <2>1, <2>3, NadaFuera DEF Liberado
  <2>5. ~(finaliza'.pid = p /\ finaliza'.pc = "sale")
    BY <1>1, <2>1 DEF EnFinaliza, Uno
  <2>6. QED
    BY <1>1, <2>2, <2>4, <2>5 DEF Paso, Movimiento
<1>7. CASE p # planif.cpu
  <2>1. Igual(p)
    <3>1. Fuera(p)' = Fuera(p)
      BY <1>3, <1>4, <1>7, FueraPartes
    <3>2. QED
      BY <1>2, <3>1 DEF Igual
  <2>2. p \in salidos' => Liberado(p)'
    BY <1>1, <1>2, <1>3, <1>7, NadaFuera DEF PartesInv, Liberado
  <2>3. kernel' = "activo" /\ "desconexion" \notin desvios /\ p \in salidos' /\ finaliza'.pc = "sale"
        => finaliza'.pid # p
    BY <1>1, <1>7 DEF PartesInv, Presente
  <2>4. QED
    BY <1>1, <2>1, <2>2, <2>3 DEF Paso, Movimiento
<1>8. QED
  BY <1>6, <1>7

(* A step that touches no PCB.                                             *)
LEMMA PasoQuieto ==
  ASSUME TiposInv, TiposInv', PartesInv, NEW p \in Pids, kernel = "activo",
         UNCHANGED <<salidos, cola>>, planif'.ready = planif.ready, planif'.cpu = planif.cpu,
         \A i \in Nombres : hilo'[i].pcb = hilo[i].pcb,
         \A i \in Nombres : hilo'[i].pc = hilo[i].pc \/ hilo[i].pc # "elimina",
         EnDesalojo(p)' = EnDesalojo(p), desalojo'.pc # "encola" \/ desalojo' = desalojo,
         EnFinaliza(p)' = EnFinaliza(p)
  PROVE  Paso(p)
<1>1. \A i \in Nombres : VecesFila(p, i)' = VecesFila(p, i)
  BY FilasQuietas
<1>2. Igual(p)
  <2>1. Fuera(p)' = Fuera(p)
    BY FueraPartes
  <2>2. QED
    BY <1>1, <2>1 DEF Igual
<1>3. p \in salidos' => Liberado(p)'
  BY <1>1 DEF PartesInv, Liberado
<1>4. kernel' = "activo" /\ "desconexion" \notin desvios /\ p \in salidos' /\ finaliza'.pc = "sale"
        => finaliza'.pid # p
  <2>1. p \in salidos /\ "desconexion" \notin desvios => EnFinaliza(p) = 0
    BY DEF PartesInv, Presente, EnFinaliza, Uno
  <2>2. finaliza'.pc = "sale" /\ finaliza'.pid = p => EnFinaliza(p)' = 1
    BY DEF EnFinaliza, Uno
  <2>3. QED
    BY <2>1, <2>2
<1>5. QED
  BY <1>2, <1>3, <1>4 DEF Paso, Movimiento

(* The eviction thread.                                                    *)
LEMMA DesalojoQuieto ==
  ASSUME TiposInv, TiposInv', PartesInv, NEW p \in Pids,
         DesalojoSinCola \/ DesalojoToma \/ DesalojoEspera \/ DesalojoEnvia \/ DesalojoFin
  PROVE  Paso(p) /\ salidos' = salidos
<1>1. /\ UNCHANGED <<cola, hilo, finaliza, salidos>> /\ kernel = "activo"
      /\ planif'.ready = planif.ready /\ planif'.cpu = planif.cpu
  BY DEF DesalojoSinCola, DesalojoToma, DesalojoEspera, DesalojoEnvia, DesalojoFin, Vivo, Llega, SePierde,
     Abortar, TiposInv, TypeOK, TipoPlanif
<1>2. /\ desalojo'.pid = desalojo.pid /\ desalojo'.pc # "encola"
      /\ desalojo'.pc \in {"invalida", "encola"} <=> desalojo.pc \in {"invalida", "encola"}
  <2>1. CASE DesalojoSinCola
    BY <2>1 DEF DesalojoSinCola, DesalojoA, TiposInv, TypeOK, TipoDesalojo
  <2>2. CASE DesalojoToma
    BY <2>2 DEF DesalojoToma, TiposInv, TypeOK, TipoDesalojo
  <2>3. CASE DesalojoEspera \/ DesalojoFin
    BY <2>3 DEF DesalojoEspera, DesalojoFin, DesalojoA, TiposInv, TypeOK, TipoDesalojo
  <2>4. CASE DesalojoEnvia
    BY <2>4 DEF DesalojoEnvia, DesalojoA, TiposInv, TypeOK, TipoDesalojo
  <2>5. QED
    BY <2>1, <2>2, <2>3, <2>4
<1>3. EnDesalojo(p)' = EnDesalojo(p) /\ EnFinaliza(p)' = EnFinaliza(p)
  BY <1>1, <1>2 DEF EnDesalojo, EnFinaliza
<1>4. QED
  BY <1>1, <1>2, <1>3, PasoQuieto

LEMMA DesalojoInvalidaPaso ==
  ASSUME TiposInv, TiposInv', PartesInv, NEW p \in Pids, DesalojoInvalida
  PROVE  Paso(p) /\ salidos' = salidos \cup {desalojo.pid}
<1>1. /\ UNCHANGED <<planif, cola, sems, hilo, existe_tipo, finaliza, conexiones, restan, desvios>>
      /\ kernel = "activo" /\ desalojo.pc = "invalida" /\ salidos' = salidos \cup {desalojo.pid}
      /\ kernel' = "activo" => desalojo.pid \notin salidos
      /\ desalojo'.pid = desalojo.pid /\ desalojo'.pc \in {"invalida", "fin"}
  BY DEF DesalojoInvalida, DesalojoA, ManejarExit, TiposInv, TypeOK, TipoDesalojo
<1>2. \A i \in Nombres : VecesFila(p, i)' = VecesFila(p, i)
  BY <1>1, FilasQuietas
<1>3. EnDesalojo(p)' = 0 /\ EnFinaliza(p)' = EnFinaliza(p)
      /\ (p # desalojo.pid => EnDesalojo(p) = 0)
      /\ (p = desalojo.pid /\ p \notin salidos => EnDesalojo(p) = 1)
  BY <1>1 DEF EnDesalojo, EnFinaliza, Uno
<1>4. Separados(p) /\ Fuera(p)' <= Fuera(p)
  BY <1>1, <1>3, FueraPartes DEF PartesInv
<1>5. CASE p = desalojo.pid
  <2>1. Mengua(p)
    <3>1. \A i \in Nombres : VecesFila(p, i)' <= VecesFila(p, i)
      BY <1>2, NumerosNat
    <3>2. QED
      BY <1>1, <1>4, <1>5, <3>1 DEF Mengua
  <2>2. ASSUME kernel' = "activo"
        PROVE  Liberado(p)' /\ ~(finaliza'.pid = p /\ finaliza'.pc = "sale")
    <3>1. EnDesalojo(p) = 1
      BY <1>1, <1>3, <1>5, <2>2
    <3>2. Fuera(p) = 1 /\ Veces(p, planif.ready) = 0 /\ EnFinaliza(p) = 0 /\ Uno(planif.cpu = p) = 0
      BY <1>4, <3>1, FueraPartes DEF Separados
    <3>3. \A i \in Nombres : VecesFila(p, i)' = 0
      BY <1>2, <1>4, <3>2 DEF Separados
    <3>4. QED
      BY <1>1, <3>2, <3>3 DEF Liberado, EnFinaliza, Uno
  <2>3. QED
    BY <1>1, <2>1, <2>2 DEF Paso, Movimiento
<1>6. CASE p # desalojo.pid
  <2>1. Igual(p)
    <3>1. Fuera(p)' = Fuera(p)
      BY <1>1, <1>3, <1>6, FueraPartes
    <3>2. QED
      BY <1>2, <3>1 DEF Igual
  <2>2. p \in salidos' => Liberado(p)'
    BY <1>1, <1>2, <1>6 DEF PartesInv, Liberado
  <2>3. kernel' = "activo" /\ "desconexion" \notin desvios /\ p \in salidos' /\ finaliza'.pc = "sale"
        => finaliza'.pid # p
    BY <1>1, <1>6 DEF PartesInv, Presente
  <2>4. QED
    BY <1>1, <2>1, <2>2, <2>3 DEF Paso, Movimiento
<1>7. QED
  BY <1>1, <1>5, <1>6

LEMMA DesalojoEncolaPaso ==
  ASSUME TiposInv, TiposInv', PartesInv, NEW p \in Pids, DesalojoEncola
  PROVE  Paso(p) /\ salidos' = salidos
<1>0. PICK n : n = desalojo.nombre
  OBVIOUS
<1>1. /\ UNCHANGED <<planif, sems, hilo, existe_tipo, finaliza, conexiones, restan, desvios, salidos, kernel>>
      /\ kernel = "activo" /\ desalojo.pc = "encola"
      /\ n \in Nombres /\ cola[n] # NADA /\ desalojo.pid \in Pids
      /\ cola' = [cola EXCEPT ![n] = Append(@, desalojo.pid)]
      /\ desalojo'.pid = desalojo.pid /\ desalojo'.pc = "toma"
  BY <1>0, NadaFuera DEF DesalojoEncola, ColaDe, Encolada, DesalojoA, Vivo, TiposInv, TypeOK, TipoDesalojo,
     DesalojoInv, Atendiendo
<1>2. cola[n] \in Seq(Pids) /\ EnCola(n) = cola[n]
  BY <1>1 DEF TiposInv, TypeOK, TipoInterfaces, EnCola
<1>3. Append(cola[n], desalojo.pid) \in Seq(Pids)
  BY <1>1, <1>2, AppendProperties
<1>4. EnCola(n)' = Append(cola[n], desalojo.pid) /\ \A i \in Nombres \ {n} : EnCola(i)' = EnCola(i)
  <2>1. cola'[n] = Append(cola[n], desalojo.pid) /\ \A i \in Nombres \ {n} : cola'[i] = cola[i]
    BY <1>1 DEF TiposInv, TypeOK, TipoInterfaces
  <2>2. cola'[n] # NADA
    BY <1>3, <2>1, NadaFuera
  <2>3. QED
    BY <2>1, <2>2 DEF EnCola
<1>5. Veces(p, EnCola(n)') = Veces(p, EnCola(n)) + Uno(desalojo.pid = p)
  BY <1>1, <1>2, <1>4, VecesAppend
<1>6. /\ VecesFila(p, n)' = VecesFila(p, n) + Uno(desalojo.pid = p)
      /\ \A i \in Nombres \ {n} : VecesFila(p, i)' = VecesFila(p, i)
  <2>1. Veces(p, EnCola(n)) \in Nat
    BY <1>1, <1>2, VecesNat
  <2>2. VecesFila(p, n)' = Uno(hilo[n].pcb = p) + Veces(p, EnCola(n)')
    BY <1>1 DEF VecesFila
  <2>3. VecesFila(p, n) = Uno(hilo[n].pcb = p) + Veces(p, EnCola(n))
    BY DEF VecesFila
  <2>4. Uno(hilo[n].pcb = p) \in 0 .. 1 /\ Uno(desalojo.pid = p) \in 0 .. 1
    BY DEF Uno
  <2>5. VecesFila(p, n)' = VecesFila(p, n) + Uno(desalojo.pid = p)
    BY <1>5, <2>1, <2>2, <2>3, <2>4
  <2>6. QED
    BY <1>1, <1>4, <2>5 DEF VecesFila
<1>7. desalojo.pid \notin salidos
  BY <1>1 DEF PartesInv, Liberado
<1>8. /\ EnDesalojo(p) = Uno(desalojo.pid = p) /\ EnDesalojo(p)' = 0
      /\ EnFinaliza(p)' = EnFinaliza(p)
  BY <1>1, <1>7 DEF EnDesalojo, EnFinaliza, Uno
<1>9. Movimiento(p)
  <2>1. CASE desalojo.pid = p
    <3>1. Entra(p, n)
      <4>1. Fuera(p)' = Fuera(p) - 1
        BY <1>1, <1>8, <2>1, FueraPartes DEF Uno
      <4>2. QED
        BY <1>6, <2>1, <4>1 DEF Entra, Uno
    <3>2. QED
      BY <1>1, <3>1 DEF Movimiento
  <2>2. CASE desalojo.pid # p
    <3>1. Fuera(p)' = Fuera(p)
      BY <1>1, <1>8, <2>2, FueraPartes DEF Uno
    <3>2. \A i \in Nombres : VecesFila(p, i)' = VecesFila(p, i)
      <4>1. Uno(desalojo.pid = p) = 0 /\ VecesFila(p, n) \in Nat
        BY <1>1, <2>2, NumerosNat DEF Uno
      <4>2. QED
        BY <1>6, <4>1
    <3>3. QED
      BY <3>1, <3>2 DEF Movimiento, Igual
  <2>3. QED
    BY <2>1, <2>2
<1>10. p \in salidos' => Liberado(p)'
  <2> SUFFICES ASSUME p \in salidos PROVE Liberado(p)'
    BY <1>1
  <2>1. Liberado(p) /\ desalojo.pid # p
    BY <1>1, <1>7 DEF PartesInv
  <2>2. \A i \in Nombres : VecesFila(p, i)' = VecesFila(p, i)
    <3>1. Uno(desalojo.pid = p) = 0 /\ VecesFila(p, n) \in Nat
      BY <1>1, <2>1, NumerosNat DEF Uno
    <3>2. QED
      BY <1>6, <3>1
  <2>3. QED
    BY <1>1, <2>1, <2>2 DEF Liberado
<1>11. kernel' = "activo" /\ "desconexion" \notin desvios /\ p \in salidos' /\ finaliza'.pc = "sale"
        => finaliza'.pid # p
  BY <1>1 DEF PartesInv, Presente
<1>12. QED
  BY <1>1, <1>9, <1>10, <1>11 DEF Paso

(* The connection of an interface, and its IO program.                     *)
LEMMA ConectarPaso ==
  ASSUME TiposInv, TiposInv', PartesInv, NEW p \in Pids, NEW i \in Nombres, Conectar(i)
  PROVE  Paso(p) /\ salidos' = salidos
<1>1. /\ UNCHANGED <<planif, desalojo, existe_tipo, finaliza, avisos, restan, desvios, salidos, kernel>>
      /\ kernel = "activo" /\ hilo[i].pc = "ninguno" /\ cola' = [cola EXCEPT ![i] = <<>>]
      /\ hilo' = [hilo EXCEPT ![i].pc = "recibe"]
  BY DEF Conectar, Vivo
<1>2. \A j \in Nombres : hilo'[j].pcb = hilo[j].pcb /\ (hilo'[j].pc = hilo[j].pc \/ hilo[j].pc # "elimina")
  BY <1>1 DEF TiposInv, TypeOK, TipoInterfaces
<1>3. \A j \in Nombres : EnCola(j)' = EnCola(j)
  BY <1>1, NadaFuera DEF EnCola, TiposInv, TypeOK, TipoInterfaces, HilosInv
<1>4. \A j \in Nombres : VecesFila(p, j)' = VecesFila(p, j)
  BY <1>2, <1>3 DEF VecesFila
<1>5. EnDesalojo(p)' = EnDesalojo(p) /\ EnFinaliza(p)' = EnFinaliza(p)
  BY <1>1 DEF EnDesalojo, EnFinaliza
<1>6. Igual(p)
  <2>1. Fuera(p)' = Fuera(p)
    BY <1>1, <1>5, FueraPartes
  <2>2. QED
    BY <1>4, <2>1 DEF Igual
<1>7. p \in salidos' => Liberado(p)'
  BY <1>1, <1>2, <1>4 DEF PartesInv, Liberado
<1>8. kernel' = "activo" /\ "desconexion" \notin desvios /\ p \in salidos' /\ finaliza'.pc = "sale"
        => finaliza'.pid # p
  BY <1>1 DEF PartesInv, Presente
<1>9. QED
  BY <1>1, <1>6, <1>7, <1>8 DEF Paso, Movimiento

LEMMA IoPaso ==
  ASSUME TiposInv, TiposInv', PartesInv, NEW p \in Pids, NEW i \in Nombres, IO(i) \/ Averias(i)
  PROVE  Paso(p) /\ salidos' = salidos
<1>1. UNCHANGED <<kernelVars, salidos, kernel>> /\ kernel = "activo"
  BY DEF IO, IoToma, IoTermina, IoContesta, Averias, IoFalla, IoFallaYTermina, Desconectar, Vivo
<1>2. EnDesalojo(p)' = EnDesalojo(p) /\ EnFinaliza(p)' = EnFinaliza(p)
  BY <1>1 DEF EnDesalojo, EnFinaliza, kernelVars
<1>3. QED
  BY <1>1, <1>2, PasoQuieto DEF kernelVars

(* The thread of an interface.                                             *)
LEMMA HiloQuieto ==
  ASSUME TiposInv, TiposInv', PartesInv, NEW p \in Pids, NEW i \in Nombres,
         HiloRecibe(i) \/ HiloMira(i) \/ HiloAvisa(i) \/ HiloCorta(i) \/ HiloQuita(i)
  PROVE  Paso(p) /\ salidos' = salidos
<1>1. /\ UNCHANGED <<planif, cola, desalojo, finaliza, salidos>> /\ kernel = "activo"
      /\ hilo[i].pc # "elimina" /\ hilo[i].pcb = NADA
  BY DEF HiloRecibe, HiloMira, HiloAvisa, HiloCorta, HiloQuita, Vivo, TiposInv, HilosInv
<1>2. /\ hilo'[i].pcb = NADA /\ \A j \in Nombres \ {i} : hilo'[j] = hilo[j]
  <2>1. CASE HiloRecibe(i)
    BY <2>1 DEF HiloRecibe, TiposInv, TypeOK, TipoInterfaces
  <2>2. CASE HiloMira(i) \/ HiloAvisa(i) \/ HiloQuita(i)
    <3>1. PICK pc : HiloA(i, pc)
      BY <2>2 DEF HiloMira, HiloAvisa, HiloQuita
    <3>2. QED
      BY <1>1, <3>1 DEF HiloA, TiposInv, TypeOK, TipoInterfaces
  <2>3. CASE HiloCorta(i)
    BY <1>1, <2>3 DEF HiloCorta, TiposInv, TypeOK, TipoInterfaces
  <2>4. QED
    BY <2>1, <2>2, <2>3
<1>3. \A j \in Nombres : hilo'[j].pcb = hilo[j].pcb /\ (hilo'[j].pc = hilo[j].pc \/ hilo[j].pc # "elimina")
  BY <1>1, <1>2
<1>4. EnDesalojo(p)' = EnDesalojo(p) /\ EnFinaliza(p)' = EnFinaliza(p)
  BY <1>1 DEF EnDesalojo, EnFinaliza
<1>5. QED
  BY <1>1, <1>3, <1>4, PasoQuieto

LEMMA HiloSacaPaso ==
  ASSUME TiposInv, TiposInv', PartesInv, NEW p \in Pids, NEW i \in Nombres, HiloSaca(i)
  PROVE  Paso(p) /\ salidos' = salidos
<1>1. /\ UNCHANGED <<planif, desalojo, finaliza, salidos>> /\ kernel = "activo"
      /\ hilo[i].pc = "saca" /\ hilo[i].pcb = NADA
      /\ cola[i] \in Seq(Pids)
  BY DEF HiloSaca, Vivo, Abortar, TiposInv, TypeOK, TipoInterfaces, HilosInv
<1>2. \A j \in Nombres \ {i} : hilo'[j] = hilo[j] /\ cola'[j] = cola[j]
  BY DEF HiloSaca, TiposInv, TypeOK, TipoInterfaces
<1>3. VecesFila(p, i)' = VecesFila(p, i)
  <2>1. CASE cola[i] = <<>>
    BY <2>1 DEF HiloSaca, VecesFila, EnCola
  <2>2. CASE cola[i] # <<>>
    <3>1. hilo'[i].pcb = Head(cola[i]) /\ cola'[i] = Tail(cola[i])
      <4>1. /\ hilo' = [hilo EXCEPT ![i] = [@ EXCEPT !.pc = Resolver(i), !.pcb = Head(cola[i])]]
            /\ cola' = [cola EXCEPT ![i] = Tail(@)]
        BY <2>2 DEF HiloSaca
      <4>2. hilo'[i] = [hilo[i] EXCEPT !.pc = Resolver(i), !.pcb = Head(cola[i])]
        BY <4>1 DEF TiposInv, TypeOK, TipoInterfaces
      <4>3. cola'[i] = Tail(cola[i])
        BY <4>1 DEF TiposInv, TypeOK, TipoInterfaces
      <4>4. QED
        BY <4>2, <4>3 DEF TiposInv, TypeOK, TipoInterfaces
    <3>2. Head(cola[i]) \in Pids /\ Tail(cola[i]) \in Seq(Pids)
      BY <1>1, <2>2, HeadTailProperties
    <3>3. EnCola(i) = cola[i] /\ EnCola(i)' = Tail(cola[i])
      BY <1>1, <3>1, <3>2, NadaFuera DEF EnCola
    <3>4. Veces(p, cola[i]) = Veces(p, Tail(cola[i])) + Uno(Head(cola[i]) = p)
      BY <1>1, <2>2, VecesTail
    <3>5. VecesFila(p, i)' = Uno(Head(cola[i]) = p) + Veces(p, Tail(cola[i]))
      BY <3>1, <3>3 DEF VecesFila
    <3>6. Uno(hilo[i].pcb = p) = 0 /\ Uno(Head(cola[i]) = p) \in 0 .. 1
      BY <1>1, NadaFuera DEF Uno
    <3>7. Veces(p, Tail(cola[i])) \in Nat
      BY <3>2, VecesNat
    <3>8. VecesFila(p, i) = Veces(p, cola[i])
      BY <3>3, <3>4, <3>6, <3>7 DEF VecesFila
    <3>9. QED
      BY <3>4, <3>5, <3>6, <3>7, <3>8
  <2>3. QED
    BY <2>1, <2>2
<1>4. \A j \in Nombres : VecesFila(p, j)' = VecesFila(p, j)
  BY <1>2, <1>3 DEF VecesFila, EnCola
<1>5. Igual(p)
  <2>1. EnDesalojo(p)' = EnDesalojo(p) /\ EnFinaliza(p)' = EnFinaliza(p)
    BY <1>1 DEF EnDesalojo, EnFinaliza
  <2>2. Fuera(p)' = Fuera(p)
    BY <1>1, <2>1, FueraPartes
  <2>3. QED
    BY <1>4, <2>2 DEF Igual
<1>6. p \in salidos' => Liberado(p)'
  BY <1>1, <1>2, <1>4 DEF PartesInv, Liberado
<1>7. kernel' = "activo" /\ "desconexion" \notin desvios /\ p \in salidos' /\ finaliza'.pc = "sale"
        => finaliza'.pid # p
  BY <1>1 DEF PartesInv, Presente
<1>8. QED
  BY <1>1, <1>5, <1>6, <1>7 DEF Paso, Movimiento

LEMMA HiloSalePaso ==
  ASSUME TiposInv, TiposInv', PartesInv, NEW p \in Pids, NEW i \in Nombres, HiloSale(i)
  PROVE  Paso(p) /\ salidos' = salidos \cup {hilo[i].pcb}
<1>1. /\ UNCHANGED <<planif, cola, desalojo, finaliza, desvios>> /\ kernel = "activo"
      /\ hilo[i].pc = "sale" /\ salidos' = salidos \cup {hilo[i].pcb}
      /\ kernel' = "activo" => hilo[i].pcb \notin salidos
  BY DEF HiloSale, ManejarExit
<1>2. /\ \A j \in Nombres \ {i} : hilo'[j] = hilo[j]
      /\ hilo'[i].pcb = NADA /\ hilo'[i].pc = "recibe"
  BY DEF HiloSale, TiposInv, TypeOK, TipoInterfaces
<1>3. EnCola(i)' = EnCola(i) /\ EnCola(i) \in Seq(Pids)
  BY <1>1, NumerosNat DEF EnCola
<1>4. /\ VecesFila(p, i)' = VecesFila(p, i) - Uno(hilo[i].pcb = p)
      /\ \A j \in Nombres \ {i} : VecesFila(p, j)' = VecesFila(p, j)
  <2>1. VecesFila(p, i) = Uno(hilo[i].pcb = p) + Veces(p, EnCola(i))
    BY DEF VecesFila
  <2>2. VecesFila(p, i)' = Veces(p, EnCola(i))
    <3>1. Uno(hilo'[i].pcb = p) = 0
      BY <1>2, NadaFuera DEF Uno
    <3>2. Veces(p, EnCola(i)) \in Nat
      BY <1>3, VecesNat
    <3>3. QED
      BY <1>3, <3>1, <3>2 DEF VecesFila
  <2>3. Uno(hilo[i].pcb = p) \in 0 .. 1 /\ Veces(p, EnCola(i)) \in Nat
    BY <1>3, VecesNat DEF Uno
  <2>4. VecesFila(p, i)' = VecesFila(p, i) - Uno(hilo[i].pcb = p)
    BY <2>1, <2>2, <2>3
  <2>5. QED
    BY <1>1, <1>2, <2>4 DEF VecesFila, EnCola
<1>5. Separados(p) /\ EnFinaliza(p)' = EnFinaliza(p)
  BY <1>1 DEF PartesInv, EnFinaliza
<1>6. CASE p = hilo[i].pcb
  <2>1. VecesFila(p, i) = 1 /\ VecesFila(p, i)' = 0 /\ Fuera(p) = 0
    <3>1. VecesFila(p, i)' = VecesFila(p, i) - 1 /\ VecesFila(p, i) \in Nat /\ VecesFila(p, i)' \in Nat
          /\ Fuera(p) \in Nat
      BY <1>4, <1>6, NumerosNat, NumerosNatPrima DEF Uno
    <3>2. QED
      BY <1>5, <3>1 DEF Separados
  <2>2. /\ Veces(p, planif.ready) = 0 /\ Uno(planif.cpu = p) = 0 /\ EnDesalojo(p) = 0 /\ EnFinaliza(p) = 0
    BY <2>1, FueraPartes
  <2>3. EnDesalojo(p)' = 0
    BY <1>1, <1>6 DEF EnDesalojo, Uno
  <2>4. Fuera(p)' = 0
    BY <1>1, <1>5, <2>2, <2>3, FueraPartes
  <2>5. \A j \in Nombres : VecesFila(p, j) \in Nat /\ (j # i => VecesFila(p, j) = 0)
    BY <1>5, <2>1, NumerosNat DEF Separados
  <2>6. \A j \in Nombres : VecesFila(p, j)' = 0
    BY <1>4, <2>1, <2>5
  <2>7. Mengua(p)
    BY <1>1, <1>6, <2>1, <2>4, <2>5, <2>6 DEF Mengua
  <2>8. kernel' = "activo" => Liberado(p)'
    <3>1. kernel' = "activo" /\ desalojo.pc = "encola" => desalojo.pid # p
      BY <1>1, <1>6, <2>2 DEF EnDesalojo, Uno
    <3>2. QED
      BY <1>1, <2>2, <2>6, <3>1 DEF Liberado, Uno
  <2>9. ~(finaliza'.pid = p /\ finaliza'.pc = "sale")
    BY <1>1, <2>2 DEF EnFinaliza, Uno
  <2>10. QED
    BY <1>1, <2>7, <2>8, <2>9 DEF Paso, Movimiento
<1>7. CASE p # hilo[i].pcb
  <2>1. \A j \in Nombres : VecesFila(p, j)' = VecesFila(p, j)
    <3>1. Uno(hilo[i].pcb = p) = 0 /\ VecesFila(p, i) \in Nat
      BY <1>7, NumerosNat DEF Uno
    <3>2. QED
      BY <1>4, <3>1
  <2>2. Igual(p)
    <3>1. EnDesalojo(p)' = EnDesalojo(p)
      BY <1>1, <1>7 DEF EnDesalojo
    <3>2. Fuera(p)' = Fuera(p)
      BY <1>1, <1>5, <3>1, FueraPartes
    <3>3. QED
      BY <2>1, <3>2 DEF Igual
  <2>3. p \in salidos' => Liberado(p)'
    BY <1>1, <1>2, <1>7, <2>1 DEF PartesInv, Liberado
  <2>4. kernel' = "activo" /\ "desconexion" \notin desvios /\ p \in salidos' /\ finaliza'.pc = "sale"
        => finaliza'.pid # p
    BY <1>1, <1>7 DEF PartesInv, Presente
  <2>5. QED
    BY <1>1, <2>2, <2>3, <2>4 DEF Paso, Movimiento
<1>8. QED
  BY <1>1, <1>6, <1>7

LEMMA HiloIngresaPaso ==
  ASSUME TiposInv, TiposInv', PartesInv, NEW p \in Pids, NEW i \in Nombres, HiloIngresa(i)
  PROVE  Paso(p) /\ salidos' = salidos
<1>1. /\ UNCHANGED <<cola, desalojo, finaliza, desvios, salidos, kernel>> /\ kernel = "activo"
      /\ hilo[i].pc = "ingresa"
  BY DEF HiloIngresa, Vivo
<1>2. /\ \A j \in Nombres \ {i} : hilo'[j] = hilo[j]
      /\ hilo'[i].pcb = NADA /\ hilo'[i].pc = "avisa"
  BY DEF HiloIngresa, TiposInv, TypeOK, TipoInterfaces
<1>3. EnCola(i)' = EnCola(i) /\ EnCola(i) \in Seq(Pids)
  BY <1>1, NumerosNat DEF EnCola
<1>4. /\ VecesFila(p, i)' = VecesFila(p, i) - Uno(hilo[i].pcb = p)
      /\ \A j \in Nombres \ {i} : VecesFila(p, j)' = VecesFila(p, j)
  <2>1. VecesFila(p, i) = Uno(hilo[i].pcb = p) + Veces(p, EnCola(i))
    BY DEF VecesFila
  <2>2. VecesFila(p, i)' = Veces(p, EnCola(i))
    <3>1. Uno(hilo'[i].pcb = p) = 0
      BY <1>2, NadaFuera DEF Uno
    <3>2. Veces(p, EnCola(i)) \in Nat
      BY <1>3, VecesNat
    <3>3. QED
      BY <1>3, <3>1, <3>2 DEF VecesFila
  <2>3. Uno(hilo[i].pcb = p) \in 0 .. 1 /\ Veces(p, EnCola(i)) \in Nat
    BY <1>3, VecesNat DEF Uno
  <2>4. VecesFila(p, i)' = VecesFila(p, i) - Uno(hilo[i].pcb = p)
    BY <2>1, <2>2, <2>3
  <2>5. QED
    BY <1>1, <1>2, <2>4 DEF VecesFila, EnCola
<1>5. /\ Veces(p, planif'.ready) = Veces(p, planif.ready) + Uno(hilo[i].pcb = p)
      /\ planif'.cpu = planif.cpu
  <2>1. planif.ready \in Seq(Pids) /\ Veces(p, planif.ready) \in Nat /\ hilo[i].pcb \in Pcb
    BY NumerosNat DEF TiposInv, TypeOK, TipoPlanif, TipoInterfaces
  <2>2. CASE hilo[i].pcb = NADA
    BY <2>1, <2>2, NadaFuera DEF HiloIngresa, Uno
  <2>3. CASE hilo[i].pcb # NADA
    <3>1. planif'.ready = Append(planif.ready, hilo[i].pcb) /\ planif'.cpu = planif.cpu
      BY <2>3 DEF HiloIngresa, TiposInv, TypeOK, TipoPlanif
    <3>2. hilo[i].pcb \in Pids
      BY <2>1, <2>3 DEF Pcb
    <3>3. QED
      BY <2>1, <3>1, <3>2, VecesAppend
  <2>4. QED
    BY <2>2, <2>3
<1>6. EnDesalojo(p)' = EnDesalojo(p) /\ EnFinaliza(p)' = EnFinaliza(p)
  BY <1>1 DEF EnDesalojo, EnFinaliza
<1>7. Fuera(p)' = Fuera(p) + Uno(hilo[i].pcb = p)
  <2>1. Uno(hilo[i].pcb = p) \in 0 .. 1
    BY DEF Uno
  <2>2. QED
    BY <1>5, <1>6, <2>1, FueraPartes
<1>8. Movimiento(p)
  <2>1. CASE hilo[i].pcb = p
    BY <1>4, <1>7, <2>1 DEF Deja, Movimiento, Uno
  <2>2. CASE hilo[i].pcb # p
    <3>1. Uno(hilo[i].pcb = p) = 0 /\ VecesFila(p, i) \in Nat /\ Fuera(p) \in Nat
      BY <2>2, NumerosNat DEF Uno
    <3>2. QED
      BY <1>4, <1>7, <3>1 DEF Igual, Movimiento
  <2>3. QED
    BY <2>1, <2>2
<1>9. ASSUME p \in salidos'
      PROVE  Liberado(p)'
  <2>1. Liberado(p)
    BY <1>1, <1>9 DEF PartesInv
  <2>2. VecesFila(p, i) = 0 /\ VecesFila(p, i)' \in Nat
    <3>1. VecesFila(p, i) \in Nat /\ VecesFila(p, i)' \in Nat
      BY NumerosNat, NumerosNatPrima
    <3>2. ~(VecesFila(p, i) > 0)
      BY <1>1, <2>1 DEF Liberado
    <3>3. QED
      BY <3>1, <3>2
  <2>3. Uno(hilo[i].pcb = p) = 0
    <3>1. Uno(hilo[i].pcb = p) \in 0 .. 1
      BY DEF Uno
    <3>2. QED
      BY <1>4, <2>2, <3>1
  <2>4. \A j \in Nombres : VecesFila(p, j)' = VecesFila(p, j)
    BY <1>4, <2>2, <2>3
  <2>5. Veces(p, planif'.ready) = 0
    BY <1>5, <2>1, <2>3 DEF Liberado
  <2>6. QED
    BY <1>1, <1>2, <1>5, <2>1, <2>4, <2>5 DEF Liberado
<1>10. kernel' = "activo" /\ "desconexion" \notin desvios /\ p \in salidos' /\ finaliza'.pc = "sale"
        => finaliza'.pid # p
  BY <1>1 DEF PartesInv, Presente
<1>11. QED
  BY <1>1, <1>8, <1>9, <1>10 DEF Paso

LEMMA HiloEliminaPaso ==
  ASSUME TiposInv, TiposInv', PartesInv, NEW p \in Pids, NEW i \in Nombres, HiloElimina(i)
  PROVE  Paso(p) /\ salidos' = salidos \cup {cola[i][hilo[i].k]}
<1>0. PICK q : q = cola[i][hilo[i].k]
  OBVIOUS
<1>1. /\ UNCHANGED <<planif, cola, desalojo, finaliza, desvios>> /\ kernel = "activo"
      /\ hilo[i].pc = "elimina" /\ salidos' = salidos \cup {q}
      /\ kernel' = "activo" => q \notin salidos
  BY <1>0 DEF HiloElimina, ManejarExit
<1>2. \A j \in Nombres : hilo'[j].pcb = hilo[j].pcb /\ hilo'[j].pc = hilo[j].pc
  <2>1. hilo' = [hilo EXCEPT ![i] = [hilo[i] EXCEPT !.k = hilo[i].k + 1]]
    BY DEF HiloElimina
  <2>2. hilo[i] \in [pc : PcHilo, pcb : Pcb, codigo : Codigos \cup {NADA}, k : Nat \ {0}]
        /\ hilo \in [Nombres -> [pc : PcHilo, pcb : Pcb, codigo : Codigos \cup {NADA}, k : Nat \ {0}]]
    BY DEF TiposInv, TypeOK, TipoInterfaces
  <2>3. [hilo[i] EXCEPT !.k = hilo[i].k + 1].pcb = hilo[i].pcb
        /\ [hilo[i] EXCEPT !.k = hilo[i].k + 1].pc = hilo[i].pc
    BY <2>2
  <2>4. \A j \in Nombres : hilo'[j] = IF j = i THEN [hilo[i] EXCEPT !.k = hilo[i].k + 1] ELSE hilo[j]
    BY <2>1, <2>2
  <2>5. QED
    BY <2>3, <2>4
<1>3. \A j \in Nombres : VecesFila(p, j)' = VecesFila(p, j)
  BY <1>1, <1>2, FilasQuietas
<1>4. "desconexion" \in desvios
  BY <1>1 DEF PartesInv, SinCortes
<1>5. EnFinaliza(p)' = EnFinaliza(p) /\ (p # q => EnDesalojo(p)' = EnDesalojo(p)) /\ Separados(p)
  BY <1>1 DEF PartesInv, EnFinaliza, EnDesalojo
<1>6. CASE p = q
  <2>1. VecesFila(p, i) > 0
    <3>1. cola[i] \in Seq(Pids) /\ hilo[i].k \in Nat \ {0}
      BY <1>1 DEF TiposInv, TypeOK, TipoInterfaces, HilosInv
    <3>2. hilo[i].k \in DOMAIN cola[i]
      BY <3>1, LenProperties DEF HiloElimina
    <3>3. p \in ToSet(cola[i])
      BY <1>0, <1>6, <3>2 DEF ToSet
    <3>4. Veces(p, EnCola(i)) > 0 /\ Veces(p, EnCola(i)) \in Nat
      BY <3>1, <3>3, VecesNat, NadaFuera DEF EnCola
    <3>5. QED
      BY <3>4 DEF VecesFila, Uno
  <2>2. Fuera(p) = 0 /\ \A j \in Nombres \ {i} : VecesFila(p, j) = 0
    <3>1. Fuera(p) \in Nat /\ \A j \in Nombres : VecesFila(p, j) \in Nat
      BY NumerosNat
    <3>2. QED
      BY <1>5, <2>1, <3>1 DEF Separados
  <2>3. Veces(p, planif.ready) = 0 /\ Uno(planif.cpu = p) = 0 /\ EnDesalojo(p) = 0 /\ EnFinaliza(p) = 0
    BY <2>2, FueraPartes
  <2>4. EnDesalojo(p)' = 0
    BY <1>1, <1>6 DEF EnDesalojo, Uno
  <2>5. Fuera(p)' = 0
    BY <1>1, <1>5, <2>3, <2>4, FueraPartes
  <2>6. Mengua(p)
    <3>1. \A j \in Nombres : VecesFila(p, j)' <= VecesFila(p, j)
      BY <1>3, NumerosNat
    <3>2. QED
      BY <1>4, <2>2, <2>5, <3>1 DEF Mengua
  <2>7. kernel' = "activo" => Liberado(p)'
    <3>1. kernel' = "activo" /\ desalojo.pc = "encola" => desalojo.pid # p
      BY <1>1, <1>6, <2>3 DEF EnDesalojo, Uno
    <3>2. \A j \in Nombres : VecesFila(p, j)' > 0 => hilo'[j].pc = "elimina"
      BY <1>1, <1>2, <1>3, <2>2
    <3>3. QED
      BY <1>1, <2>3, <3>1, <3>2 DEF Liberado, Uno
  <2>8. QED
    BY <1>0, <1>1, <1>4, <2>6, <2>7 DEF Paso, Movimiento
<1>7. CASE p # q
  <2>1. Igual(p)
    <3>1. Fuera(p)' = Fuera(p)
      BY <1>1, <1>5, <1>7, FueraPartes
    <3>2. QED
      BY <1>3, <3>1 DEF Igual
  <2>2. p \in salidos' => Liberado(p)'
    BY <1>1, <1>2, <1>3, <1>7 DEF PartesInv, Liberado
  <2>3. QED
    BY <1>0, <1>1, <1>4, <2>1, <2>2 DEF Paso, Movimiento
<1>8. QED
  BY <1>6, <1>7

LEMMA HiloDestruyePaso ==
  ASSUME TiposInv, TiposInv', PartesInv, NEW p \in Pids, NEW i \in Nombres, HiloDestruye(i)
  PROVE  Paso(p) /\ salidos' = salidos
<1>1. /\ UNCHANGED <<planif, desalojo, finaliza, desvios, salidos, kernel>> /\ kernel = "activo"
      /\ hilo[i].pc = "elimina" /\ hilo[i].pcb = NADA
  BY DEF HiloDestruye, Vivo, TiposInv, HilosInv
<1>2. /\ \A j \in Nombres \ {i} : hilo'[j] = hilo[j] /\ cola'[j] = cola[j]
      /\ hilo'[i].pcb = NADA /\ cola'[i] = NADA
  BY <1>1 DEF HiloDestruye, HiloA, TiposInv, TypeOK, TipoInterfaces
<1>3. "desconexion" \in desvios
  BY <1>1 DEF PartesInv, SinCortes
<1>4. VecesFila(p, i)' = 0 /\ \A j \in Nombres \ {i} : VecesFila(p, j)' = VecesFila(p, j)
  <2>1. EnCola(i)' = <<>> /\ Uno(hilo'[i].pcb = p) = 0
    BY <1>2, NadaFuera DEF EnCola, Uno
  <2>2. VecesFila(p, i)' = 0
    BY <2>1, VecesVacia DEF VecesFila
  <2>3. QED
    BY <1>2, <2>2 DEF VecesFila, EnCola
<1>5. Mengua(p)
  <2>1. EnDesalojo(p)' = EnDesalojo(p) /\ EnFinaliza(p)' = EnFinaliza(p)
    BY <1>1 DEF EnDesalojo, EnFinaliza
  <2>2. Fuera(p)' = Fuera(p) /\ Fuera(p) \in Nat
    BY <1>1, <2>1, FueraPartes, NumerosNat
  <2>3. \A j \in Nombres : VecesFila(p, j)' <= VecesFila(p, j)
    <3>1. \A j \in Nombres : VecesFila(p, j) \in Nat
      BY NumerosNat
    <3>2. QED
      BY <1>4, <3>1
  <2>4. QED
    BY <1>3, <2>2, <2>3 DEF Mengua
<1>6. p \in salidos' => Liberado(p)'
  <2> SUFFICES ASSUME p \in salidos PROVE Liberado(p)'
    BY <1>1
  <2>1. Liberado(p)
    BY <1>1 DEF PartesInv
  <2>2. \A j \in Nombres : VecesFila(p, j)' > 0 => hilo'[j].pc = "elimina"
    BY <1>2, <1>4, <2>1 DEF Liberado
  <2>3. QED
    BY <1>1, <2>1, <2>2 DEF Liberado
<1>7. QED
  BY <1>1, <1>3, <1>5, <1>6 DEF Paso, Movimiento

(* FINALIZAR_PROCESO.                                                      *)
LEMMA FinalizarQuieto ==
  ASSUME TiposInv, TiposInv', PartesInv, NEW p \in Pids,
         (\E q \in Pids : Finalizar(q)) \/ FinalizarSinPcb
  PROVE  Paso(p) /\ salidos' = salidos
<1>1. /\ UNCHANGED <<cola, hilo, desalojo, salidos>> /\ kernel = "activo"
      /\ planif'.ready = planif.ready /\ planif'.cpu = planif.cpu
      /\ finaliza.pc # "sale" /\ finaliza'.pc # "sale"
  BY DEF Finalizar, FinalizarSinPcb, Vivo, TiposInv, TypeOK, TipoPlanif
<1>2. EnDesalojo(p)' = EnDesalojo(p) /\ EnFinaliza(p)' = EnFinaliza(p)
  BY <1>1 DEF EnDesalojo, EnFinaliza, Uno
<1>3. QED
  BY <1>1, <1>2, PasoQuieto

LEMMA FinalizarDeReadyPaso ==
  ASSUME TiposInv, TiposInv', PartesInv, NEW p \in Pids, FinalizarDeReady
  PROVE  Paso(p) /\ salidos' = salidos
<1>1. /\ UNCHANGED <<cola, hilo, desalojo, desvios, salidos, kernel>> /\ kernel = "activo"
      /\ planif'.ready = RemoveFirst(planif.ready, finaliza.pid) /\ planif'.cpu = planif.cpu
      /\ finaliza.pid \in ToSet(planif.ready)
      /\ finaliza.pc = "busca" /\ finaliza'.pc = "sale" /\ finaliza'.pid = finaliza.pid
  BY DEF FinalizarDeReady, Vivo, TiposInv, TypeOK, TipoPlanif, TipoProcesos
<1>2. \A i \in Nombres : VecesFila(p, i)' = VecesFila(p, i)
  BY <1>1, FilasQuietas
<1>3. Veces(p, planif'.ready) = Veces(p, planif.ready) - Uno(p = finaliza.pid)
  BY <1>1, VecesRemoveFirst DEF TiposInv, TypeOK, TipoPlanif
<1>4. EnDesalojo(p)' = EnDesalojo(p) /\ EnFinaliza(p) = 0 /\ EnFinaliza(p)' = Uno(p = finaliza.pid)
      /\ Uno(p = finaliza.pid) \in 0 .. 1
  BY <1>1 DEF EnDesalojo, EnFinaliza, Uno
<1>5. Igual(p)
  <2>1. Fuera(p)' = Fuera(p)
    BY <1>1, <1>3, <1>4, FueraPartes
  <2>2. QED
    BY <1>2, <2>1 DEF Igual
<1>6. ASSUME p \in salidos
      PROVE  Liberado(p)' /\ p # finaliza.pid
  <2>1. Liberado(p)
    BY <1>1, <1>6 DEF PartesInv
  <2>2. p # finaliza.pid
    <3>1. Veces(p, planif.ready) > 0 <=> p \in ToSet(planif.ready)
      BY VecesNat DEF TiposInv, TypeOK, TipoPlanif
    <3>2. QED
      BY <1>1, <2>1, <3>1 DEF Liberado
  <2>3. Veces(p, planif'.ready) = 0
    <3>1. Uno(p = finaliza.pid) = 0 /\ Veces(p, planif.ready) = 0
      BY <2>1, <2>2 DEF Liberado, Uno
    <3>2. QED
      BY <1>3, <3>1
  <2>4. QED
    BY <1>1, <1>2, <2>1, <2>2, <2>3 DEF Liberado
<1>7. QED
  BY <1>1, <1>5, <1>6 DEF Paso, Movimiento

LEMMA FinalizarDeColaPaso ==
  ASSUME TiposInv, TiposInv', PartesInv, NEW p \in Pids, FinalizarDeCola
  PROVE  Paso(p) /\ salidos' = salidos
<1>1. PICK i \in ConSuPcb(finaliza.pid) : cola' = [cola EXCEPT ![i] = RemoveFirst(@, finaliza.pid)]
  BY DEF FinalizarDeCola
<1>2. i \in Nombres /\ cola[i] # NADA /\ finaliza.pid \in ToSet(cola[i]) /\ cola[i] \in Seq(Pids)
  BY <1>1 DEF ConSuPcb, TiposInv, TypeOK, TipoInterfaces
<1>3. /\ UNCHANGED <<planif, hilo, desalojo, desvios, salidos, kernel>> /\ kernel = "activo"
      /\ finaliza.pc = "busca" /\ finaliza'.pc = "sale" /\ finaliza'.pid = finaliza.pid
  BY DEF FinalizarDeCola, Vivo, TiposInv, TypeOK, TipoProcesos
<1>4. /\ EnCola(i) = cola[i] /\ EnCola(i)' = RemoveFirst(cola[i], finaliza.pid)
      /\ \A j \in Nombres \ {i} : EnCola(j)' = EnCola(j)
  <2>1. RemoveFirst(cola[i], finaliza.pid) \in Seq(Pids)
    BY <1>2, RemoveFirstTipo
  <2>2. RemoveFirst(cola[i], finaliza.pid) # NADA
    BY <2>1, NadaFuera
  <2>3. cola'[i] = RemoveFirst(cola[i], finaliza.pid) /\ \A j \in Nombres \ {i} : cola'[j] = cola[j]
    BY <1>1, <1>2 DEF TiposInv, TypeOK, TipoInterfaces
  <2>4. QED
    BY <1>2, <2>2, <2>3 DEF EnCola
<1>5. /\ VecesFila(p, i)' = VecesFila(p, i) - Uno(p = finaliza.pid)
      /\ \A j \in Nombres \ {i} : VecesFila(p, j)' = VecesFila(p, j)
  <2>1. Veces(p, EnCola(i)') = Veces(p, EnCola(i)) - Uno(p = finaliza.pid)
    BY <1>2, <1>4, VecesRemoveFirst
  <2>2. Veces(p, EnCola(i)) \in Nat /\ Uno(p = finaliza.pid) \in 0 .. 1 /\ Uno(hilo[i].pcb = p) \in 0 .. 1
    BY <1>2, <1>4, VecesNat DEF Uno
  <2>3. VecesFila(p, i) = Uno(hilo[i].pcb = p) + Veces(p, EnCola(i))
    BY DEF VecesFila
  <2>4. VecesFila(p, i)' = Uno(hilo[i].pcb = p) + Veces(p, EnCola(i)')
    BY <1>3 DEF VecesFila
  <2>5. VecesFila(p, i)' = VecesFila(p, i) - Uno(p = finaliza.pid)
    BY <2>1, <2>2, <2>3, <2>4
  <2>6. QED
    BY <1>3, <1>4, <2>5 DEF VecesFila
<1>6. EnDesalojo(p)' = EnDesalojo(p) /\ EnFinaliza(p) = 0 /\ EnFinaliza(p)' = Uno(p = finaliza.pid)
      /\ Uno(p = finaliza.pid) \in 0 .. 1
  BY <1>3 DEF EnDesalojo, EnFinaliza, Uno
<1>7. Fuera(p)' = Fuera(p) + Uno(p = finaliza.pid)
  BY <1>3, <1>6, FueraPartes
<1>8. Movimiento(p)
  <2>1. CASE p = finaliza.pid
    BY <1>2, <1>5, <1>7, <2>1 DEF Deja, Movimiento, Uno
  <2>2. CASE p # finaliza.pid
    <3>1. Uno(p = finaliza.pid) = 0 /\ VecesFila(p, i) \in Nat /\ Fuera(p) \in Nat
      BY <1>2, <2>2, NumerosNat DEF Uno
    <3>2. QED
      BY <1>5, <1>7, <3>1 DEF Igual, Movimiento
  <2>3. QED
    BY <2>1, <2>2
<1>9. ASSUME p \in salidos
      PROVE  Liberado(p)'
  <2>1. Liberado(p)
    BY <1>3, <1>9 DEF PartesInv
  <2>2. \A j \in Nombres : VecesFila(p, j)' <= VecesFila(p, j) /\ VecesFila(p, j) \in Nat /\ VecesFila(p, j)' \in Nat
    <3>1. \A j \in Nombres : VecesFila(p, j) \in Nat /\ VecesFila(p, j)' \in Nat
      BY NumerosNat, NumerosNatPrima
    <3>2. QED
      BY <1>2, <1>5, <1>6, <3>1
  <2>3. \A j \in Nombres : VecesFila(p, j)' > 0 => VecesFila(p, j) > 0
    BY <2>2
  <2>4. QED
    BY <1>3, <2>1, <2>3 DEF Liberado
<1>10. ASSUME p \in salidos, "desconexion" \notin desvios
       PROVE  finaliza'.pid # p
  <2>1. Liberado(p) /\ SinCortes
    BY <1>3, <1>10 DEF PartesInv
  <2>2. VecesFila(p, i) = 0
    <3>1. VecesFila(p, i) \in Nat /\ hilo[i].pc # "elimina"
      BY <1>2, <2>1, NumerosNat DEF SinCortes
    <3>2. QED
      BY <1>2, <2>1, <3>1 DEF Liberado
  <2>3. ASSUME finaliza'.pid = p
        PROVE  FALSE
    <3>1. p \in ToSet(cola[i])
      BY <1>2, <1>3, <2>3
    <3>2. Veces(p, cola[i]) > 0 /\ Veces(p, cola[i]) \in Nat
      BY <1>2, <3>1, VecesNat
    <3>3. QED
      BY <1>4, <2>2, <3>2 DEF VecesFila, Uno
  <2>4. QED
    BY <2>3
<1>11. QED
  BY <1>3, <1>8, <1>9, <1>10 DEF Paso

LEMMA FinalizarSalePaso ==
  ASSUME TiposInv, TiposInv', PartesInv, NEW p \in Pids, FinalizarSale
  PROVE  Paso(p) /\ salidos' = salidos \cup {finaliza.pid}
<1>1. /\ UNCHANGED <<cola, hilo, desalojo, desvios>> /\ kernel = "activo"
      /\ planif'.ready = planif.ready /\ planif'.cpu = planif.cpu
      /\ finaliza.pc = "sale" /\ finaliza'.pc = "hecho"
      /\ salidos' = salidos \cup {finaliza.pid}
      /\ kernel' = "activo" => finaliza.pid \notin salidos
  BY DEF FinalizarSale, ManejarExit, TiposInv, TypeOK, TipoPlanif
<1>2. \A i \in Nombres : VecesFila(p, i)' = VecesFila(p, i)
  BY <1>1, FilasQuietas
<1>3. /\ EnFinaliza(p)' = 0 /\ (p # finaliza.pid => EnFinaliza(p) = 0 /\ EnDesalojo(p)' = EnDesalojo(p))
      /\ (p = finaliza.pid => EnFinaliza(p) = 1)
  BY <1>1 DEF EnDesalojo, EnFinaliza, Uno
<1>4. Separados(p)
  BY DEF PartesInv
<1>5. CASE p = finaliza.pid
  <2>1. /\ Fuera(p) = 1 /\ Veces(p, planif.ready) = 0 /\ Uno(planif.cpu = p) = 0 /\ EnDesalojo(p) = 0
    BY <1>3, <1>4, <1>5, FueraPartes DEF Separados
  <2>2. EnDesalojo(p)' = 0
    BY <1>1, <1>5 DEF EnDesalojo, Uno
  <2>3. Fuera(p)' = 0
    BY <1>1, <1>3, <2>1, <2>2, FueraPartes
  <2>4. \A i \in Nombres : VecesFila(p, i)' = 0 /\ VecesFila(p, i) = 0
    BY <1>2, <1>4, <2>1 DEF Separados
  <2>5. Mengua(p)
    BY <1>1, <1>5, <2>1, <2>3, <2>4 DEF Mengua
  <2>6. kernel' = "activo" => Liberado(p)'
    <3>1. kernel' = "activo" /\ desalojo.pc = "encola" => desalojo.pid # p
      BY <1>1, <1>5, <2>1 DEF EnDesalojo, Uno
    <3>2. QED
      BY <1>1, <2>1, <2>4, <3>1 DEF Liberado, Uno
  <2>7. QED
    BY <1>1, <2>5, <2>6 DEF Paso, Movimiento
<1>6. CASE p # finaliza.pid
  <2>1. Igual(p)
    <3>1. Fuera(p)' = Fuera(p)
      BY <1>1, <1>3, <1>6, FueraPartes
    <3>2. QED
      BY <1>2, <3>1 DEF Igual
  <2>2. p \in salidos' => Liberado(p)'
    BY <1>1, <1>2, <1>6 DEF PartesInv, Liberado
  <2>3. QED
    BY <1>1, <2>1, <2>2 DEF Paso, Movimiento
<1>7. QED
  BY <1>1, <1>5, <1>6

(* While no program ends, no interface is removed.                         *)
LEMMA CortesPaso ==
  ASSUME TiposInv, TiposInv', SinCortes, Next, "desconexion" \notin desvios'
  PROVE  SinCortes'
<1> USE DEF TiposInv, TypeOK
<1>1. CASE io' = io /\ hilo' = hilo
  BY <1>1 DEF SinCortes, Conectada
<1>2. CASE Despachar \/ MotivoDesalojo \/ FinalizarProceso
  <2>1. io' = io /\ hilo' = hilo
    BY <1>2 DEF Despachar, MotivoDesalojo, Pedir, Terminar, DesalojoInvalida, DesalojoSinCola, DesalojoEncola,
       DesalojoToma, DesalojoEspera, DesalojoEnvia, DesalojoFin, FinalizarProceso, Finalizar,
       FinalizarDeReady, FinalizarDeCola, FinalizarSinPcb, FinalizarSale, conexiones
  <2>2. QED
    BY <1>1, <2>1
<1>3. ASSUME NEW i \in Nombres, Conectar(i)
      PROVE  SinCortes'
  BY <1>3 DEF Conectar, SinCortes, Conectada, TipoInterfaces, TipoIo
<1>4. ASSUME NEW i \in Nombres, IO(i) \/ Averias(i)
      PROVE  SinCortes'
  <2>1. hilo' = hilo
    BY <1>4 DEF IO, IoToma, IoTermina, IoContesta, Averias, IoFalla, IoFallaYTermina, Desconectar, kernelVars
  <2>2. \A j \in Nombres : io'[j].pc = "ausente" <=> io[j].pc = "ausente"
    <3>1. CASE IoToma(i)
      BY <3>1 DEF IoToma, TipoIo
    <3>2. CASE IoTermina(i) \/ IoFalla(i)
      <4>1. io[i].pc = "sirve" /\ io' = [io EXCEPT ![i] = [pc |-> "espera", pid |-> NADA]]
        BY <3>2 DEF IoTermina, IoFalla, IoContesta
      <4>2. QED
        BY <4>1 DEF TipoIo
    <3>3. CASE IoFallaYTermina(i) \/ Desconectar(i)
      BY <3>3 DEF IoFallaYTermina, Desconectar, Desviar
    <3>4. QED
      BY <1>4, <3>1, <3>2, <3>3 DEF IO, Averias
  <2>3. QED
    BY <2>1, <2>2 DEF SinCortes, Conectada
<1>5. ASSUME NEW i \in Nombres, EsperarFinIo(i)
      PROVE  SinCortes'
  <2>1. io' = io /\ \A j \in Nombres \ {i} : hilo'[j] = hilo[j]
    BY <1>5 DEF EsperarFinIo, HiloRecibe, HiloMira, HiloSaca, HiloSale, HiloIngresa, HiloAvisa, HiloCorta,
       HiloElimina, HiloDestruye, HiloQuita, HiloA, conexiones, TipoInterfaces
  <2>2. hilo[i].pc \notin {"elimina", "quita", "ninguno"} /\ Conectada(i)
    BY <1>5 DEF EsperarFinIo, HiloRecibe, HiloMira, HiloSaca, HiloSale, HiloIngresa, HiloAvisa, HiloCorta,
       HiloElimina, HiloDestruye, HiloQuita, SinCortes
  <2>3. hilo'[i].pc \notin {"elimina", "quita", "ninguno"}
    <3>1. CASE HiloRecibe(i)
      BY <3>1 DEF HiloRecibe, TipoInterfaces
    <3>2. CASE HiloMira(i) \/ HiloAvisa(i)
      BY <3>2 DEF HiloMira, HiloAvisa, HiloA, Resolver, TipoInterfaces
    <3>3. CASE HiloSaca(i)
      <4>1. CASE cola[i] = <<>>
        BY <2>2, <3>3, <4>1 DEF HiloSaca
      <4>2. CASE cola[i] # <<>>
        <5>1. hilo' = [hilo EXCEPT ![i] = [hilo[i] EXCEPT !.pc = Resolver(i), !.pcb = Head(cola[i])]]
          BY <3>3, <4>2 DEF HiloSaca
        <5>2. hilo'[i].pc = Resolver(i)
          BY <5>1 DEF TipoInterfaces
        <5>3. QED
          BY <5>2 DEF Resolver
      <4>3. QED
        BY <4>1, <4>2
    <3>4. CASE HiloSale(i)
      BY <3>4 DEF HiloSale, TipoInterfaces
    <3>5. CASE HiloIngresa(i)
      BY <3>5 DEF HiloIngresa, TipoInterfaces
    <3>6. ~HiloCorta(i) /\ ~HiloElimina(i) /\ ~HiloDestruye(i) /\ ~HiloQuita(i)
      BY <2>2 DEF HiloCorta, HiloElimina, HiloDestruye, HiloQuita
    <3>7. QED
      BY <1>5, <3>1, <3>2, <3>3, <3>4, <3>5, <3>6 DEF EsperarFinIo
  <2>4. \A j \in Nombres : Conectada(j)' <=> Conectada(j)
    BY <2>1 DEF Conectada
  <2>5. QED
    BY <2>1, <2>2, <2>3, <2>4 DEF SinCortes
<1>6. ASSUME NEW i \in Nombres, ConectarRepetida(i)
      PROVE  SinCortes'
  BY <1>1, <1>6, RepetidaCorta DEF kernelVars, conexiones
<1>7. QED
  BY <1>2, <1>3, <1>4, <1>5, <1>6 DEF Next

LEMMA InitPartes == Init => PartesInv
<1> SUFFICES ASSUME Init PROVE PartesInv
  OBVIOUS
<1>1. TiposInv
  BY InitTipos
<1>2. PICK s \in SetToSeqs(Pids) : planif = [ready |-> s, corto |-> Len(s), exec |-> 1, cpu |-> NADA,
                                            retenidas |-> FALSE]
  BY DEF Init
<1>3. \A p \in Pids : Veces(p, planif.ready) = 1 /\ planif.cpu = NADA
  BY <1>2, SetToSeqsOcurrencias, VecesOcurrencias, ConstantesAssumption
<1>4. ASSUME NEW p \in Pids
      PROVE  Fuera(p) = 1 /\ \A i \in Nombres : VecesFila(p, i) = 0
  <2>1. /\ Uno(planif.cpu = p) = 0
        /\ Uno(desalojo.pid = p /\ desalojo.pc \in {"invalida", "encola"} /\ p \notin salidos) = 0
        /\ Uno(finaliza.pid = p /\ finaliza.pc = "sale") = 0
    BY <1>3, NadaFuera DEF Init, Uno
  <2>2. Fuera(p) = 1
    BY <1>3, <2>1 DEF Fuera
  <2>3. ASSUME NEW i \in Nombres
        PROVE  VecesFila(p, i) = 0
    <3>1. EnCola(i) = <<>> /\ Uno(hilo[i].pcb = p) = 0
      BY NadaFuera DEF Init, EnCola, Uno
    <3>2. QED
      BY <3>1, VecesVacia DEF VecesFila
  <2>4. QED
    BY <2>2, <2>3
<1>5. \A p \in Pids : Separados(p)
  BY <1>4 DEF Separados
<1>6. SinCortes /\ salidos = {}
  BY DEF Init, SinCortes, Conectada
<1>7. \A p \in Pids : Presente(p)
  BY <1>4, <1>6 DEF Presente
<1>8. QED
  BY <1>5, <1>6, <1>7 DEF PartesInv

LEMMA NextPartes == TiposInv /\ TiposInv' /\ PartesInv /\ [Next]_vars => PartesInv'
<1> SUFFICES ASSUME TiposInv, TiposInv', PartesInv, [Next]_vars PROVE PartesInv'
  OBVIOUS
<1>1. CASE UNCHANGED vars
  BY <1>1 DEF vars, kernelVars, conexiones, PartesInv, Separados, Liberado, Presente, SinCortes, Conectada,
     Fuera, VecesFila, EnCola
<1>2. ASSUME NEW i \in Nombres, ConectarRepetida(i)
      PROVE  PartesInv'
  <2>1. /\ UNCHANGED <<kernelVars, conexiones, restan, salidos>>
        /\ kernel' = "sin_seguir" /\ desvios' = desvios \cup {"repetida"}
    BY <1>2, RepetidaCorta
  <2>2. QED
    BY <2>1 DEF kernelVars, conexiones, PartesInv, Separados, SinCortes, Conectada, Fuera, VecesFila, EnCola
<1>3. CASE Next /\ \A i \in Nombres : ~ConectarRepetida(i)
  <2>1. /\ \A p \in Pids : Paso(p)
        /\ salidos \subseteq salidos'
    <3>1. CASE Despachar
      BY <3>1, DespacharPaso DEF Despachar, Vivo, Abortar
    <3>2. ASSUME NEW q \in Pedidos, Pedir(q[1], q[2])
          PROVE  (\A p \in Pids : Paso(p)) /\ salidos \subseteq salidos'
      BY <3>2, PedirPaso DEF Pedir, Vivo
    <3>3. CASE Terminar
      BY <3>3, TerminarPaso DEF Terminar, ManejarExit
    <3>4. CASE DesalojoInvalida
      BY <3>4, DesalojoInvalidaPaso DEF DesalojoInvalida, ManejarExit
    <3>5. CASE DesalojoEncola
      BY <3>5, DesalojoEncolaPaso DEF DesalojoEncola, Vivo
    <3>6. CASE DesalojoSinCola \/ DesalojoToma \/ DesalojoEspera \/ DesalojoEnvia \/ DesalojoFin
      <4>1. salidos' = salidos
        BY <3>6 DEF DesalojoSinCola, DesalojoToma, DesalojoEspera, DesalojoEnvia, DesalojoFin, Vivo,
           Llega, SePierde, Abortar
      <4>2. QED
        BY <3>6, <4>1, DesalojoQuieto
    <3>7. CASE FinalizarProceso
      <4>1. CASE (\E q \in Pids : Finalizar(q)) \/ FinalizarSinPcb
        BY <4>1, FinalizarQuieto DEF Finalizar, FinalizarSinPcb, Vivo
      <4>2. CASE FinalizarDeReady
        BY <4>2, FinalizarDeReadyPaso DEF FinalizarDeReady, Vivo
      <4>3. CASE FinalizarDeCola
        BY <4>3, FinalizarDeColaPaso DEF FinalizarDeCola, Vivo
      <4>4. CASE FinalizarSale
        BY <4>4, FinalizarSalePaso DEF FinalizarSale, ManejarExit
      <4>5. QED
        BY <3>7, <4>1, <4>2, <4>3, <4>4 DEF FinalizarProceso
    <3>8. ASSUME NEW i \in Nombres, Conectar(i)
          PROVE  (\A p \in Pids : Paso(p)) /\ salidos \subseteq salidos'
      BY <3>8, ConectarPaso DEF Conectar, Vivo
    <3>9. ASSUME NEW i \in Nombres, IO(i) \/ Averias(i)
          PROVE  (\A p \in Pids : Paso(p)) /\ salidos \subseteq salidos'
      <4>1. salidos' = salidos
        BY <3>9 DEF IO, IoToma, IoTermina, IoContesta, Averias, IoFalla, IoFallaYTermina, Desconectar, Vivo
      <4>2. QED
        BY <3>9, <4>1, IoPaso
    <3>10. ASSUME NEW i \in Nombres, EsperarFinIo(i)
           PROVE  (\A p \in Pids : Paso(p)) /\ salidos \subseteq salidos'
      <4>1. CASE HiloRecibe(i) \/ HiloMira(i) \/ HiloAvisa(i) \/ HiloCorta(i) \/ HiloQuita(i)
        BY <4>1, HiloQuieto DEF HiloRecibe, HiloMira, HiloAvisa, HiloCorta, HiloQuita, Vivo
      <4>2. CASE HiloSaca(i)
        BY <4>2, HiloSacaPaso DEF HiloSaca, Vivo, Abortar
      <4>3. CASE HiloSale(i)
        BY <4>3, HiloSalePaso DEF HiloSale, ManejarExit
      <4>4. CASE HiloIngresa(i)
        BY <4>4, HiloIngresaPaso DEF HiloIngresa, Vivo
      <4>5. CASE HiloElimina(i)
        BY <4>5, HiloEliminaPaso DEF HiloElimina, ManejarExit
      <4>6. CASE HiloDestruye(i)
        BY <4>6, HiloDestruyePaso DEF HiloDestruye, Vivo
      <4>7. QED
        BY <3>10, <4>1, <4>2, <4>3, <4>4, <4>5, <4>6 DEF EsperarFinIo
    <3>11. QED
      BY <1>3, <3>1, <3>2, <3>3, <3>4, <3>5, <3>6, <3>7, <3>8, <3>9, <3>10 DEF Next, MotivoDesalojo
  <2>2. desvios \subseteq desvios'
    BY <1>3 DEF Next, Despachar, MotivoDesalojo, Pedir, Terminar, DesalojoInvalida, DesalojoSinCola,
       DesalojoEncola, DesalojoToma, DesalojoEspera, DesalojoEnvia, DesalojoFin, FinalizarProceso, Finalizar,
       FinalizarDeReady, FinalizarDeCola, FinalizarSinPcb, FinalizarSale, Conectar, IO, IoToma, IoTermina,
       Averias, IoFalla, IoFallaYTermina, Desconectar, EsperarFinIo, HiloRecibe, HiloMira, HiloSaca, HiloSale,
       HiloIngresa, HiloAvisa, HiloCorta, HiloElimina, HiloDestruye, HiloQuita, Desviar
  <2>3. kernel' = "activo" => kernel = "activo"
    BY <1>3, ZenonT(40) DEF Next, Despachar, MotivoDesalojo, Pedir, Terminar, DesalojoInvalida, DesalojoSinCola,
       DesalojoEncola, DesalojoToma, DesalojoEspera, DesalojoEnvia, DesalojoFin, FinalizarProceso, Finalizar,
       FinalizarDeReady, FinalizarDeCola, FinalizarSinPcb, FinalizarSale, Conectar, IO, IoToma, IoTermina,
       Averias, IoFalla, IoFallaYTermina, Desconectar, EsperarFinIo, HiloRecibe, HiloMira, HiloSaca, HiloSale,
       HiloIngresa, HiloAvisa, HiloCorta, HiloElimina, HiloDestruye, HiloQuita, IoContesta, Llega, SePierde,
       Vivo, Abortar, ManejarExit
  <2>4. \A p \in Pids : Separados(p)'
    BY <2>1, PasoPartes DEF PartesInv
  <2>5. kernel' = "activo" => NADA \notin salidos' /\ \A p \in Pids \cap salidos' : Liberado(p)'
    <3>1. kernel' = "activo" => salidos' = salidos \/ \E p : p # NADA /\ salidos' = salidos \cup {p}
      BY <1>3, ZenonT(40) DEF Next, Despachar, MotivoDesalojo, Pedir, Terminar, DesalojoInvalida, DesalojoSinCola,
         DesalojoEncola, DesalojoToma, DesalojoEspera, DesalojoEnvia, DesalojoFin, FinalizarProceso, Finalizar,
         FinalizarDeReady, FinalizarDeCola, FinalizarSinPcb, FinalizarSale, Conectar, IO, IoToma, IoTermina,
         Averias, IoFalla, IoFallaYTermina, Desconectar, EsperarFinIo, HiloRecibe, HiloMira, HiloSaca, HiloSale,
         HiloIngresa, HiloAvisa, HiloCorta, HiloElimina, HiloDestruye, HiloQuita, IoContesta, Llega, SePierde,
         Vivo, Abortar, ManejarExit
    <3>2. QED
      BY <2>1, <2>3, <3>1 DEF Paso, PartesInv
  <2>6. "desconexion" \notin desvios' => SinCortes'
    BY <1>3, <2>2, CortesPaso DEF PartesInv
  <2>7. kernel' = "activo" /\ "desconexion" \notin desvios' => \A p \in Pids : Presente(p)'
    BY <2>1, <2>2, <2>3, PasoPartes DEF PartesInv
  <2>8. QED
    BY <2>4, <2>5, <2>6, <2>7 DEF PartesInv
<1>4. QED
  BY <1>1, <1>2, <1>3

LEMMA PartesSiempre == Spec => [](TiposInv /\ PartesInv)
<1>1. Init => TiposInv /\ PartesInv
  BY InitTipos, InitPartes
<1>2. TiposInv /\ PartesInv /\ [Next]_vars => (TiposInv /\ PartesInv)'
  BY NextTipos, NextPartes
<1>3. QED
  BY <1>1, <1>2, PTL DEF Spec

(* Whatever fails, disconnects or is finalized, and in whatever order, the *)
(* planner never dispatches, nor has in READY, a PCB that manejar_exit has *)
(* freed.  An interface may come back, once the thread of its last         *)
(* connection has ended: the model ends with a connection under a name     *)
(* still taken (ConectarRepetida), and the theorem says nothing of it.     *)
THEOREM SinFantasmasSiempre == Spec => []SinFantasmas
<1>1. TiposInv /\ PartesInv => SinFantasmas
  <2> SUFFICES ASSUME TiposInv, PartesInv, kernel = "activo",
                      NEW p \in salidos \cap (ToSet(planif.ready) \cup {planif.cpu})
               PROVE  FALSE
    BY DEF SinFantasmas
  <2>1. p \in Pids
    <3>1. planif.ready \in Seq(Pids) /\ planif.cpu \in Pcb
      BY DEF TiposInv, TypeOK, TipoPlanif
    <3>2. p # NADA
      BY DEF PartesInv
    <3>3. QED
      BY <3>1, <3>2, ElementoTipo DEF Pcb
  <2>2. Liberado(p)
    BY <2>1 DEF PartesInv
  <2>3. p \notin ToSet(planif.ready)
    BY <2>2, VecesNat DEF Liberado, TiposInv, TypeOK, TipoPlanif
  <2>4. QED
    BY <2>2, <2>3 DEF Liberado
<1>2. QED
  BY <1>1, PartesSiempre, PTL

(* The queue of an interface has a PCB as often as VecesFila counts it.     *)
LEMMA FilasVeces ==
  ASSUME TiposInv, NEW p \in Pids, NEW i \in Nombres
  PROVE  /\ Veces(p, Filas[i]) = VecesFila(p, i)
         /\ p \in ToSet(Filas[i]) <=> VecesFila(p, i) > 0
<1>1. hilo[i].pcb \in Pcb /\ EnCola(i) \in Seq(Pids)
  BY NumerosNat DEF TiposInv, TypeOK, TipoInterfaces
<1>2. Filas[i] = EnMano(i) \o EnCola(i)
  BY DEF Filas
<1>3. Filas[i] \in Seq(Pids) /\ Veces(p, Filas[i]) = Uno(hilo[i].pcb = p) + Veces(p, EnCola(i))
  BY <1>1, <1>2, VecesMano DEF EnMano
<1>4. QED
  BY <1>3, VecesNat DEF VecesFila

(* No PCB is lost nor in two places, also when the interfaces fail or the  *)
(* process is finalized while it waits.                                    *)
THEOREM EnUnLugarSiempre == Spec => []EnUnLugar
<1>1. TiposInv /\ PartesInv => EnUnLugar
  <2> SUFFICES ASSUME TiposInv, PartesInv PROVE EnUnLugar
    OBVIOUS
  <2>1. TypeOK
    BY DEF TiposInv
  <2>2. \A p \in Pids, i \in Nombres : /\ Veces(p, Filas[i]) = VecesFila(p, i)
                                       /\ p \in ToSet(Filas[i]) <=> VecesFila(p, i) > 0
    BY FilasVeces
  <2>3. ASSUME NEW p \in Pids, kernel = "activo", desvios \cap {"desconexion"} = {}
        PROVE  /\ \A i \in Nombres : Veces(p, Filas[i]) <= 1
               /\ Fuera(p) + Cardinality({i \in Nombres : p \in ToSet(Filas[i])}) = Uno(p \notin salidos)
    <3> DEFINE I == {i \in Nombres : p \in ToSet(Filas[i])}
    <3>1. Separados(p) /\ Presente(p) /\ SinCortes /\ (p \in salidos => Liberado(p))
      BY <2>3 DEF PartesInv
    <3>2. Fuera(p) \in Nat /\ \A i \in Nombres : VecesFila(p, i) \in Nat
      BY NumerosNat
    <3>3. I = {i \in Nombres : VecesFila(p, i) > 0}
      BY <2>2
    <3>4. CASE p \in salidos
      <4>1. I = {}
        BY <3>1, <3>3, <3>4 DEF Liberado, SinCortes
      <4>2. /\ Veces(p, planif.ready) = 0 /\ Uno(planif.cpu = p) = 0
            /\ Uno(desalojo.pid = p /\ desalojo.pc \in {"invalida", "encola"} /\ p \notin salidos) = 0
            /\ Uno(finaliza.pid = p /\ finaliza.pc = "sale") = 0
        BY <3>1, <3>4 DEF Liberado, Presente, Uno
      <4>3. Fuera(p) = 0
        BY <4>2 DEF Fuera
      <4>4. Cardinality(I) = 0 /\ Uno(p \notin salidos) = 0
        BY <3>4, <4>1, FS_EmptySet DEF Uno
      <4>5. QED
        BY <2>2, <3>1, <4>3, <4>4 DEF Separados
    <3>5. CASE p \notin salidos
      <4>1. Uno(p \notin salidos) = 1
        BY <3>5 DEF Uno
      <4>2. CASE Fuera(p) > 0
        <5>1. Fuera(p) = 1 /\ I = {}
          BY <3>1, <3>2, <3>3, <4>2 DEF Separados
        <5>2. Cardinality(I) = 0
          BY <5>1, FS_EmptySet
        <5>3. QED
          BY <2>2, <3>1, <4>1, <5>1, <5>2 DEF Separados
      <4>3. CASE Fuera(p) = 0
        <5>1. PICK i \in Nombres : VecesFila(p, i) > 0
          BY <3>1, <3>5, <4>3 DEF Presente
        <5>2. I = {i}
          BY <3>1, <3>2, <3>3, <5>1 DEF Separados
        <5>3. Cardinality(I) = 1
          BY <5>2, FS_Singleton
        <5>4. QED
          BY <2>2, <3>1, <4>1, <4>3, <5>3 DEF Separados
      <4>4. QED
        BY <3>2, <4>2, <4>3
    <3>6. QED
      BY <3>4, <3>5
  <2>4. QED
    BY <2>1, <2>3 DEF EnUnLugar
<1>2. QED
  BY <1>1, PartesSiempre, PTL

-----------------------------------------------------------------------------
(* While the interfaces only fail, the permit of each one is in one of the *)
(* places PermisoUnico names, or lost with an M_EXIT.                      *)
Permiso(i) == sems[i][Actual(i)]
Envio(i)   == Uno(desalojo.pc = "envia" /\ desalojo.nombre = i)
Sirve(i)   == Uno(io[i].pc = "sirve")
EnHilo(i)  == Uno(hilo[i].pc = "avisa" \/ Retiene(hilo[i].pc))

Permisos(i) ==
  Permiso(i) + Envio(i) + Len(pedidos[i]) + Sirve(i) + Len(avisos[i]) + EnHilo(i)

(* The eviction thread has queued a process of i it has not sent yet.      *)
PorEnviar(i) == desalojo.pc \in EnEspera /\ desalojo.nombre = i

SinM_EXIT(i) ==
  /\ \A k \in DOMAIN avisos[i] : avisos[i][k] # "M_EXIT"
  /\ hilo[i].pc # "sale"
  /\ Retiene(hilo[i].pc) => hilo[i].codigo # "M_EXIT"

HiloInv(i) ==
  /\ hilo[i].pc \notin {"elimina", "quita"}
  /\ Conectada(i) <=> hilo[i].pc # "ninguno"
  /\ hilo[i].pc = "ninguno" <=> Actual(i) = 0
  /\ Actual(i) <= 1
  /\ hilo[i].pc \in {"sale", "ingresa"} => hilo[i].pcb # NADA
  /\ Actual(i) = 0 => pedidos[i] = <<>> /\ avisos[i] = <<>>

PermisoInv(i) ==
  /\ Actual(i) > 0 => Permisos(i) <= 1
  /\ Actual(i) > 0 /\ desvios = {} => Permisos(i) = 1
  /\ desvios = {} => SinM_EXIT(i)

(* The queue of i is, in its order, the process being served, or just      *)
(* served, and the one that waits for the permit.                          *)
FilaInv(i) ==
  /\ Len(Filas[i]) = Len(pedidos[i]) + Sirve(i) + Len(avisos[i]) + Uno(Retiene(hilo[i].pc)) + Uno(PorEnviar(i))
  /\ PorEnviar(i) => Last(Filas[i]) = desalojo.pid
  /\ pedidos[i] # <<>> => Head(pedidos[i]) = Head(Filas[i])
  /\ io[i].pc = "sirve" => io[i].pid = Head(Filas[i])

Bien(i) == HiloInv(i) /\ PermisoInv(i) /\ FilaInv(i)

(* The pointer the eviction thread carries is that of the interface named. *)
PunteroInv ==
  desalojo.pc \in EnEspera \/ (desalojo.pc = "encola" /\ desalojo.nombre \in Nombres) =>
    /\ desalojo.interfaz \in ToSet(lista[TipoDe[desalojo.ins]])
    /\ desalojo.interfaz.nombre = desalojo.nombre

EnOrden ==
  /\ finaliza.pc = "listo" /\ ~planif.retenidas
  /\ PunteroInv
  /\ \A i \in Nombres : Bien(i)

PermisosInv == desvios \subseteq {"M_EXIT"} => EnOrden

(* A list with an element more at the end, or without the first one.       *)
LEMMA AlFinal ==
  ASSUME NEW S, NEW s \in Seq(S), NEW e \in S
  PROVE  /\ Append(s, e) \in Seq(S) /\ Len(Append(s, e)) = Len(s) + 1 /\ Append(s, e) # <<>>
         /\ Last(Append(s, e)) = e
         /\ Head(Append(s, e)) = IF s = <<>> THEN e ELSE Head(s)
         /\ ToSet(Append(s, e)) = ToSet(s) \cup {e}
<1>1. /\ Append(s, e) \in Seq(S) /\ Len(Append(s, e)) = Len(s) + 1 /\ Len(s) \in Nat
      /\ \A k \in 1 .. Len(s) : Append(s, e)[k] = s[k]
      /\ Append(s, e)[Len(s) + 1] = e
  BY AppendProperties, LenProperties
<1>2. /\ DOMAIN s = 1 .. Len(s) /\ DOMAIN Append(s, e) = 1 .. Len(s) + 1
      /\ s = <<>> <=> Len(s) = 0
  BY <1>1, LenProperties, EmptySeq
<1>3. Append(s, e) # <<>>
  BY <1>1, EmptySeq
<1>4. Head(Append(s, e)) = Append(s, e)[1] /\ (s # <<>> => Head(s) = s[1])
  BY <1>1, <1>3, HeadTailProperties
<1>5. Last(Append(s, e)) = e
  BY <1>1 DEF Last
<1>6. Head(Append(s, e)) = IF s = <<>> THEN e ELSE Head(s)
  BY <1>1, <1>2, <1>4
<1>7. ToSet(Append(s, e)) = ToSet(s) \cup {e}
  <2> DEFINE t == Append(s, e)
  <2>1. \A k \in DOMAIN s : k \in DOMAIN t /\ t[k] = s[k]
    BY <1>1, <1>2
  <2>2. \A k \in DOMAIN t : k \in DOMAIN s \/ t[k] = e
    BY <1>1, <1>2
  <2>3. Len(s) + 1 \in DOMAIN t /\ t[Len(s) + 1] = e
    BY <1>1, <1>2
  <2> HIDE DEF t
  <2>4. ToSet(t) = ToSet(s) \cup {e}
    BY <2>1, <2>2, <2>3 DEF ToSet
  <2>5. QED
    BY <2>4 DEF t
<1>8. QED
  BY <1>1, <1>3, <1>5, <1>6, <1>7

LEMMA SinPrimero ==
  ASSUME NEW S, NEW s \in Seq(S), s # <<>>
  PROVE  /\ Head(s) \in S /\ Tail(s) \in Seq(S) /\ Len(Tail(s)) = Len(s) - 1
         /\ Len(s) \in Nat \ {0}
         /\ Len(s) > 1 => Last(Tail(s)) = Last(s)
         /\ \A k \in DOMAIN Tail(s) : k + 1 \in DOMAIN s /\ Tail(s)[k] = s[k + 1]
         /\ 1 \in DOMAIN s /\ Head(s) = s[1]
<1>1. /\ Head(s) \in S /\ Tail(s) \in Seq(S) /\ Len(Tail(s)) = Len(s) - 1 /\ Len(s) \in Nat \ {0}
      /\ \A k \in 1 .. Len(Tail(s)) : Tail(s)[k] = s[k + 1]
      /\ Head(s) = s[1]
  BY HeadTailProperties, EmptySeq, LenProperties
<1>2. DOMAIN s = 1 .. Len(s) /\ DOMAIN Tail(s) = 1 .. Len(s) - 1
  BY <1>1, LenProperties
<1>3. ASSUME Len(s) > 1
      PROVE  Last(Tail(s)) = Last(s)
  <2>1. Last(Tail(s)) = Tail(s)[Len(s) - 1] /\ Last(s) = s[Len(s)]
    BY <1>1 DEF Last
  <2>2. Tail(s)[Len(s) - 1] = s[(Len(s) - 1) + 1]
    BY <1>1, <1>3
  <2>3. (Len(s) - 1) + 1 = Len(s)
    BY <1>1
  <2>4. QED
    BY <2>1, <2>2, <2>3
<1>4. \A k \in DOMAIN Tail(s) : k + 1 \in DOMAIN s /\ Tail(s)[k] = s[k + 1]
  BY <1>1, <1>2
<1>5. QED
  BY <1>1, <1>2, <1>3, <1>4

(* The hand of a thread before the queue of its interface.                 *)
LEMMA ManoFila ==
  ASSUME NEW pcb \in Pcb, NEW c \in Seq(Pids)
  PROVE  LET f == (IF pcb = NADA THEN <<>> ELSE <<pcb>>) \o c
         IN  /\ f \in Seq(Pids) /\ Len(f) = Uno(pcb # NADA) + Len(c)
             /\ pcb = NADA => f = c
             /\ pcb # NADA => f # <<>> /\ Head(f) = pcb /\ Tail(f) = c
             /\ \A e \in Pids : (IF pcb = NADA THEN <<>> ELSE <<pcb>>) \o Append(c, e) = Append(f, e)
<1> DEFINE f == (IF pcb = NADA THEN <<>> ELSE <<pcb>>) \o c
<1>1. CASE pcb = NADA
  <2>1. f = c /\ \A e \in Pids : <<>> \o Append(c, e) = Append(c, e)
    BY <1>1, ConcatEmptySeq, AppendProperties
  <2>2. Len(c) \in Nat /\ Uno(pcb # NADA) = 0
    BY <1>1, LenProperties DEF Uno
  <2>3. QED
    BY <1>1, <2>1, <2>2
<1>2. CASE pcb # NADA
  <2> DEFINE h == <<pcb>>
  <2>1. pcb \in Pids /\ f = h \o c
    BY <1>2 DEF Pcb
  <2>2. h \in Seq(Pids) /\ Len(h) = 1 /\ h[1] = pcb
    BY <2>1
  <2> HIDE DEF h
  <2>3. /\ h \o c \in Seq(Pids) /\ Len(h \o c) = 1 + Len(c) /\ Len(c) \in Nat
        /\ \A k \in 1 .. Len(c) + 1 : (h \o c)[k] = IF k <= 1 THEN h[k] ELSE c[k - 1]
    <3>1. /\ h \o c \in Seq(Pids) /\ Len(h \o c) = Len(h) + Len(c)
          /\ \A k \in 1 .. Len(h) + Len(c) :
               (h \o c)[k] = IF k <= Len(h) THEN h[k] ELSE c[k - Len(h)]
      BY <2>2, ConcatProperties
    <3>2. Len(c) \in Nat
      BY LenProperties
    <3>3. Len(h) + Len(c) = Len(c) + 1
      BY <2>2, <3>2
    <3>4. QED
      BY <2>2, <3>1, <3>2, <3>3
  <2>4. (h \o c)[1] = pcb
    BY <2>2, <2>3
  <2>5. h \o c # <<>>
    BY <2>3, EmptySeq
  <2>6. Head(h \o c) = pcb
    BY <2>3, <2>4, <2>5, HeadTailProperties
  <2>7. Tail(h \o c) = c
    <3> DEFINE g == h \o c
    <3>1. /\ Tail(g) \in Seq(Pids) /\ Len(Tail(g)) = Len(g) - 1
          /\ \A k \in 1 .. Len(Tail(g)) : Tail(g)[k] = g[k + 1]
      BY <2>3, <2>5, HeadTailProperties
    <3>2. Len(g) = 1 + Len(c) /\ \A k \in 1 .. Len(c) : g[k + 1] = c[k]
      <4>1. \A k \in 1 .. Len(c) : k + 1 \in 1 .. Len(c) + 1 /\ ~(k + 1 <= 1) /\ (k + 1) - 1 = k
        BY <2>3
      <4>2. \A k \in 1 .. Len(c) : g[k + 1] = c[(k + 1) - 1]
        BY <2>3, <4>1
      <4>3. QED
        BY <2>3, <4>1, <4>2
    <3> HIDE DEF g
    <3>3. Len(Tail(g)) = Len(c) /\ \A k \in 1 .. Len(c) : Tail(g)[k] = c[k]
      BY <2>3, <3>1, <3>2
    <3>4. Tail(g) = c
      BY <3>1, <3>3, SeqEqual
    <3>5. QED
      BY <3>4 DEF g
  <2>8. \A e \in Pids : h \o Append(c, e) = Append(h \o c, e)
    <3>1. TAKE e \in Pids
    <3>2. Append(c, e) = c \o <<e>> /\ <<e>> \in Seq(Pids)
      BY AppendIsConcat
    <3>3. Append(h \o c, e) = (h \o c) \o <<e>>
      BY <2>3, AppendIsConcat
    <3>4. h \o (c \o <<e>>) = (h \o c) \o <<e>>
      BY <2>2, <3>2, ConcatAssociative
    <3>5. QED
      BY <3>2, <3>3, <3>4
  <2>9. Uno(pcb # NADA) = 1 /\ (IF pcb = NADA THEN <<>> ELSE <<pcb>>) = h
    BY <1>2 DEF Uno, h
  <2>10. QED
    BY <1>2, <2>1, <2>3, <2>5, <2>6, <2>7, <2>8, <2>9
<1>3. QED
  BY <1>1, <1>2

LEMMA CabezaYCola ==
  ASSUME NEW S, NEW s \in Seq(S), NEW t \in Seq(S), s # <<>>, t # <<>>,
         Head(s) = Head(t), Tail(s) = Tail(t)
  PROVE  s = t
<1> DEFINE m == Len(s)
           n == Len(t)
<1>1. /\ m \in Nat \ {0} /\ n \in Nat \ {0}
      /\ Len(Tail(s)) = m - 1 /\ Len(Tail(t)) = n - 1
      /\ \A k \in 1 .. Len(Tail(s)) : Tail(s)[k] = s[k + 1]
      /\ \A k \in 1 .. Len(Tail(t)) : Tail(t)[k] = t[k + 1]
      /\ Head(s) = s[1] /\ Head(t) = t[1]
  BY HeadTailProperties, EmptySeq
<1> HIDE DEF m, n
<1>2. m = n
  BY <1>1
<1>3. ASSUME NEW k \in 1 .. m
      PROVE  s[k] = t[k]
  <2>1. CASE k = 1
    BY <1>1, <2>1
  <2>2. CASE k # 1
    <3>1. k - 1 \in 1 .. m - 1 /\ (k - 1) + 1 = k
      BY <1>1, <2>2
    <3>2. s[(k - 1) + 1] = Tail(s)[k - 1] /\ t[(k - 1) + 1] = Tail(t)[k - 1]
      BY <1>1, <1>2, <3>1
    <3>3. QED
      BY <3>1, <3>2
  <2>3. QED
    BY <2>1, <2>2
<1>4. QED
  BY <1>2, <1>3, SeqEqual DEF m, n

(* The numbers of the permit, and the queue of an interface.               *)
Numeros == \A i \in Nombres :
  /\ Actual(i) \in Nat /\ sems[i] \in Seq(0 .. 1) /\ (Actual(i) > 0 => Permiso(i) \in 0 .. 1)
  /\ Envio(i) \in 0 .. 1 /\ Sirve(i) \in 0 .. 1 /\ EnHilo(i) \in 0 .. 1
  /\ Len(pedidos[i]) \in Nat /\ Len(avisos[i]) \in Nat
  /\ Filas[i] = EnMano(i) \o EnCola(i)
  /\ EnCola(i) \in Seq(Pids) /\ hilo[i].pcb \in Pcb
  /\ Filas[i] \in Seq(Pids) /\ Len(Filas[i]) \in Nat

LEMMA NumerosPermiso == TiposInv => Numeros
<1> SUFFICES ASSUME TiposInv, NEW i \in Nombres
             PROVE  /\ Actual(i) \in Nat /\ sems[i] \in Seq(0 .. 1)
                    /\ (Actual(i) > 0 => Permiso(i) \in 0 .. 1)
                    /\ Envio(i) \in 0 .. 1 /\ Sirve(i) \in 0 .. 1 /\ EnHilo(i) \in 0 .. 1
                    /\ Len(pedidos[i]) \in Nat /\ Len(avisos[i]) \in Nat
                    /\ Filas[i] = EnMano(i) \o EnCola(i)
                    /\ EnCola(i) \in Seq(Pids) /\ hilo[i].pcb \in Pcb
                    /\ Filas[i] \in Seq(Pids) /\ Len(Filas[i]) \in Nat
  BY DEF Numeros
<1>1. sems[i] \in Seq(0 .. 1) /\ pedidos[i] \in Seq(Pids) /\ avisos[i] \in Seq(Codigos)
      /\ hilo[i].pcb \in Pcb
  BY DEF TiposInv, TypeOK, TipoInterfaces, TipoIo
<1>2. Actual(i) \in Nat /\ Len(pedidos[i]) \in Nat /\ Len(avisos[i]) \in Nat
  BY <1>1, LenProperties DEF Actual
<1>3. Actual(i) > 0 => Permiso(i) \in 0 .. 1
  <2>1. Actual(i) > 0 => Actual(i) \in 1 .. Len(sems[i])
    BY <1>2 DEF Actual
  <2>2. QED
    BY <1>1, <2>1, ElementOfSeq DEF Permiso
<1>4. Envio(i) \in 0 .. 1 /\ Sirve(i) \in 0 .. 1 /\ EnHilo(i) \in 0 .. 1
  BY DEF Envio, Sirve, EnHilo, Uno
<1>5. EnCola(i) \in Seq(Pids)
  BY DEF TiposInv, TypeOK, TipoInterfaces, EnCola
<1>6. Filas[i] = EnMano(i) \o EnCola(i)
  BY DEF Filas
<1>7. Filas[i] \in Seq(Pids) /\ Len(Filas[i]) \in Nat
  BY <1>1, <1>5, <1>6, ManoFila, LenProperties DEF EnMano
<1>8. QED
  BY <1>1, <1>2, <1>3, <1>4, <1>5, <1>6, <1>7

LEMMA NumerosPrima == TiposInv' => Numeros'
BY NumerosPermiso, PTL

(* An interface that a step does not touch.                                *)
LEMMA Ajena ==
  ASSUME NEW i \in Nombres, Bien(i), desvios \subseteq desvios',
         cola'[i] = cola[i], sems'[i] = sems[i], io'[i] = io[i],
         pedidos'[i] = pedidos[i], avisos'[i] = avisos[i],
         hilo'[i].pc = hilo[i].pc, hilo'[i].pcb = hilo[i].pcb, hilo'[i].codigo = hilo[i].codigo,
         Envio(i)' = Envio(i), PorEnviar(i)' <=> PorEnviar(i),
         PorEnviar(i) => desalojo'.pid = desalojo.pid
  PROVE  Bien(i)'
<1>1. /\ Actual(i)' = Actual(i) /\ Permiso(i)' = Permiso(i) /\ Sirve(i)' = Sirve(i)
      /\ EnHilo(i)' = EnHilo(i) /\ Filas'[i] = Filas[i] /\ (Conectada(i)' <=> Conectada(i))
  BY DEF Actual, Permiso, Sirve, EnHilo, Filas, EnMano, EnCola, Conectada
<1>2. HiloInv(i)'
  BY <1>1 DEF Bien, HiloInv
<1>3. PermisoInv(i)'
  <2>1. SinM_EXIT(i) => SinM_EXIT(i)'
    BY DEF SinM_EXIT
  <2>2. Permisos(i)' = Permisos(i)
    BY <1>1 DEF Permisos
  <2>3. QED
    BY <1>1, <2>1, <2>2 DEF Bien, PermisoInv
<1>4. FilaInv(i)'
  <2>1. Uno(Retiene(hilo[i].pc))' = Uno(Retiene(hilo[i].pc)) /\ Uno(PorEnviar(i))' = Uno(PorEnviar(i))
    BY DEF Uno
  <2>2. QED
    BY <1>1, <2>1 DEF Bien, FilaInv
<1>5. QED
  BY <1>2, <1>3, <1>4 DEF Bien

(* The steps of the eviction thread that touch no interface.               *)
LEMMA QuietoOrden ==
  ASSUME TiposInv, TiposInv', EnOrden, Despachar \/ Terminar \/ DesalojoInvalida \/ DesalojoSinCola \/ DesalojoToma \/ DesalojoFin
  PROVE  EnOrden'
<1>1. /\ UNCHANGED <<cola, sems, hilo, io, lista, pedidos, avisos, finaliza, desvios>>
      /\ planif'.retenidas = planif.retenidas
  BY DEF Despachar, Terminar, DesalojoInvalida, DesalojoSinCola, DesalojoToma, DesalojoFin, conexiones,
     TiposInv, TypeOK, TipoPlanif
<1>2. \/ desalojo' = desalojo
      \/ desalojo.pc \notin EnEspera /\ desalojo'.pc \notin EnEspera \cup {"encola"}
      \/ /\ desalojo.pc = "toma" /\ desalojo'.pc = "espera" /\ desalojo'.pid = desalojo.pid
         /\ desalojo'.nombre = desalojo.nombre /\ desalojo'.interfaz = desalojo.interfaz
         /\ desalojo'.ins = desalojo.ins
  BY DEF Despachar, Terminar, DesalojoInvalida, DesalojoSinCola, DesalojoToma, DesalojoFin, DesalojoA, EnEspera,
     TiposInv, TypeOK, TipoDesalojo
<1>3. ASSUME NEW i \in Nombres
      PROVE  Bien(i)'
  <2>1. Bien(i)
    BY DEF EnOrden
  <2>2. /\ Envio(i)' = Envio(i) /\ (PorEnviar(i)' <=> PorEnviar(i))
        /\ PorEnviar(i) => desalojo'.pid = desalojo.pid
    BY <1>2 DEF Envio, PorEnviar, EnEspera, Uno
  <2>3. QED
    BY <1>1, <2>1, <2>2, Ajena
<1>4. PunteroInv'
  BY <1>1, <1>2 DEF EnOrden, PunteroInv, EnEspera
<1>5. QED
  BY <1>1, <1>3, <1>4 DEF EnOrden

LEMMA PedirOrden ==
  ASSUME TiposInv, TiposInv', EnOrden, NEW q \in Pedidos, Pedir(q[1], q[2]), desvios' \subseteq {"M_EXIT"}
  PROVE  EnOrden'
<1> DEFINE ins == q[1]
           n == q[2]
<1>1. ins \in DOMAIN TipoDe /\ Pedir(ins, n)
  BY PedidosTipo
<1> HIDE DEF ins, n
<1>2. /\ UNCHANGED <<cola, sems, hilo, io, lista, pedidos, avisos, finaliza>> /\ desvios \subseteq desvios'
      /\ planif'.retenidas = planif.retenidas /\ desalojo.pc = "recibe"
  BY <1>1 DEF Pedir, conexiones, Desviar, TiposInv, TypeOK, TipoPlanif
<1>3. desalojo' = [pc |-> IF Existe(ins, n) THEN "encola" ELSE "invalida",
                  pid |-> planif.cpu, ins |-> ins, nombre |-> n,
                  interfaz |-> Apuntada(ins, n), sem |-> 0]
  BY <1>1 DEF Pedir
<1>4. ASSUME NEW i \in Nombres
      PROVE  Bien(i)'
  <2>1. Bien(i)
    BY DEF EnOrden
  <2>2. Envio(i)' = Envio(i) /\ ~PorEnviar(i)' /\ ~PorEnviar(i)
    BY <1>2, <1>3 DEF Envio, PorEnviar, EnEspera, Uno
  <2>3. QED
    BY <1>2, <2>1, <2>2, Ajena
<1>5. PunteroInv'
  <2> SUFFICES ASSUME desalojo'.pc = "encola", n \in Nombres
               PROVE  desalojo'.interfaz \in ToSet(lista[TipoDe[ins]]) /\ desalojo'.interfaz.nombre = n
    BY <1>2, <1>3 DEF PunteroInv, EnEspera
  <2>1. Existe(ins, n)
    BY <1>3
  <2>2. Halladas(ins, n) # {}
    <3>1. "tipo_ajeno" \notin desvios'
      OBVIOUS
    <3>2. QED
      BY <1>1, <2>1, <3>1 DEF Pedir, Desviar
  <2>3. QED
    BY <1>1, <1>3, <2>2, ApuntadaTipo DEF TiposInv, TypeOK
<1>6. QED
  BY <1>2, <1>4, <1>5 DEF EnOrden

LEMMA EncolaOrden ==
  ASSUME TiposInv, TiposInv', EnOrden, DesalojoEncola
  PROVE  EnOrden'
<1> PICK n : n = desalojo.nombre
  OBVIOUS
<1>1. /\ UNCHANGED <<planif, sems, hilo, io, lista, pedidos, avisos, finaliza, desvios>>
      /\ desalojo.pc = "encola" /\ desalojo' = [desalojo EXCEPT !.pc = "toma"]
      /\ n \in Nombres /\ cola[n] # NADA /\ cola' = [cola EXCEPT ![n] = Append(@, desalojo.pid)]
  BY DEF DesalojoEncola, Encolada, ColaDe, DesalojoA, conexiones
<1>2. desalojo'.pc = "toma" /\ desalojo'.nombre = n /\ desalojo'.pid = desalojo.pid
      /\ desalojo'.interfaz = desalojo.interfaz /\ desalojo'.ins = desalojo.ins
  BY <1>1 DEF TiposInv, TypeOK, TipoDesalojo
<1>3. desalojo.pid \in Pids
  BY <1>1 DEF TiposInv, DesalojoInv, Atendiendo
<1>4. ASSUME NEW i \in Nombres \ {n}
      PROVE  Bien(i)'
  <2>1. Bien(i)
    BY DEF EnOrden
  <2>2. Envio(i)' = Envio(i) /\ ~PorEnviar(i)' /\ ~PorEnviar(i)
    BY <1>1, <1>2 DEF Envio, PorEnviar, EnEspera, Uno
  <2>3. cola'[i] = cola[i]
    BY <1>1 DEF TiposInv, TypeOK, TipoInterfaces
  <2>4. QED
    BY <1>1, <2>1, <2>2, <2>3, Ajena
<1>5. Bien(n)'
  <2>1. Bien(n)
    BY <1>1 DEF EnOrden
  <2>2. cola'[n] = Append(cola[n], desalojo.pid) /\ cola'[n] # NADA
    <3>1. cola[n] \in Seq(Pids) /\ cola'[n] = Append(cola[n], desalojo.pid)
      BY <1>1 DEF TiposInv, TypeOK, TipoInterfaces
    <3>2. Append(cola[n], desalojo.pid) \in Seq(Pids)
      BY <1>3, <3>1, AppendProperties
    <3>3. QED
      BY <3>1, <3>2, NadaFuera
  <2>3. /\ Envio(n)' = Envio(n) /\ PorEnviar(n)' /\ ~PorEnviar(n)
        /\ Actual(n)' = Actual(n) /\ Permiso(n)' = Permiso(n) /\ Sirve(n)' = Sirve(n)
        /\ EnHilo(n)' = EnHilo(n) /\ (Conectada(n)' <=> Conectada(n)) /\ EnMano(n)' = EnMano(n)
    BY <1>1, <1>2 DEF Envio, PorEnviar, EnEspera, Uno, Actual, Permiso, Sirve, EnHilo, Conectada, EnMano
  <2>4. Filas'[n] = Append(Filas[n], desalojo.pid)
    <3>1. Filas[n] = EnMano(n) \o cola[n] /\ Filas'[n] = EnMano(n) \o Append(cola[n], desalojo.pid)
      BY <1>1, <2>2, <2>3 DEF Filas, EnCola
    <3>2. cola[n] \in Seq(Pids) /\ hilo[n].pcb \in Pcb
      BY <1>1 DEF TiposInv, TypeOK, TipoInterfaces
    <3>3. \A e \in Pids : EnMano(n) \o Append(cola[n], e) = Append(EnMano(n) \o cola[n], e)
      BY <3>2, ManoFila DEF EnMano
    <3>4. QED
      BY <1>3, <3>1, <3>3
  <2>5. /\ Filas[n] \in Seq(Pids) /\ Len(Filas[n]) \in Nat /\ Len(Filas'[n]) = Len(Filas[n]) + 1
        /\ Last(Filas'[n]) = desalojo.pid
        /\ Head(Filas'[n]) = IF Filas[n] = <<>> THEN desalojo.pid ELSE Head(Filas[n])
    <3>1. Filas[n] \in Seq(Pids) /\ Len(Filas[n]) \in Nat
      BY <1>1, NumerosPermiso DEF Numeros
    <3>2. QED
      BY <1>3, <2>4, <3>1, AlFinal
  <2>6. HiloInv(n)'
    BY <1>1, <2>1, <2>3 DEF Bien, HiloInv
  <2>7. PermisoInv(n)'
    BY <1>1, <2>1, <2>3 DEF Bien, PermisoInv, Permisos, SinM_EXIT
  <2>8. FilaInv(n)'
    <3>1. /\ Uno(Retiene(hilo[n].pc))' = Uno(Retiene(hilo[n].pc))
          /\ Uno(PorEnviar(n)) = 0 /\ Uno(PorEnviar(n))' = 1
          /\ Uno(Retiene(hilo[n].pc)) \in 0 .. 1
      BY <1>1, <2>3 DEF Uno
    <3>2. /\ Sirve(n) \in 0 .. 1 /\ Len(pedidos[n]) \in Nat /\ Len(avisos[n]) \in Nat
          /\ (pedidos[n] # <<>> => Len(pedidos[n]) > 0)
      BY <1>1, NumerosPermiso, EmptySeq DEF Numeros, TiposInv, TypeOK, TipoIo
    <3>3. Len(Filas'[n]) = (Len(pedidos[n]) + Sirve(n) + Len(avisos[n]) + Uno(Retiene(hilo[n].pc))) + 1
      BY <2>1, <2>5, <3>1, <3>2 DEF Bien, FilaInv
    <3>4. pedidos[n] # <<>> \/ io[n].pc = "sirve" => Filas[n] # <<>>
      <4>1. pedidos[n] # <<>> \/ io[n].pc = "sirve" => Len(Filas[n]) > 0
        <5>1. Len(Filas[n]) = Len(pedidos[n]) + Sirve(n) + Len(avisos[n]) + Uno(Retiene(hilo[n].pc)) + 0
          BY <2>1, <3>1 DEF Bien, FilaInv
        <5>2. io[n].pc = "sirve" => Sirve(n) = 1
          BY DEF Sirve, Uno
        <5>3. QED
          BY <3>1, <3>2, <5>1, <5>2
      <4>2. Len(<<>>) = 0
        BY EmptySeq
      <4>3. QED
        BY <4>1, <4>2
    <3>5. QED
      BY <1>1, <1>2, <2>1, <2>3, <2>5, <3>1, <3>3, <3>4 DEF Bien, FilaInv
  <2>9. QED
    BY <2>6, <2>7, <2>8 DEF Bien
<1>6. PunteroInv'
  BY <1>1, <1>2 DEF EnOrden, PunteroInv, EnEspera
<1>7. QED
  BY <1>1, <1>4, <1>5, <1>6 DEF EnOrden

LEMMA EsperaOrden ==
  ASSUME TiposInv, TiposInv', EnOrden, DesalojoEspera
  PROVE  EnOrden'
<1> PICK n : n = desalojo.nombre
  OBVIOUS
<1>1. /\ UNCHANGED <<planif, cola, hilo, io, lista, pedidos, avisos, finaliza, desvios>>
      /\ desalojo.pc = "espera" /\ desalojo' = [desalojo EXCEPT !.pc = "envia"]
      /\ n \in Nombres /\ desalojo.sem \in 1 .. Len(sems[n]) /\ sems[n][desalojo.sem] > 0
      /\ sems' = [sems EXCEPT ![n][desalojo.sem] = @ - 1]
  BY DEF DesalojoEspera, DesalojoA, conexiones, TiposInv, DesalojoInv, EnEspera
<1>2. desalojo'.pc = "envia" /\ desalojo'.nombre = n /\ desalojo'.pid = desalojo.pid
      /\ desalojo'.interfaz = desalojo.interfaz /\ desalojo'.ins = desalojo.ins
  BY <1>1 DEF TiposInv, TypeOK, TipoDesalojo
<1>3. ASSUME NEW i \in Nombres \ {n}
      PROVE  Bien(i)'
  <2>1. Bien(i)
    BY DEF EnOrden
  <2>2. Envio(i)' = Envio(i) /\ ~PorEnviar(i)' /\ ~PorEnviar(i)
    BY <1>1, <1>2 DEF Envio, PorEnviar, EnEspera, Uno
  <2>3. sems'[i] = sems[i]
    BY <1>1 DEF TiposInv, TypeOK, TipoInterfaces
  <2>4. QED
    BY <1>1, <2>1, <2>2, <2>3, Ajena
<1>4. Bien(n)'
  <2>1. Bien(n)
    BY <1>1 DEF EnOrden
  <2>2. desalojo.sem = 1 /\ Actual(n) = 1
    <3>1. Actual(n) \in Nat /\ Actual(n) <= 1 /\ desalojo.sem \in 1 .. Actual(n)
      <4>1. desalojo.sem \in 1 .. Actual(n)
        BY <1>1 DEF Actual
      <4>2. QED
        BY <1>1, <2>1, <4>1, NumerosPermiso DEF Numeros, Bien, HiloInv
    <3>2. QED
      BY <3>1
  <2>3. sems'[n] = [sems[n] EXCEPT ![1] = sems[n][1] - 1]
    BY <1>1, <2>2 DEF TiposInv, TypeOK, TipoInterfaces
  <2>4. Actual(n)' = 1 /\ Permiso(n) = 1 /\ Permiso(n)' = 0
    <3>1. sems[n] \in Seq(0 .. 1) /\ Permiso(n) \in 0 .. 1 /\ Permiso(n) = sems[n][1] /\ 1 \in 1 .. Len(sems[n])
      BY <1>1, <2>2, NumerosPermiso DEF Numeros, Permiso, Actual
    <3>2. sems[n][1] = 1 /\ sems[n][1] - 1 = 0 /\ 0 \in 0 .. 1
      BY <1>1, <2>2, <3>1
    <3>3. Len(sems'[n]) = Len(sems[n]) /\ sems'[n][1] = 0
      BY <2>3, <3>1, <3>2, ExceptSeq
    <3>4. QED
      BY <2>2, <3>1, <3>2, <3>3 DEF Actual, Permiso
  <2>5. /\ Envio(n) = 0 /\ Envio(n)' = 1 /\ PorEnviar(n)' /\ PorEnviar(n)
        /\ Sirve(n)' = Sirve(n) /\ Filas'[n] = Filas[n]
        /\ EnHilo(n)' = EnHilo(n) /\ (Conectada(n)' <=> Conectada(n))
    BY <1>1, <1>2 DEF Envio, PorEnviar, EnEspera, Uno, Sirve, EnHilo, Conectada, Filas, EnMano, EnCola
  <2>6. HiloInv(n)'
    BY <1>1, <2>1, <2>2, <2>4, <2>5 DEF Bien, HiloInv
  <2>7. PermisoInv(n)'
    <3>1. Permisos(n)' = Permisos(n)
      BY <1>1, <2>4, <2>5 DEF Permisos
    <3>2. QED
      BY <1>1, <2>1, <2>2, <3>1 DEF Bien, PermisoInv, SinM_EXIT
  <2>8. FilaInv(n)'
    <3>1. Uno(Retiene(hilo[n].pc))' = Uno(Retiene(hilo[n].pc)) /\ Uno(PorEnviar(n))' = Uno(PorEnviar(n))
      BY <1>1, <2>5 DEF Uno
    <3>2. QED
      BY <1>1, <1>2, <2>1, <2>5, <3>1 DEF Bien, FilaInv
  <2>9. QED
    BY <2>6, <2>7, <2>8 DEF Bien
<1>5. PunteroInv'
  BY <1>1, <1>2 DEF EnOrden, PunteroInv, EnEspera
<1>6. QED
  BY <1>1, <1>3, <1>4, <1>5 DEF EnOrden

(* The permit the eviction thread has taken is the only one: the interface *)
(* is connected and has nothing to do.                                     *)
LEMMA EnviaLibre ==
  ASSUME TiposInv, EnOrden, desalojo.pc = "envia", NEW n \in Nombres, n = desalojo.nombre
  PROVE  /\ Actual(n) = 1 /\ Conectada(n) /\ Permiso(n) = 0 /\ Envio(n) = 1 /\ pedidos[n] = <<>>
         /\ io[n].pc # "sirve" /\ avisos[n] = <<>> /\ hilo[n].pc # "avisa" /\ ~Retiene(hilo[n].pc)
         /\ Len(Filas[n]) = 1 /\ Head(Filas[n]) = desalojo.pid
         /\ desalojo.interfaz \in ToSet(lista[TipoDe[desalojo.ins]]) /\ desalojo.interfaz.nombre = n
<1>1. Bien(n) /\ Actual(n) > 0 /\ Envio(n) = 1 /\ PorEnviar(n)
  BY DEF EnOrden, TiposInv, DesalojoInv, EnEspera, Actual, Envio, PorEnviar, Uno
<1>2. /\ Actual(n) \in Nat /\ Permiso(n) \in 0 .. 1 /\ Sirve(n) \in 0 .. 1 /\ EnHilo(n) \in 0 .. 1
      /\ Len(pedidos[n]) \in Nat /\ Len(avisos[n]) \in Nat /\ Filas[n] \in Seq(Pids)
  BY <1>1, NumerosPermiso DEF Numeros
<1>3. /\ Permiso(n) = 0 /\ Len(pedidos[n]) = 0 /\ Sirve(n) = 0 /\ Len(avisos[n]) = 0 /\ EnHilo(n) = 0
      /\ Actual(n) = 1
  BY <1>1, <1>2, SMTT(30) DEF Bien, HiloInv, PermisoInv, Permisos
<1>4. pedidos[n] = <<>> /\ avisos[n] = <<>>
  BY <1>3, EmptySeq DEF TiposInv, TypeOK, TipoIo
<1>5. io[n].pc # "sirve" /\ hilo[n].pc # "avisa" /\ ~Retiene(hilo[n].pc)
  BY <1>3 DEF Sirve, EnHilo, Uno
<1>6. Conectada(n)
  BY <1>1, <1>3 DEF Bien, HiloInv
<1>7. Len(Filas[n]) = 1 /\ Head(Filas[n]) = desalojo.pid
  <2>1. Uno(Retiene(hilo[n].pc)) = 0 /\ Uno(PorEnviar(n)) = 1
    BY <1>1, <1>5 DEF Uno
  <2>2. Len(Filas[n]) = 1 /\ Last(Filas[n]) = desalojo.pid
    <3>1. /\ Len(Filas[n]) = Len(pedidos[n]) + Sirve(n) + Len(avisos[n]) + Uno(Retiene(hilo[n].pc))
                              + Uno(PorEnviar(n))
          /\ Last(Filas[n]) = desalojo.pid
      BY <1>1 DEF Bien, FilaInv
    <3>2. QED
      BY <1>3, <2>1, <3>1
  <2>3. Filas[n] # <<>>
    BY <2>2, EmptySeq
  <2>4. Head(Filas[n]) = Filas[n][1] /\ Last(Filas[n]) = Filas[n][1]
    BY <1>2, <2>2, <2>3, HeadTailProperties DEF Last
  <2>5. QED
    BY <2>2, <2>4
<1>8. desalojo.interfaz \in ToSet(lista[TipoDe[desalojo.ins]]) /\ desalojo.interfaz.nombre = n
  BY DEF EnOrden, PunteroInv, EnEspera
<1>9. QED
  BY <1>1, <1>3, <1>4, <1>5, <1>6, <1>7, <1>8

LEMMA EnviaPaso ==
  ASSUME TiposInv, EnOrden, DesalojoEnvia, NEW n \in Nombres, n = desalojo.nombre
  PROVE  /\ UNCHANGED <<planif, cola, sems, hilo, finaliza, lista, io, avisos, desvios>>
         /\ desalojo'.pc = "fin" /\ desalojo.pid \in Pids
         /\ pedidos' = [pedidos EXCEPT ![n] = <<desalojo.pid>>]
<1>1. desalojo.pc = "envia" /\ DesalojoA("fin")
  BY DEF DesalojoEnvia
<1>2. /\ pedidos[n] = <<>> /\ Conectada(n)
      /\ desalojo.interfaz \in ToSet(lista[TipoDe[desalojo.ins]]) /\ desalojo.interfaz.nombre = n
  BY <1>1, EnviaLibre
<1>3. Llega(n)
  BY <1>2 DEF DesalojoEnvia
<1>4. pedidos' = [pedidos EXCEPT ![n] = Append(@, desalojo.pid)]
  BY <1>3 DEF Llega
<1>5. Append(<<>>, desalojo.pid) = <<desalojo.pid>>
  OBVIOUS
<1>6. pedidos' = [pedidos EXCEPT ![n] = <<desalojo.pid>>]
  BY <1>2, <1>4, <1>5
<1>7. desalojo'.pc = "fin"
  BY <1>1 DEF DesalojoA, TiposInv, TypeOK, TipoDesalojo
<1>8. desalojo.pid \in Pids
  BY <1>1 DEF TiposInv, DesalojoInv, Atendiendo
<1>9. QED
  BY <1>6, <1>7, <1>8 DEF DesalojoEnvia

LEMMA EnviaOrden ==
  ASSUME TiposInv, TiposInv', EnOrden, DesalojoEnvia
  PROVE  EnOrden'
<1> PICK n : n = desalojo.nombre
  OBVIOUS
<1>1. desalojo.pc = "envia" /\ n \in Nombres
  BY DEF DesalojoEnvia, TiposInv, DesalojoInv, EnEspera
<1>2. /\ UNCHANGED <<planif, cola, sems, hilo, finaliza, lista, io, avisos, desvios>>
      /\ desalojo'.pc = "fin" /\ desalojo.pid \in Pids
      /\ pedidos' = [pedidos EXCEPT ![n] = <<desalojo.pid>>]
  BY <1>1, EnviaPaso
<1>3. ASSUME NEW i \in Nombres \ {n}
      PROVE  Bien(i)'
  <2>1. Bien(i)
    BY DEF EnOrden
  <2>2. Envio(i)' = Envio(i) /\ ~PorEnviar(i)' /\ ~PorEnviar(i)
    BY <1>1, <1>2 DEF Envio, PorEnviar, EnEspera, Uno
  <2>3. pedidos'[i] = pedidos[i]
    BY <1>2 DEF TiposInv, TypeOK, TipoIo
  <2>4. QED
    BY <1>2, <2>1, <2>2, <2>3, Ajena
<1>4. Bien(n)'
  <2>1. /\ Actual(n) = 1 /\ Conectada(n) /\ Permiso(n) = 0 /\ Envio(n) = 1 /\ pedidos[n] = <<>>
        /\ io[n].pc # "sirve" /\ avisos[n] = <<>> /\ hilo[n].pc # "avisa" /\ ~Retiene(hilo[n].pc)
        /\ Len(Filas[n]) = 1 /\ Head(Filas[n]) = desalojo.pid
    BY <1>1, EnviaLibre
  <2>2. Bien(n)
    BY <1>1 DEF EnOrden
  <2>3. /\ pedidos'[n] = <<desalojo.pid>> /\ Len(pedidos'[n]) = 1 /\ Head(pedidos'[n]) = desalojo.pid
        /\ pedidos'[n] # <<>> /\ Len(avisos'[n]) = 0
    BY <1>1, <1>2, <2>1, SMTT(30) DEF TiposInv, TypeOK, TipoIo
  <2>4. /\ Envio(n)' = 0 /\ ~PorEnviar(n)' /\ Uno(PorEnviar(n))' = 0 /\ Uno(Retiene(hilo[n].pc))' = 0
        /\ Sirve(n)' = 0 /\ EnHilo(n)' = 0
    BY <1>2, <2>1 DEF Envio, PorEnviar, EnEspera, Uno, Sirve, EnHilo
  <2>5. Filas'[n] = Filas[n] /\ (Conectada(n)' <=> Conectada(n)) /\ Actual(n)' = 1 /\ Permiso(n)' = 0
    BY <1>2, <2>1 DEF Filas, EnMano, EnCola, Conectada, Actual, Permiso
  <2>6. HiloInv(n)'
    BY <1>2, <2>1, <2>2, <2>3, <2>5 DEF Bien, HiloInv
  <2>7. PermisoInv(n)'
    <3>1. Permisos(n)' = 1
      BY <2>3, <2>4, <2>5 DEF Permisos
    <3>2. QED
      BY <1>2, <2>2, <3>1 DEF Bien, PermisoInv, SinM_EXIT
  <2>8. FilaInv(n)'
    <3>1. Len(Filas'[n]) = Len(pedidos'[n]) + Sirve(n)' + Len(avisos'[n]) + Uno(Retiene(hilo[n].pc))'
                           + Uno(PorEnviar(n))'
      BY <2>1, <2>3, <2>4, <2>5
    <3>2. Head(pedidos'[n]) = Head(Filas'[n]) /\ io'[n].pc # "sirve"
      BY <1>2, <2>1, <2>3, <2>5
    <3>3. QED
      BY <2>4, <3>1, <3>2 DEF FilaInv
  <2>9. QED
    BY <2>6, <2>7, <2>8 DEF Bien
<1>5. PunteroInv'
  BY <1>1, <1>2 DEF PunteroInv, EnEspera
<1>6. QED
  BY <1>2, <1>3, <1>4, <1>5 DEF EnOrden

LEMMA ConectarOrden ==
  ASSUME TiposInv, TiposInv', EnOrden, NEW n \in Nombres, Conectar(n)
  PROVE  EnOrden'
<1>1. UNCHANGED <<planif, desalojo, finaliza, avisos, desvios>> /\ hilo[n].pc = "ninguno"
  BY DEF Conectar
<1>2. ASSUME NEW i \in Nombres \ {n}
      PROVE  Bien(i)'
  <2>1. Bien(i)
    BY DEF EnOrden
  <2>2. /\ cola'[i] = cola[i] /\ sems'[i] = sems[i] /\ io'[i] = io[i] /\ hilo'[i] = hilo[i]
        /\ pedidos'[i] = pedidos[i]
    BY DEF Conectar, TiposInv, TypeOK, TipoInterfaces, TipoIo
  <2>3. Envio(i)' = Envio(i) /\ (PorEnviar(i)' <=> PorEnviar(i))
    BY <1>1 DEF Envio, PorEnviar
  <2>4. QED
    BY <1>1, <2>1, <2>2, <2>3, Ajena
<1>3. Bien(n)'
  <2>1. Bien(n) /\ Actual(n) = 0 /\ avisos[n] = <<>> /\ hilo[n].pcb = NADA
    BY <1>1 DEF EnOrden, Bien, HiloInv, TiposInv, HilosInv
  <2>2. /\ cola'[n] = <<>> /\ sems'[n] = Append(sems[n], 1) /\ pedidos'[n] = <<>> /\ avisos'[n] = <<>>
        /\ io'[n].pc = "espera" /\ hilo'[n].pc = "recibe" /\ hilo'[n].pcb = NADA
        /\ hilo'[n].codigo = hilo[n].codigo
    BY <1>1, <2>1 DEF Conectar, TiposInv, TypeOK, TipoInterfaces, TipoIo
  <2>3. Actual(n)' = 1 /\ Permiso(n)' = 1
    <3>1. sems[n] \in Seq(0 .. 1) /\ 1 \in 0 .. 1 /\ Len(sems[n]) = 0
      BY <2>1, NumerosPermiso DEF Numeros, Actual
    <3>2. Len(Append(sems[n], 1)) = 0 + 1 /\ Append(sems[n], 1)[0 + 1] = 1
      BY <3>1, AppendProperties
    <3>3. QED
      BY <2>2, <3>2 DEF Actual, Permiso
  <2>4. ~PorEnviar(n) /\ desalojo.nombre = n => desalojo.pc # "envia"
    BY DEF PorEnviar, EnEspera
  <2>5. ~PorEnviar(n)
    BY <2>1 DEF PorEnviar, TiposInv, DesalojoInv, Actual
  <2>6. /\ ~PorEnviar(n)' /\ Envio(n)' = 0 /\ Sirve(n)' = 0 /\ EnHilo(n)' = 0
        /\ Uno(PorEnviar(n))' = 0 /\ Uno(Retiene(hilo[n].pc))' = 0 /\ ~Retiene(hilo'[n].pc)
    BY <1>1, <2>2, <2>4, <2>5 DEF PorEnviar, Envio, Sirve, EnHilo, Uno, Retiene
  <2>7. Len(pedidos'[n]) = 0 /\ Len(avisos'[n]) = 0 /\ DOMAIN avisos'[n] = {}
    BY <2>2
  <2>8. Filas'[n] = <<>> /\ Len(Filas'[n]) = 0
    <3>1. NADA # <<>>
      BY NadaFuera
    <3>2. EnMano(n)' = <<>> /\ EnCola(n)' = <<>>
      BY <2>2, <3>1 DEF EnMano, EnCola
    <3>3. Filas'[n] = <<>> \o <<>>
      BY <3>2 DEF Filas
    <3>4. QED
      BY <3>3
  <2>9. HiloInv(n)'
    BY <2>2, <2>3 DEF HiloInv, Conectada
  <2>10. PermisoInv(n)'
    <3>1. Permisos(n)' = 1
      BY <2>3, <2>6, <2>7 DEF Permisos
    <3>2. SinM_EXIT(n)'
      BY <2>2, <2>6, <2>7 DEF SinM_EXIT
    <3>3. QED
      BY <3>1, <3>2 DEF PermisoInv
  <2>11. FilaInv(n)'
    BY <2>2, <2>6, <2>7, <2>8 DEF FilaInv
  <2>12. QED
    BY <2>9, <2>10, <2>11 DEF Bien
<1>4. PunteroInv'
  <2>1. \A t \in Tipos : ToSet(lista[t]) \subseteq ToSet(lista'[t])
    <3>1. TAKE t \in Tipos
    <3>2. lista[t] \in Seq(Punteros) /\ lista' \in [Tipos -> Seq(Punteros)] /\ lista \in [Tipos -> Seq(Punteros)]
      BY DEF TiposInv, TypeOK, TipoInterfaces
    <3>3. lista'[t] = lista[t] \/ \E e \in Punteros : lista'[t] = Append(lista[t], e)
      <4>1. PICK e : e = Puntero(n, Actual(n) + 1)
        OBVIOUS
      <4>2. lista' = [lista EXCEPT ![TIPO[n]] = Append(@, e)]
        BY <4>1 DEF Conectar
      <4>3. e \in Punteros
        <5>1. Actual(n) \in Nat /\ Actual(n) < MAX_CONEXIONES /\ MAX_CONEXIONES \in Nat
          BY NumerosPermiso, ConstantesAssumption DEF Numeros, Conectar
        <5>2. Actual(n) + 1 \in 1 .. MAX_CONEXIONES
          BY <5>1
        <5>3. QED
          BY <4>1, <5>2 DEF Puntero, Punteros
      <4>4. QED
        BY <3>2, <4>2, <4>3
    <3>4. \A e \in Punteros : ToSet(Append(lista[t], e)) = ToSet(lista[t]) \cup {e}
      BY <3>2, AlFinal
    <3>5. QED
      BY <3>3, <3>4
  <2>2. desalojo.pc \in EnEspera \cup {"encola"} => TipoDe[desalojo.ins] \in Tipos
    BY TipoDeTipo DEF TiposInv, DesalojoInv, Atendiendo, EnEspera
  <2>3. QED
    BY <1>1, <2>1, <2>2 DEF EnOrden, PunteroInv
<1>5. QED
  BY <1>1, <1>2, <1>3, <1>4 DEF EnOrden

(* Who holds the permit of a connected interface is the only one.          *)
LEMMA UnSoloPermiso ==
  ASSUME TiposInv, NEW n \in Nombres, Bien(n), hilo[n].pc # "ninguno"
  PROVE  /\ Actual(n) = 1 /\ Conectada(n)
         /\ pedidos[n] # <<>> =>
              /\ Len(pedidos[n]) = 1 /\ Permiso(n) = 0 /\ Envio(n) = 0 /\ Sirve(n) = 0
              /\ avisos[n] = <<>> /\ EnHilo(n) = 0
         /\ avisos[n] # <<>> =>
              /\ Len(avisos[n]) = 1 /\ Permiso(n) = 0 /\ Envio(n) = 0 /\ Sirve(n) = 0
              /\ pedidos[n] = <<>> /\ EnHilo(n) = 0
         /\ Sirve(n) = 1 =>
              Permiso(n) = 0 /\ Envio(n) = 0 /\ pedidos[n] = <<>> /\ avisos[n] = <<>> /\ EnHilo(n) = 0
         /\ EnHilo(n) = 1 =>
              Permiso(n) = 0 /\ Envio(n) = 0 /\ pedidos[n] = <<>> /\ avisos[n] = <<>> /\ Sirve(n) = 0
<1>1. Actual(n) = 1 /\ Conectada(n)
  <2>1. Actual(n) \in Nat /\ Actual(n) # 0 /\ Actual(n) <= 1
    BY NumerosPermiso DEF Numeros, Bien, HiloInv
  <2>2. QED
    BY <2>1 DEF Bien, HiloInv
<1>2. Permiso(n) \in 0 .. 1 /\ Envio(n) \in 0 .. 1 /\ Sirve(n) \in 0 .. 1 /\ EnHilo(n) \in 0 .. 1
  BY <1>1, NumerosPermiso DEF Numeros
<1>3. PICK p \in Nat : p = Len(pedidos[n]) /\ (pedidos[n] = <<>> <=> p = 0)
  BY NumerosPermiso, EmptySeq DEF Numeros, TiposInv, TypeOK, TipoIo
<1>4. PICK v \in Nat : v = Len(avisos[n]) /\ (avisos[n] = <<>> <=> v = 0)
  BY NumerosPermiso, EmptySeq DEF Numeros, TiposInv, TypeOK, TipoIo
<1>5. Permiso(n) + Envio(n) + p + Sirve(n) + v + EnHilo(n) <= 1
  <2>1. Permisos(n) <= 1
    BY <1>1 DEF Bien, PermisoInv
  <2>2. QED
    BY <1>3, <1>4, <2>1 DEF Permisos
<1>6. p > 0 => p = 1 /\ Permiso(n) = 0 /\ Envio(n) = 0 /\ Sirve(n) = 0 /\ v = 0 /\ EnHilo(n) = 0
  BY <1>2, <1>5
<1>7. v > 0 => v = 1 /\ Permiso(n) = 0 /\ Envio(n) = 0 /\ Sirve(n) = 0 /\ p = 0 /\ EnHilo(n) = 0
  BY <1>2, <1>5
<1>8. Sirve(n) = 1 => Permiso(n) = 0 /\ Envio(n) = 0 /\ p = 0 /\ v = 0 /\ EnHilo(n) = 0
  BY <1>2, <1>5
<1>9. EnHilo(n) = 1 => Permiso(n) = 0 /\ Envio(n) = 0 /\ p = 0 /\ v = 0 /\ Sirve(n) = 0
  BY <1>2, <1>5
<1>10. (pedidos[n] # <<>> => p > 0) /\ (avisos[n] # <<>> => v > 0)
  BY <1>3, <1>4
<1>11. QED
  BY <1>1, <1>3, <1>4, <1>6, <1>7, <1>8, <1>9, <1>10

(* The IO program takes a request, serves it, or fails.                    *)
LEMMA IoTomaBien ==
  ASSUME TiposInv, EnOrden, NEW n \in Nombres, IoToma(n)
  PROVE  Bien(n)'
<1>1. /\ UNCHANGED <<planif, cola, sems, hilo, desalojo, avisos, desvios>>
      /\ io[n].pc = "espera" /\ pedidos[n] # <<>> /\ Bien(n)
  BY DEF IoToma, kernelVars, EnOrden
<1>2. /\ io'[n] = [pc |-> "sirve", pid |-> Head(pedidos[n])] /\ pedidos'[n] = Tail(pedidos[n])
      /\ pedidos[n] \in Seq(Pids)
  BY DEF IoToma, TiposInv, TypeOK, TipoIo
<1>3. hilo[n].pc # "ninguno" /\ Sirve(n)' = 1
  BY <1>1, <1>2 DEF Bien, HiloInv, Conectada, Sirve, Uno
<1>4. /\ Actual(n) = 1 /\ Conectada(n) /\ Len(pedidos[n]) = 1 /\ Permiso(n) = 0 /\ Envio(n) = 0
      /\ Sirve(n) = 0 /\ EnHilo(n) = 0 /\ avisos[n] = <<>>
  BY <1>1, <1>3, UnSoloPermiso
<1>5. Len(avisos[n]) = 0
  BY <1>4
<1>6. Len(pedidos'[n]) = 0 /\ pedidos'[n] = <<>>
  <2>1. Tail(pedidos[n]) \in Seq(Pids) /\ Len(Tail(pedidos[n])) = 0
    BY <1>1, <1>2, <1>4, HeadTailProperties
  <2>2. QED
    BY <1>2, <2>1, EmptySeq
<1>7. /\ Actual(n)' = Actual(n) /\ Permiso(n)' = Permiso(n) /\ Envio(n)' = Envio(n) /\ EnHilo(n)' = EnHilo(n)
      /\ Filas'[n] = Filas[n] /\ Conectada(n)' /\ (PorEnviar(n)' <=> PorEnviar(n))
      /\ Uno(Retiene(hilo[n].pc))' = Uno(Retiene(hilo[n].pc)) /\ Uno(PorEnviar(n))' = Uno(PorEnviar(n))
  BY <1>1, <1>2 DEF Actual, Permiso, Envio, EnHilo, Filas, EnMano, EnCola, Conectada, PorEnviar, Uno
<1>8. HiloInv(n)'
  BY <1>1, <1>3, <1>4, <1>6, <1>7 DEF Bien, HiloInv
<1>9. PermisoInv(n)'
  <2>1. Permisos(n)' = Permisos(n)
    BY <1>1, <1>3, <1>4, <1>5, <1>6, <1>7 DEF Permisos
  <2>2. QED
    BY <1>1, <1>7, <2>1 DEF Bien, PermisoInv, SinM_EXIT
<1>10. FilaInv(n)'
  <2>1. Len(Filas'[n]) = Len(pedidos'[n]) + Sirve(n)' + Len(avisos'[n]) + Uno(Retiene(hilo[n].pc))'
                          + Uno(PorEnviar(n))'
    BY <1>1, <1>3, <1>4, <1>5, <1>6, <1>7 DEF Bien, FilaInv
  <2>2. io'[n].pid = Head(Filas'[n])
    BY <1>1, <1>2, <1>7 DEF Bien, FilaInv
  <2>3. PorEnviar(n)' => Last(Filas'[n]) = desalojo'.pid
    BY <1>1, <1>7 DEF Bien, FilaInv
  <2>4. QED
    BY <1>6, <2>1, <2>2, <2>3 DEF FilaInv
<1>11. QED
  BY <1>8, <1>9, <1>10 DEF Bien

LEMMA IoContestaBien ==
  ASSUME TiposInv, EnOrden, NEW n \in Nombres, NEW codigo \in Codigos, IoContesta(n, codigo, "espera"),
         desvios \subseteq desvios', desvios' = {} => codigo # "M_EXIT"
  PROVE  Bien(n)'
<1>1. /\ UNCHANGED <<planif, cola, sems, hilo, desalojo, pedidos>> /\ io[n].pc = "sirve" /\ Bien(n)
  BY DEF IoContesta, kernelVars, EnOrden
<1>2. io'[n].pc = "espera" /\ avisos'[n] = Append(avisos[n], codigo) /\ avisos[n] \in Seq(Codigos)
  BY DEF IoContesta, TiposInv, TypeOK, TipoIo
<1>3. hilo[n].pc # "ninguno" /\ Sirve(n) = 1 /\ Sirve(n)' = 0
  BY <1>1, <1>2 DEF Bien, HiloInv, Conectada, Sirve, Uno
<1>4. /\ Actual(n) = 1 /\ Conectada(n) /\ pedidos[n] = <<>> /\ Permiso(n) = 0 /\ Envio(n) = 0
      /\ EnHilo(n) = 0 /\ avisos[n] = <<>>
  BY <1>1, <1>3, UnSoloPermiso
<1>5. Len(pedidos[n]) = 0 /\ Len(avisos[n]) = 0 /\ Len(avisos'[n]) = 1
  <2>1. Len(avisos'[n]) = Len(avisos[n]) + 1
    BY <1>2, AlFinal
  <2>2. QED
    BY <1>4, <2>1
<1>6. /\ Actual(n)' = Actual(n) /\ Permiso(n)' = Permiso(n) /\ Envio(n)' = Envio(n) /\ EnHilo(n)' = EnHilo(n)
      /\ Filas'[n] = Filas[n] /\ Conectada(n)' /\ (PorEnviar(n)' <=> PorEnviar(n))
      /\ Uno(Retiene(hilo[n].pc))' = Uno(Retiene(hilo[n].pc)) /\ Uno(PorEnviar(n))' = Uno(PorEnviar(n))
  BY <1>1, <1>2 DEF Actual, Permiso, Envio, EnHilo, Filas, EnMano, EnCola, Conectada, PorEnviar, Uno
<1>7. HiloInv(n)'
  BY <1>1, <1>4, <1>6 DEF Bien, HiloInv
<1>8. PermisoInv(n)'
  <2>1. Permisos(n)' = Permisos(n)
    BY <1>1, <1>3, <1>4, <1>5, <1>6 DEF Permisos
  <2>2. SinM_EXIT(n) /\ codigo # "M_EXIT" => SinM_EXIT(n)'
    <3>1. \A k \in DOMAIN avisos'[n] :
           \/ k \in DOMAIN avisos[n] /\ avisos'[n][k] = avisos[n][k]
           \/ avisos'[n][k] = codigo
      <4>1. /\ DOMAIN avisos[n] = 1 .. Len(avisos[n]) /\ DOMAIN avisos'[n] = 1 .. Len(avisos[n]) + 1
            /\ \A k \in 1 .. Len(avisos[n]) : avisos'[n][k] = avisos[n][k]
            /\ avisos'[n][Len(avisos[n]) + 1] = codigo
        BY <1>2, AppendProperties, LenProperties
      <4>2. QED
        BY <1>5, <4>1
    <3>2. QED
      BY <1>1, <3>1 DEF SinM_EXIT
  <2>3. QED
    BY <1>1, <1>6, <2>1, <2>2 DEF Bien, PermisoInv
<1>9. FilaInv(n)'
  <2>1. Uno(Retiene(hilo[n].pc)) \in 0 .. 1 /\ Uno(PorEnviar(n)) \in 0 .. 1
    BY DEF Uno
  <2>2. Len(Filas'[n]) = Len(pedidos'[n]) + Sirve(n)' + Len(avisos'[n]) + Uno(Retiene(hilo[n].pc))'
                          + Uno(PorEnviar(n))'
    BY <1>1, <1>3, <1>4, <1>5, <1>6, <2>1 DEF Bien, FilaInv
  <2>3. PorEnviar(n)' => Last(Filas'[n]) = desalojo'.pid
    BY <1>1, <1>6 DEF Bien, FilaInv
  <2>4. QED
    BY <1>1, <1>2, <1>4, <2>2, <2>3 DEF FilaInv
<1>10. QED
  BY <1>7, <1>8, <1>9 DEF Bien

LEMMA IoOrden ==
  ASSUME TiposInv, TiposInv', EnOrden, NEW n \in Nombres, IO(n) \/ Averias(n), desvios' \subseteq {"M_EXIT"}
  PROVE  EnOrden'
<1>1. /\ UNCHANGED <<planif, cola, sems, hilo, desalojo, finaliza, lista>> /\ desvios \subseteq desvios'
      /\ \A i \in Nombres \ {n} : io'[i] = io[i] /\ pedidos'[i] = pedidos[i] /\ avisos'[i] = avisos[i]
  BY DEF IO, IoToma, IoTermina, IoContesta, Averias, IoFalla, IoFallaYTermina, Desconectar, Desviar,
     kernelVars, TiposInv, TypeOK, TipoIo
<1>2. ASSUME NEW i \in Nombres \ {n}
      PROVE  Bien(i)'
  <2>1. Bien(i)
    BY DEF EnOrden
  <2>2. Envio(i)' = Envio(i) /\ (PorEnviar(i)' <=> PorEnviar(i))
    BY <1>1 DEF Envio, PorEnviar
  <2>3. QED
    BY <1>1, <2>1, <2>2, Ajena
<1>3. Bien(n)'
  <2>1. CASE IoToma(n)
    BY <2>1, IoTomaBien
  <2>2. CASE IoTermina(n)
    <3>1. TIPO[n] \in Codigos /\ TIPO[n] # "M_EXIT"
      BY ConstantesAssumption DEF Codigos, Tipos
    <3>2. QED
      BY <1>1, <2>2, <3>1, IoContestaBien DEF IoTermina
  <2>3. CASE IoFalla(n)
    <3>1. "M_EXIT" \in Codigos /\ desvios' # {}
      BY <2>3 DEF IoFalla, Desviar, Codigos
    <3>2. QED
      BY <1>1, <2>3, <3>1, IoContestaBien DEF IoFalla
  <2>4. CASE IoFallaYTermina(n) \/ Desconectar(n)
    <3>1. "desconexion" \in desvios'
      BY <2>4 DEF IoFallaYTermina, Desconectar, Desviar
    <3>2. QED
      BY <3>1
  <2>5. QED
    BY <2>1, <2>2, <2>3, <2>4 DEF IO, Averias
<1>4. PunteroInv'
  BY <1>1 DEF EnOrden, PunteroInv
<1>5. QED
  BY <1>1, <1>2, <1>3, <1>4 DEF EnOrden

-----------------------------------------------------------------------------
(* esperar_fin_io: what the thread of n does to n.                         *)
LEMMA HiloRecibeBien ==
  ASSUME TiposInv, EnOrden, NEW n \in Nombres, HiloRecibe(n)
  PROVE  Bien(n)'
<1>1. /\ UNCHANGED <<planif, cola, sems, desalojo, io, pedidos, desvios>>
      /\ hilo[n].pc = "recibe" /\ avisos[n] # <<>> /\ Bien(n) /\ hilo[n].pcb = NADA
  BY DEF HiloRecibe, EnOrden, TiposInv, HilosInv
<1>2. /\ hilo'[n].pc = "mira" /\ hilo'[n].codigo = Head(avisos[n]) /\ hilo'[n].pcb = NADA
      /\ avisos'[n] = Tail(avisos[n]) /\ avisos[n] \in Seq(Codigos)
  <2>1. hilo'[n] = [hilo[n] EXCEPT !.pc = "mira", !.codigo = Head(avisos[n]), !.pcb = NADA]
    BY DEF HiloRecibe, TiposInv, TypeOK, TipoInterfaces
  <2>2. QED
    BY <2>1 DEF HiloRecibe, TiposInv, TypeOK, TipoInterfaces, TipoIo
<1>3. /\ Actual(n) = 1 /\ Conectada(n) /\ Len(avisos[n]) = 1 /\ Permiso(n) = 0 /\ Envio(n) = 0
      /\ Sirve(n) = 0 /\ pedidos[n] = <<>> /\ EnHilo(n) = 0
  BY <1>1, UnSoloPermiso
<1>4. avisos'[n] = <<>> /\ Len(avisos'[n]) = 0 /\ Len(pedidos[n]) = 0
  <2>1. Tail(avisos[n]) \in Seq(Codigos) /\ Len(Tail(avisos[n])) = 0
    BY <1>1, <1>2, <1>3, HeadTailProperties
  <2>2. QED
    BY <1>2, <1>3, <2>1, EmptySeq
<1>5. /\ Actual(n)' = Actual(n) /\ Permiso(n)' = Permiso(n) /\ Envio(n)' = Envio(n) /\ Sirve(n)' = Sirve(n)
      /\ Filas'[n] = Filas[n] /\ Conectada(n)' /\ (PorEnviar(n)' <=> PorEnviar(n))
      /\ Uno(PorEnviar(n))' = Uno(PorEnviar(n)) /\ EnHilo(n)' = 1
      /\ Uno(Retiene(hilo[n].pc)) = 0 /\ Uno(Retiene(hilo[n].pc))' = 1
  BY <1>1, <1>2, <1>3 DEF Actual, Permiso, Envio, Sirve, Filas, EnMano, EnCola, Conectada, PorEnviar, Uno,
     EnHilo, Retiene
<1>6. HiloInv(n)'
  BY <1>1, <1>2, <1>3, <1>5 DEF HiloInv
<1>7. PermisoInv(n)'
  <2>1. Permisos(n)' = 1
    BY <1>1, <1>3, <1>4, <1>5 DEF Permisos
  <2>2. SinM_EXIT(n) => SinM_EXIT(n)'
    <3>1. 1 \in DOMAIN avisos[n] /\ Head(avisos[n]) = avisos[n][1]
      BY <1>1, <1>2, SinPrimero
    <3>2. SinM_EXIT(n) => hilo'[n].codigo # "M_EXIT"
      BY <1>2, <3>1 DEF SinM_EXIT
    <3>3. DOMAIN avisos'[n] = {}
      BY <1>4
    <3>4. QED
      BY <1>2, <3>2, <3>3 DEF SinM_EXIT
  <2>3. QED
    BY <1>1, <2>1, <2>2 DEF Bien, PermisoInv
<1>8. FilaInv(n)'
  <2>1. Uno(PorEnviar(n)) \in 0 .. 1
    BY DEF Uno
  <2>2. Len(Filas'[n]) = Len(pedidos'[n]) + Sirve(n)' + Len(avisos'[n]) + Uno(Retiene(hilo[n].pc))'
                          + Uno(PorEnviar(n))'
    BY <1>1, <1>3, <1>4, <1>5, <2>1 DEF Bien, FilaInv
  <2>3. (PorEnviar(n)' => Last(Filas'[n]) = desalojo'.pid) /\ io'[n].pc # "sirve"
    BY <1>1, <1>3, <1>5 DEF Bien, FilaInv, Sirve, Uno
  <2>4. QED
    BY <1>1, <1>3, <2>2, <2>3 DEF FilaInv
<1>9. QED
  BY <1>6, <1>7, <1>8 DEF Bien

(* The queue has the process that was served when the thread looks at it.  *)
LEMMA ColaConServido ==
  ASSUME TiposInv, NEW n \in Nombres, Bien(n), hilo[n].pc \in {"mira", "saca"}
  PROVE  /\ Filas[n] = cola[n] /\ cola[n] \in Seq(Pids) /\ cola[n] # <<>> /\ hilo[n].pcb = NADA
         /\ EnHilo(n) = 1 /\ Actual(n) = 1
<1>1. /\ EnHilo(n) = 1 /\ Retiene(hilo[n].pc) /\ hilo[n].pc # "ninguno" /\ hilo[n].pcb = NADA
      /\ cola[n] # NADA /\ cola[n] \in Seq(Pids)
  BY DEF EnHilo, Retiene, Uno, TiposInv, HilosInv, TypeOK, TipoInterfaces
<1>2. Actual(n) = 1 /\ pedidos[n] = <<>> /\ avisos[n] = <<>> /\ Sirve(n) = 0
  BY <1>1, UnSoloPermiso
<1>3. Filas[n] = cola[n]
  <2>1. Filas[n] = EnMano(n) \o EnCola(n) /\ EnMano(n) = <<>> /\ EnCola(n) = cola[n]
    BY <1>1 DEF Filas, EnMano, EnCola
  <2>2. <<>> \o cola[n] = cola[n]
    BY <1>1, ConcatEmptySeq
  <2>3. QED
    BY <2>1, <2>2
<1>4. Len(Filas[n]) > 0
  <2>1. /\ Uno(PorEnviar(n)) \in 0 .. 1 /\ Uno(Retiene(hilo[n].pc)) = 1
        /\ Len(pedidos[n]) = 0 /\ Len(avisos[n]) = 0
    BY <1>1, <1>2 DEF Uno
  <2>2. Len(Filas[n]) = Len(pedidos[n]) + Sirve(n) + Len(avisos[n]) + Uno(Retiene(hilo[n].pc)) + Uno(PorEnviar(n))
    BY DEF Bien, FilaInv
  <2>3. QED
    BY <1>2, <2>1, <2>2
<1>5. cola[n] # <<>>
  BY <1>3, <1>4
<1>6. QED
  BY <1>1, <1>2, <1>3, <1>5

(* The thread takes the process from the queue into its hand.              *)
LEMMA HiloMueveBien ==
  ASSUME TiposInv, EnOrden, NEW n \in Nombres, HiloMira(n) \/ HiloSaca(n)
  PROVE  Bien(n)' /\ Filas'[n] = Filas[n] /\ Retiene(hilo[n].pc) /\ Retiene(hilo'[n].pc)
<1>1. /\ hilo[n].pc \in {"mira", "saca"} /\ Bien(n) /\ UNCHANGED <<sems, desalojo, io, pedidos, avisos, desvios>>
  BY DEF HiloMira, HiloSaca, EnOrden, conexiones
<1>2. /\ Filas[n] = cola[n] /\ cola[n] \in Seq(Pids) /\ cola[n] # <<>> /\ hilo[n].pcb = NADA
      /\ EnHilo(n) = 1 /\ Actual(n) = 1
  BY <1>1, ColaConServido
<1>3. /\ hilo'[n].codigo = hilo[n].codigo /\ hilo'[n].pc \in {"saca", Resolver(n)}
      /\ hilo'[n].pc \in {"sale", "ingresa"} => hilo'[n].pcb # NADA
      /\ Filas'[n] = Filas[n]
  <2>1. CASE HiloMira(n)
    <3>1. hilo' = [hilo EXCEPT ![n].pc = "saca"] /\ cola' = cola
      BY <1>2, <2>1 DEF HiloMira, HiloA
    <3>2. hilo'[n] = [hilo[n] EXCEPT !.pc = "saca"]
      BY <3>1 DEF TiposInv, TypeOK, TipoInterfaces
    <3>3. hilo'[n].codigo = hilo[n].codigo /\ hilo'[n].pc = "saca" /\ hilo'[n].pcb = hilo[n].pcb
      BY <3>2 DEF TiposInv, TypeOK, TipoInterfaces
    <3>4. EnMano(n)' = EnMano(n) /\ EnCola(n)' = EnCola(n)
      BY <3>1, <3>3 DEF EnMano, EnCola
    <3>5. Filas'[n] = Filas[n]
      BY <3>4 DEF Filas
    <3>6. QED
      BY <3>3, <3>5
  <2>2. CASE HiloSaca(n)
    <3>1. /\ hilo' = [hilo EXCEPT ![n] = [@ EXCEPT !.pc = Resolver(n), !.pcb = Head(cola[n])]]
          /\ cola' = [cola EXCEPT ![n] = Tail(@)]
      BY <1>2, <2>2 DEF HiloSaca
    <3>2. hilo'[n] = [hilo[n] EXCEPT !.pc = Resolver(n), !.pcb = Head(cola[n])] /\ cola'[n] = Tail(cola[n])
      BY <3>1 DEF TiposInv, TypeOK, TipoInterfaces
    <3>3. hilo'[n].codigo = hilo[n].codigo /\ hilo'[n].pc = Resolver(n) /\ hilo'[n].pcb = Head(cola[n])
      BY <3>2 DEF TiposInv, TypeOK, TipoInterfaces
    <3>4. Head(cola[n]) \in Pids /\ Tail(cola[n]) \in Seq(Pids) /\ Head(cola[n]) # NADA /\ cola'[n] # NADA
      <4>1. PICK c \in Seq(Pids) : c = cola[n] /\ c # <<>>
        BY <1>2
      <4>2. Head(c) \in Pids /\ Tail(c) \in Seq(Pids)
        BY ONLY <4>1, HeadTailProperties
      <4>3. cola'[n] = Tail(c)
        BY <3>2, <4>1
      <4>4. QED
        BY <4>1, <4>2, <4>3, NadaFuera
    <3>5. Filas'[n] = cola[n]
      <4>1. Filas'[n] = EnMano(n)' \o Tail(cola[n])
        BY <3>2, <3>4 DEF Filas, EnCola
      <4>2. EnMano(n)' = IF Head(cola[n]) = NADA THEN <<>> ELSE <<Head(cola[n])>>
        BY <3>3 DEF EnMano
      <4>3. Filas'[n] \in Seq(Pids) /\ Filas'[n] # <<>> /\ Head(Filas'[n]) = Head(cola[n])
            /\ Tail(Filas'[n]) = Tail(cola[n])
        BY <3>4, <4>1, <4>2, ManoFila DEF Pcb
      <4>4. QED
        BY <1>2, <4>3, CabezaYCola
    <3>6. QED
      BY <1>2, <3>3, <3>4, <3>5
  <2>3. QED
    BY <2>1, <2>2
<1>4. /\ Retiene(hilo[n].pc) /\ Retiene(hilo'[n].pc) /\ hilo'[n].pc \in {"saca", "sale", "ingresa"}
      /\ (hilo'[n].pc = "sale" => hilo[n].codigo = "M_EXIT")
  BY <1>1, <1>3 DEF Resolver, Retiene
<1>5. /\ Actual(n)' = Actual(n) /\ Permiso(n)' = Permiso(n) /\ Envio(n)' = Envio(n) /\ Sirve(n)' = Sirve(n)
      /\ (Conectada(n)' <=> Conectada(n)) /\ (PorEnviar(n)' <=> PorEnviar(n)) /\ EnHilo(n)' = EnHilo(n)
      /\ Uno(PorEnviar(n))' = Uno(PorEnviar(n)) /\ Uno(Retiene(hilo[n].pc))' = Uno(Retiene(hilo[n].pc))
  BY <1>1, <1>4 DEF Actual, Permiso, Envio, Sirve, Conectada, PorEnviar, Uno, EnHilo
<1>6. HiloInv(n)'
  BY <1>1, <1>3, <1>4, <1>5 DEF Bien, HiloInv
<1>7. PermisoInv(n)'
  <2>1. Permisos(n)' = Permisos(n)
    BY <1>1, <1>5 DEF Permisos
  <2>2. SinM_EXIT(n) => SinM_EXIT(n)'
    BY <1>1, <1>3, <1>4 DEF SinM_EXIT
  <2>3. QED
    BY <1>1, <1>5, <2>1, <2>2 DEF Bien, PermisoInv
<1>8. FilaInv(n)'
  BY <1>1, <1>3, <1>5 DEF Bien, FilaInv
<1>9. QED
  BY <1>3, <1>4, <1>6, <1>7, <1>8 DEF Bien

(* The process in the hand of the thread is the first of those that wait.  *)
LEMMA ManoConServido ==
  ASSUME TiposInv, NEW n \in Nombres, Bien(n), hilo[n].pc \in {"sale", "ingresa"}
  PROVE  /\ hilo[n].pcb \in Pids /\ hilo[n].pcb # NADA /\ EnHilo(n) = 1
         /\ EnCola(n) \in Seq(Pids) /\ Filas[n] \in Seq(Pids) /\ Filas[n] # <<>>
         /\ Head(Filas[n]) = hilo[n].pcb /\ Tail(Filas[n]) = EnCola(n)
<1>1. hilo[n].pcb # NADA /\ EnHilo(n) = 1
  BY DEF Bien, HiloInv, EnHilo, Retiene, Uno
<1>2. /\ Filas[n] = EnMano(n) \o EnCola(n) /\ EnCola(n) \in Seq(Pids) /\ hilo[n].pcb \in Pcb
      /\ Filas[n] \in Seq(Pids)
  BY NumerosPermiso DEF Numeros
<1>3. EnMano(n) = IF hilo[n].pcb = NADA THEN <<>> ELSE <<hilo[n].pcb>>
  BY DEF EnMano
<1>4. Filas[n] # <<>> /\ Head(Filas[n]) = hilo[n].pcb /\ Tail(Filas[n]) = EnCola(n)
  BY <1>1, <1>2, <1>3, ManoFila
<1>5. QED
  BY <1>1, <1>2, <1>4 DEF Pcb

(* The thread takes it to READY, or to EXIT.                               *)
LEMMA HiloSueltaBien ==
  ASSUME TiposInv, EnOrden, NEW n \in Nombres, HiloSale(n) \/ HiloIngresa(n)
  PROVE  Bien(n)' /\ Filas'[n] = Tail(Filas[n])
<1>1. /\ hilo[n].pc \in {"sale", "ingresa"} /\ Bien(n)
      /\ UNCHANGED <<cola, sems, desalojo, io, pedidos, avisos, desvios>>
  BY DEF HiloSale, HiloIngresa, EnOrden, conexiones
<1>2. /\ hilo[n].pcb \in Pids /\ EnHilo(n) = 1
      /\ EnCola(n) \in Seq(Pids) /\ Filas[n] \in Seq(Pids) /\ Filas[n] # <<>>
      /\ Tail(Filas[n]) = EnCola(n)
  BY <1>1, ManoConServido
<1>3. /\ Actual(n) = 1 /\ Conectada(n) /\ pedidos[n] = <<>> /\ avisos[n] = <<>> /\ Sirve(n) = 0
      /\ Permiso(n) = 0 /\ Envio(n) = 0
  BY <1>1, <1>2, UnSoloPermiso
<1>4. /\ hilo'[n].pcb = NADA /\ hilo'[n].pc \in {"recibe", "avisa"}
      /\ hilo[n].pc = "ingresa" => hilo'[n].pc = "avisa"
  <2>1. PICK pc \in {"recibe", "avisa"} :
          /\ hilo' = [hilo EXCEPT ![n] = [@ EXCEPT !.pc = pc, !.pcb = NADA]]
          /\ hilo[n].pc = "ingresa" => pc = "avisa"
    BY DEF HiloSale, HiloIngresa
  <2>2. hilo'[n] = [hilo[n] EXCEPT !.pc = pc, !.pcb = NADA]
    BY <2>1 DEF TiposInv, TypeOK, TipoInterfaces
  <2>3. hilo'[n].pc = pc /\ hilo'[n].pcb = NADA
    BY <2>2 DEF TiposInv, TypeOK, TipoInterfaces
  <2>4. QED
    BY <2>1, <2>3
<1>5. Filas'[n] = Tail(Filas[n])
  <2>1. EnMano(n)' = <<>> /\ EnCola(n)' = EnCola(n)
    BY <1>1, <1>4 DEF EnMano, EnCola
  <2>2. Filas'[n] = <<>> \o EnCola(n)
    BY <2>1 DEF Filas
  <2>3. <<>> \o EnCola(n) = EnCola(n)
    BY <1>2, ConcatEmptySeq
  <2>4. QED
    BY <1>2, <2>2, <2>3
<1>6. /\ Actual(n)' = Actual(n) /\ Permiso(n)' = 0 /\ Envio(n)' = 0 /\ Sirve(n)' = 0
      /\ (Conectada(n)' <=> Conectada(n)) /\ (PorEnviar(n)' <=> PorEnviar(n))
      /\ Uno(PorEnviar(n))' = Uno(PorEnviar(n)) /\ Uno(Retiene(hilo[n].pc)) = 1
      /\ Uno(Retiene(hilo[n].pc))' = 0
      /\ EnHilo(n)' \in 0 .. 1 /\ (hilo'[n].pc = "avisa" => EnHilo(n)' = 1)
  BY <1>1, <1>3, <1>4 DEF Actual, Permiso, Envio, Sirve, Conectada, PorEnviar, Uno, EnHilo, Retiene
<1>7. Len(pedidos[n]) = 0 /\ Len(avisos[n]) = 0
  BY <1>3
<1>8. HiloInv(n)'
  BY <1>1, <1>3, <1>4, <1>6 DEF Bien, HiloInv
<1>9. PermisoInv(n)'
  <2>1. Permisos(n)' = EnHilo(n)'
    BY <1>1, <1>6, <1>7 DEF Permisos
  <2>2. SinM_EXIT(n) => hilo'[n].pc = "avisa" /\ SinM_EXIT(n)'
    BY <1>1, <1>4 DEF SinM_EXIT, Retiene
  <2>3. QED
    BY <1>1, <1>6, <2>1, <2>2 DEF Bien, PermisoInv
<1>10. FilaInv(n)'
  <2>1. Len(Tail(Filas[n])) = Len(Filas[n]) - 1 /\ (Len(Filas[n]) > 1 => Last(Tail(Filas[n])) = Last(Filas[n]))
    BY <1>2, SinPrimero
  <2>2. Len(Filas[n]) = 1 + Uno(PorEnviar(n)) /\ Uno(PorEnviar(n)) \in 0 .. 1
    <3>1. Len(Filas[n]) = Len(pedidos[n]) + Sirve(n) + Len(avisos[n]) + Uno(Retiene(hilo[n].pc)) + Uno(PorEnviar(n))
      BY <1>1 DEF Bien, FilaInv
    <3>2. Uno(PorEnviar(n)) \in 0 .. 1
      BY DEF Uno
    <3>3. QED
      BY <1>3, <1>6, <1>7, <3>1, <3>2
  <2>3. Len(Filas'[n]) = Uno(PorEnviar(n))
    BY <1>5, <2>1, <2>2
  <2>4. PorEnviar(n) => Last(Filas'[n]) = desalojo.pid
    <3> SUFFICES ASSUME PorEnviar(n) PROVE Last(Filas'[n]) = desalojo.pid
      OBVIOUS
    <3>1. Len(Filas[n]) = 1 + 1
      BY <2>2 DEF Uno
    <3>2. Len(Filas[n]) > 1
      BY <3>1
    <3>3. Last(Filas[n]) = desalojo.pid
      BY <1>1 DEF Bien, FilaInv
    <3>4. QED
      BY <1>5, <2>1, <3>2, <3>3
  <2>5. io[n].pc # "sirve"
    BY <1>3 DEF Sirve, Uno
  <2>6. Len(Filas'[n]) = Len(pedidos'[n]) + Sirve(n)' + Len(avisos'[n]) + Uno(Retiene(hilo[n].pc))'
                           + Uno(PorEnviar(n))'
    BY <1>1, <1>6, <1>7, <2>2, <2>3
  <2>7. QED
    BY <1>1, <1>3, <1>6, <2>4, <2>5, <2>6 DEF FilaInv
<1>11. QED
  BY <1>5, <1>8, <1>9, <1>10 DEF Bien

(* The thread gives the permit back.                                       *)
LEMMA HiloAvisaBien ==
  ASSUME TiposInv, EnOrden, NEW n \in Nombres, HiloAvisa(n)
  PROVE  Bien(n)'
<1>1. /\ UNCHANGED <<planif, cola, desalojo, io, pedidos, avisos, desvios>>
      /\ hilo[n].pc = "avisa" /\ Bien(n) /\ EnHilo(n) = 1
      /\ sems' = [sems EXCEPT ![n][Actual(n)] = 1] /\ hilo' = [hilo EXCEPT ![n].pc = "recibe"]
  BY DEF HiloAvisa, HiloA, EnOrden, conexiones, EnHilo, Uno
<1>2. /\ Actual(n) = 1 /\ Conectada(n) /\ pedidos[n] = <<>> /\ avisos[n] = <<>> /\ Sirve(n) = 0
      /\ Permiso(n) = 0 /\ Envio(n) = 0
  BY <1>1, UnSoloPermiso
<1>3. hilo'[n].pc = "recibe" /\ hilo'[n].pcb = hilo[n].pcb /\ hilo'[n].codigo = hilo[n].codigo
  <2>1. hilo'[n] = [hilo[n] EXCEPT !.pc = "recibe"]
    BY <1>1 DEF TiposInv, TypeOK, TipoInterfaces
  <2>2. QED
    BY <2>1 DEF TiposInv, TypeOK, TipoInterfaces
<1>4. Actual(n)' = 1 /\ Permiso(n)' = 1
  <2>1. sems[n] \in Seq(0 .. 1) /\ 1 \in 1 .. Len(sems[n]) /\ 1 \in 0 .. 1
    BY <1>2, NumerosPermiso DEF Numeros, Actual
  <2>2. sems'[n] = [sems[n] EXCEPT ![1] = 1]
    BY <1>1, <1>2 DEF TiposInv, TypeOK, TipoInterfaces
  <2>3. Len(sems'[n]) = Len(sems[n]) /\ sems'[n][1] = 1
    BY <2>1, <2>2, ExceptSeq
  <2>4. QED
    BY <1>2, <2>3 DEF Actual, Permiso
<1>5. /\ Envio(n)' = 0 /\ Sirve(n)' = 0 /\ EnHilo(n)' = 0
      /\ (Conectada(n)' <=> Conectada(n)) /\ (PorEnviar(n)' <=> PorEnviar(n))
      /\ Uno(PorEnviar(n))' = Uno(PorEnviar(n)) /\ Uno(Retiene(hilo[n].pc)) = 0
      /\ Uno(Retiene(hilo[n].pc))' = 0 /\ ~Retiene(hilo'[n].pc)
  BY <1>1, <1>2, <1>3 DEF Envio, Sirve, Conectada, PorEnviar, Uno, EnHilo, Retiene
<1>6. Filas'[n] = Filas[n] /\ HiloInv(n)'
  <2>1. EnMano(n)' = EnMano(n) /\ EnCola(n)' = EnCola(n)
    BY <1>1, <1>3 DEF EnMano, EnCola
  <2>2. Filas'[n] = Filas[n]
    BY <2>1 DEF Filas
  <2>3. HiloInv(n)'
    BY <1>1, <1>2, <1>3, <1>4, <1>5 DEF Bien, HiloInv
  <2>4. QED
    BY <2>2, <2>3
<1>7. PermisoInv(n)'
  <2>1. Len(pedidos'[n]) = 0 /\ Len(avisos'[n]) = 0 /\ DOMAIN avisos'[n] = {}
    BY <1>1, <1>2
  <2>2. Permisos(n)' = 1
    BY <1>4, <1>5, <2>1 DEF Permisos
  <2>3. SinM_EXIT(n)'
    BY <1>3, <1>5, <2>1 DEF SinM_EXIT
  <2>4. QED
    BY <2>2, <2>3 DEF PermisoInv
<1>8. FilaInv(n)'
  BY <1>1, <1>2, <1>5, <1>6 DEF Bien, FilaInv
<1>9. QED
  BY <1>6, <1>7, <1>8 DEF Bien

LEMMA HiloOrden ==
  ASSUME TiposInv, TiposInv', EnOrden, NEW n \in Nombres, EsperarFinIo(n)
  PROVE  EnOrden'
<1>1. ~HiloCorta(n) /\ ~HiloElimina(n) /\ ~HiloDestruye(n) /\ ~HiloQuita(n)
  BY DEF HiloCorta, HiloElimina, HiloDestruye, HiloQuita, EnOrden, Bien, HiloInv
<1>2. HiloRecibe(n) \/ HiloMira(n) \/ HiloSaca(n) \/ HiloSale(n) \/ HiloIngresa(n) \/ HiloAvisa(n)
  BY <1>1 DEF EsperarFinIo
<1>3. /\ UNCHANGED <<desalojo, finaliza, lista, io, pedidos, desvios>> /\ planif'.retenidas = planif.retenidas
      /\ \A i \in Nombres \ {n} : /\ cola'[i] = cola[i] /\ hilo'[i] = hilo[i] /\ sems'[i] = sems[i]
                                  /\ avisos'[i] = avisos[i]
  BY <1>2, ZenonT(40) DEF HiloRecibe, HiloMira, HiloSaca, HiloSale, HiloIngresa, HiloAvisa, HiloA, conexiones,
     TiposInv, TypeOK, TipoInterfaces, TipoIo, TipoPlanif
<1>4. ASSUME NEW i \in Nombres \ {n}
      PROVE  Bien(i)'
  <2>1. Bien(i)
    BY DEF EnOrden
  <2>2. Envio(i)' = Envio(i) /\ (PorEnviar(i)' <=> PorEnviar(i))
    BY <1>3 DEF Envio, PorEnviar
  <2>3. QED
    BY <1>3, <2>1, <2>2, Ajena
<1>5. Bien(n)'
  BY <1>2, HiloRecibeBien, HiloMueveBien, HiloSueltaBien, HiloAvisaBien
<1>6. PunteroInv'
  BY <1>3 DEF EnOrden, PunteroInv
<1>7. QED
  BY <1>3, <1>4, <1>5, <1>6 DEF EnOrden

-----------------------------------------------------------------------------
LEMMA InitPermisos == Init => PermisosInv
<1> SUFFICES ASSUME Init PROVE EnOrden
  BY DEF PermisosInv
<1>1. finaliza.pc = "listo" /\ ~planif.retenidas /\ desalojo.pc = "recibe"
  BY DEF Init
<1>2. ASSUME NEW i \in Nombres
      PROVE  Bien(i)
  <2>1. /\ hilo[i].pc = "ninguno" /\ hilo[i].pcb = NADA /\ io[i].pc = "ausente" /\ sems[i] = <<>>
        /\ cola[i] = NADA /\ pedidos[i] = <<>> /\ avisos[i] = <<>>
    BY DEF Init
  <2>2. Actual(i) = 0 /\ Sirve(i) = 0 /\ ~PorEnviar(i) /\ ~Retiene(hilo[i].pc)
    BY <1>1, <2>1 DEF Actual, Sirve, PorEnviar, EnEspera, Retiene, Uno
  <2>3. Filas[i] = <<>>
    <3>1. EnMano(i) = <<>> /\ EnCola(i) = <<>>
      BY <2>1 DEF EnMano, EnCola
    <3>2. Filas[i] = <<>> \o <<>>
      BY <3>1 DEF Filas
    <3>3. QED
      BY <3>2
  <2>4. HiloInv(i)
    BY <2>1, <2>2 DEF HiloInv, Conectada
  <2>5. PermisoInv(i)
    BY <2>1, <2>2 DEF PermisoInv, SinM_EXIT
  <2>6. FilaInv(i)
    BY <2>1, <2>2, <2>3 DEF FilaInv, Uno
  <2>7. QED
    BY <2>4, <2>5, <2>6 DEF Bien
<1>3. QED
  BY <1>1, <1>2 DEF EnOrden, PunteroInv, EnEspera

LEMMA NextPermisos == TiposInv /\ TiposInv' /\ PermisosInv /\ [Next]_vars => PermisosInv'
<1> SUFFICES ASSUME TiposInv, TiposInv', PermisosInv, [Next]_vars, desvios' \subseteq {"M_EXIT"}
             PROVE  EnOrden'
  BY DEF PermisosInv
<1>1. CASE UNCHANGED vars
  <2>1. EnOrden
    BY <1>1 DEF PermisosInv, vars
  <2>2. ASSUME NEW i \in Nombres
        PROVE  Bien(i)'
    <3>1. Bien(i)
      BY <2>1 DEF EnOrden
    <3>2. Envio(i)' = Envio(i) /\ (PorEnviar(i)' <=> PorEnviar(i))
      BY <1>1 DEF vars, kernelVars, Envio, PorEnviar
    <3>3. QED
      BY <1>1, <3>1, <3>2, Ajena DEF vars, kernelVars, conexiones
  <2>3. QED
    BY <1>1, <2>1, <2>2 DEF vars, kernelVars, conexiones, EnOrden, PunteroInv
<1>2. CASE Next
  <2>0. \A i \in Nombres : ~ConectarRepetida(i)
    BY RepetidaCorta
  <2>1. desvios \subseteq desvios'
    BY <1>2, <2>0 DEF Next, Despachar, MotivoDesalojo, Pedir, Terminar, DesalojoInvalida, DesalojoSinCola,
       DesalojoEncola, DesalojoToma, DesalojoEspera, DesalojoEnvia, DesalojoFin, FinalizarProceso, Finalizar,
       FinalizarDeReady, FinalizarDeCola, FinalizarSinPcb, FinalizarSale, Conectar, IO, IoToma, IoTermina,
       Averias, IoFalla, IoFallaYTermina, Desconectar, EsperarFinIo, HiloRecibe, HiloMira, HiloSaca, HiloSale,
       HiloIngresa, HiloAvisa, HiloCorta, HiloElimina, HiloDestruye, HiloQuita, Desviar
  <2>2. EnOrden
    BY <2>1 DEF PermisosInv
  <2>3. ~FinalizarProceso
    <3>1. \A p \in Pids : ~Finalizar(p)
      BY DEF Finalizar, Desviar
    <3>2. ~FinalizarDeReady /\ ~FinalizarDeCola /\ ~FinalizarSinPcb /\ ~FinalizarSale
      BY <2>2 DEF EnOrden, FinalizarDeReady, FinalizarDeCola, FinalizarSinPcb, FinalizarSale
    <3>3. QED
      BY <3>1, <3>2 DEF FinalizarProceso
  <2>4. CASE Despachar
    BY <2>2, <2>4, QuietoOrden
  <2>5. CASE MotivoDesalojo
    BY <2>2, <2>5, QuietoOrden, PedirOrden, EncolaOrden, EsperaOrden, EnviaOrden DEF MotivoDesalojo
  <2>6. ASSUME NEW i \in Nombres, Conectar(i) \/ IO(i) \/ Averias(i) \/ EsperarFinIo(i)
        PROVE  EnOrden'
    BY <2>2, <2>6, ConectarOrden, IoOrden, HiloOrden
  <2>7. QED
    BY <1>2, <2>0, <2>3, <2>4, <2>5, <2>6 DEF Next
<1>3. QED
  BY <1>1, <1>2

LEMMA OrdenSiempre == Spec => [](TiposInv /\ PartesInv /\ PermisosInv)
<1>1. Init => TiposInv /\ PartesInv /\ PermisosInv
  BY InitTipos, InitPartes, InitPermisos
<1>2. TiposInv /\ PartesInv /\ PermisosInv /\ [Next]_vars => (TiposInv /\ PartesInv /\ PermisosInv)'
  BY NextTipos, NextPartes, NextPermisos
<1>3. QED
  BY <1>1, <1>2, PTL DEF Spec

(* While nothing has gone wrong, the permit of a connected interface is in *)
(* exactly one place: the eviction thread never sends to a busy interface  *)
(* and one that ends always lets the next one in.                          *)
THEOREM PermisoUnicoSiempre == Spec => []PermisoUnico
<1>1. PermisosInv => PermisoUnico
  <2> SUFFICES ASSUME PermisosInv, desvios = {}, NEW i \in Nombres, Actual(i) > 0
               PROVE  sems[i][Actual(i)]
                        + Uno(desalojo.pc = "envia" /\ desalojo.nombre = i)
                        + Len(pedidos[i]) + Uno(io[i].pc = "sirve") + Len(avisos[i])
                        + Uno(hilo[i].pc = "avisa" \/ Retiene(hilo[i].pc)) = 1
    BY DEF PermisoUnico
  <2>1. Permisos(i) = 1
    BY DEF PermisosInv, EnOrden, Bien, PermisoInv
  <2>2. QED
    BY <2>1 DEF Permisos, Permiso, Envio, Sirve, EnHilo
<1>2. QED
  BY <1>1, OrdenSiempre, PTL

(* What is being served is the first process of the queue.                 *)
LEMMA ServidoPrimero ==
  ASSUME TiposInv, NEW i \in Nombres, Bien(i), NEW p \in Pids,
         p \in ToSet(pedidos[i]) \/ p = io[i].pid
  PROVE  Filas[i] # <<>> /\ p = Head(Filas[i])
<1>1. /\ pedidos[i] \in Seq(Pids) /\ Len(pedidos[i]) \in Nat /\ Len(avisos[i]) \in Nat
      /\ Sirve(i) \in 0 .. 1 /\ Len(Filas[i]) \in Nat
  BY NumerosPermiso DEF Numeros, TiposInv, TypeOK, TipoIo
<1>2. /\ Uno(Retiene(hilo[i].pc)) \in 0 .. 1 /\ Uno(PorEnviar(i)) \in 0 .. 1
  BY DEF Uno
<1>3. Len(Filas[i]) = Len(pedidos[i]) + Sirve(i) + Len(avisos[i]) + Uno(Retiene(hilo[i].pc)) + Uno(PorEnviar(i))
  BY DEF Bien, FilaInv
<1>4. Len(pedidos[i]) > 0 \/ Sirve(i) = 1 => Len(Filas[i]) > 0
  BY <1>1, <1>2, <1>3
<1>5. CASE p \in ToSet(pedidos[i])
  <2>1. PICK k \in DOMAIN pedidos[i] : p = pedidos[i][k]
    BY <1>5 DEF ToSet
  <2>2. DOMAIN pedidos[i] = 1 .. Len(pedidos[i])
    BY <1>1, LenProperties
  <2>3. pedidos[i] # <<>> /\ Len(pedidos[i]) > 0
    BY <1>1, <2>1, <2>2
  <2>4. Len(pedidos[i]) = 1
    <3>1. hilo[i].pc # "ninguno"
      BY <2>3 DEF Bien, HiloInv
    <3>2. QED
      BY <2>3, <3>1, UnSoloPermiso
  <2>5. p = Head(pedidos[i])
    <3>1. Head(pedidos[i]) = pedidos[i][1]
      BY <1>1, <2>3, SinPrimero
    <3>2. QED
      BY <2>1, <2>2, <2>4, <3>1
  <2>6. QED
    BY <1>4, <2>3, <2>5 DEF Bien, FilaInv
<1>6. CASE p = io[i].pid
  <2>1. io[i].pc = "sirve"
    BY <1>6, NadaFuera DEF TiposInv, HilosInv
  <2>2. Sirve(i) = 1
    BY <2>1 DEF Sirve, Uno
  <2>3. p = Head(Filas[i])
    BY <1>6, <2>1 DEF Bien, FilaInv
  <2>4. Filas[i] # <<>>
    BY <1>4, <2>2
  <2>5. QED
    BY <2>3, <2>4
<1>7. QED
  BY <1>5, <1>6

(* The interfaces may fail: the process whose request is on its way or     *)
(* being served is still blocked, and the CPU does not have it.            *)
THEOREM VuelveServidoSiempre == Spec => []VuelveServido
<1>1. TiposInv /\ PartesInv /\ PermisosInv => VuelveServido
  <2> SUFFICES ASSUME TiposInv, PartesInv, EnOrden,
                      NEW p \in EnVuelo \cap (ToSet(planif.ready) \cup {planif.cpu}), p # NADA
               PROVE  FALSE
    BY DEF PermisosInv, VuelveServido
  <2>1. planif.ready \in Seq(Pids) /\ planif.cpu \in Pcb
    BY DEF TiposInv, TypeOK, TipoPlanif
  <2>2. p \in Pids
    BY <2>1, ElementoTipo DEF Pcb
  <2>3. PICK i \in Nombres : p \in ToSet(pedidos[i]) \/ p = io[i].pid
    BY DEF EnVuelo
  <2>4. Filas[i] # <<>> /\ p = Head(Filas[i])
    <3>1. Bien(i)
      BY DEF EnOrden
    <3>2. QED
      BY <2>2, <2>3, <3>1, ServidoPrimero
  <2>5. VecesFila(p, i) > 0
    <3>1. Filas[i] \in Seq(Pids)
      BY NumerosPermiso DEF Numeros
    <3>2. p \in ToSet(Filas[i])
      BY <2>4, <3>1, ElementoTipo
    <3>3. QED
      BY <2>2, <3>2, FilasVeces
  <2>6. Fuera(p) = 0
    <3>1. Fuera(p) \in Nat /\ ~(Fuera(p) > 0)
      BY <2>2, <2>5, NumerosNat DEF PartesInv, Separados
    <3>2. QED
      BY <3>1
  <2>7. Veces(p, planif.ready) = 0 /\ planif.cpu # p
    <3>1. Veces(p, planif.ready) \in Nat
      BY <2>2, NumerosNat
    <3>2. /\ Uno(planif.cpu = p) \in 0 .. 1
          /\ Uno(desalojo.pid = p /\ desalojo.pc \in {"invalida", "encola"} /\ p \notin salidos) \in 0 .. 1
          /\ Uno(finaliza.pid = p /\ finaliza.pc = "sale") \in 0 .. 1
      BY DEF Uno
    <3>3. Veces(p, planif.ready) = 0 /\ Uno(planif.cpu = p) = 0
      BY <2>6, <3>1, <3>2 DEF Fuera
    <3>4. QED
      BY <3>3 DEF Uno
  <2>8. p \notin ToSet(planif.ready)
    BY <2>1, <2>2, <2>7, VecesNat
  <2>9. QED
    BY <2>7, <2>8
<1>2. QED
  BY <1>1, OrdenSiempre, PTL

-----------------------------------------------------------------------------
(* The turn of an interface by its phase.                                  *)
Fase(i) ==
  IF pedidos[i] # <<>> \/ io[i].pc = "sirve" THEN "atendido"
  ELSE IF avisos[i] # <<>> \/ Retiene(hilo[i].pc) THEN "hecho" ELSE "nadie"

TurnosPorFase == \A i \in Nombres :
  /\ TurnoDe(i) = [pid |-> IF Fase(i) = "nadie" THEN NADA ELSE Head(Filas[i]), fase |-> Fase(i)]
  /\ Fase(i) # "nadie" => Filas[i] # <<>>
  /\ Filas[i] \in Seq(Pids)

LEMMA TurnoFase == TiposInv /\ EnOrden => TurnosPorFase
<1> SUFFICES ASSUME TiposInv, EnOrden, NEW i \in Nombres
             PROVE  /\ TurnoDe(i) = [pid |-> IF Fase(i) = "nadie" THEN NADA ELSE Head(Filas[i]), fase |-> Fase(i)]
                    /\ Fase(i) # "nadie" => Filas[i] # <<>>
                    /\ Filas[i] \in Seq(Pids)
  BY DEF TurnosPorFase
<1>1. Bien(i)
  BY DEF EnOrden
<1>2. /\ pedidos[i] \in Seq(Pids) /\ avisos[i] \in Seq(Codigos) /\ Len(pedidos[i]) \in Nat
      /\ Len(avisos[i]) \in Nat /\ Sirve(i) \in 0 .. 1 /\ Filas[i] \in Seq(Pids)
  BY NumerosPermiso DEF Numeros, TiposInv, TypeOK, TipoIo
<1>3. Fase(i) # "nadie" => Filas[i] # <<>>
  <2>1. /\ Uno(Retiene(hilo[i].pc)) \in 0 .. 1 /\ Uno(PorEnviar(i)) \in 0 .. 1
        /\ (Retiene(hilo[i].pc) => Uno(Retiene(hilo[i].pc)) = 1)
        /\ (io[i].pc = "sirve" => Sirve(i) = 1)
    BY DEF Uno, Sirve
  <2>2. (pedidos[i] # <<>> => Len(pedidos[i]) > 0) /\ (avisos[i] # <<>> => Len(avisos[i]) > 0)
    BY <1>2, EmptySeq
  <2>3. Len(Filas[i]) = Len(pedidos[i]) + Sirve(i) + Len(avisos[i]) + Uno(Retiene(hilo[i].pc)) + Uno(PorEnviar(i))
    BY <1>1 DEF Bien, FilaInv
  <2>4. Len(pedidos[i]) > 0 \/ Len(avisos[i]) > 0 \/ Sirve(i) = 1 \/ Uno(Retiene(hilo[i].pc)) = 1
         => Len(Filas[i]) > 0
    BY <1>2, <2>1, <2>3
  <2>5. Fase(i) # "nadie" => Len(Filas[i]) > 0
    BY <2>1, <2>2, <2>4 DEF Fase
  <2>6. QED
    BY <2>5
<1>4. /\ pedidos[i] # <<>> => Head(pedidos[i]) = Head(Filas[i])
      /\ io[i].pc = "sirve" => io[i].pid = Head(Filas[i])
  BY <1>1 DEF Bien, FilaInv
<1>5. pedidos[i] # <<>> \/ io[i].pc = "sirve" => avisos[i] = <<>> /\ ~Retiene(hilo[i].pc)
  <2>1. pedidos[i] # <<>> \/ io[i].pc = "sirve" => hilo[i].pc # "ninguno"
    BY <1>1 DEF Bien, HiloInv, Conectada
  <2>2. io[i].pc = "sirve" => Sirve(i) = 1
    BY DEF Sirve, Uno
  <2>3. EnHilo(i) = 0 => ~Retiene(hilo[i].pc)
    BY DEF EnHilo, Uno
  <2>4. QED
    BY <1>1, <2>1, <2>2, <2>3, UnSoloPermiso
<1>6. pedidos[i] # <<>> => io[i].pc # "sirve"
  <2>1. pedidos[i] # <<>> => hilo[i].pc # "ninguno"
    BY <1>1 DEF Bien, HiloInv
  <2>2. Sirve(i) = 0 => io[i].pc # "sirve"
    BY DEF Sirve, Uno
  <2>3. QED
    BY <1>1, <2>1, <2>2, UnSoloPermiso
<1>7. TurnoDe(i) = [pid |-> IF Fase(i) = "nadie" THEN NADA ELSE Head(Filas[i]), fase |-> Fase(i)]
  <2>1. CASE pedidos[i] # <<>>
    <3>1. Fase(i) = "atendido" /\ io[i].pc # "sirve" /\ avisos[i] = <<>> /\ ~Retiene(hilo[i].pc)
      BY <1>5, <1>6, <2>1 DEF Fase
    <3>2. QED
      BY <1>4, <2>1, <3>1 DEF TurnoDe
  <2>2. CASE io[i].pc = "sirve"
    <3>1. Fase(i) = "atendido" /\ pedidos[i] = <<>> /\ avisos[i] = <<>> /\ ~Retiene(hilo[i].pc)
      BY <1>5, <1>6, <2>2 DEF Fase
    <3>2. QED
      BY <1>4, <2>2, <3>1 DEF TurnoDe
  <2>3. CASE pedidos[i] = <<>> /\ io[i].pc # "sirve" /\ (avisos[i] # <<>> \/ Retiene(hilo[i].pc))
    <3>1. Fase(i) = "hecho"
      BY <2>3 DEF Fase
    <3>2. QED
      BY <2>3, <3>1 DEF TurnoDe
  <2>4. CASE pedidos[i] = <<>> /\ io[i].pc # "sirve" /\ avisos[i] = <<>> /\ ~Retiene(hilo[i].pc)
    <3>1. Fase(i) = "nadie"
      BY <2>4 DEF Fase
    <3>2. QED
      BY <2>4, <3>1 DEF TurnoDe
  <2>5. QED
    BY <2>1, <2>2, <2>3, <2>4
<1>8. QED
  BY <1>2, <1>3, <1>7

LEMMA TurnoFasePrima == TiposInv' /\ EnOrden' => TurnosPorFase'
BY TurnoFase, PTL

(* An interface whose turn and queue a step leaves alone.                  *)
Quieta(i) == Filas'[i] = Filas[i] /\ Fase(i)' = Fase(i)

LEMMA AjenaQuieta ==
  ASSUME NEW i \in Nombres,
         cola'[i] = cola[i], hilo'[i].pc = hilo[i].pc, hilo'[i].pcb = hilo[i].pcb,
         io'[i].pc = io[i].pc, pedidos'[i] = pedidos[i], avisos'[i] = avisos[i]
  PROVE  Quieta(i)
<1>1. EnMano(i)' = EnMano(i) /\ EnCola(i)' = EnCola(i)
  BY DEF EnMano, EnCola
<1>2. Filas'[i] = Filas[i]
  BY <1>1 DEF Filas
<1>3. QED
  BY <1>2 DEF Quieta, Fase

TurnosDe == [i \in Nombres |-> TurnoDe(i)]

(* What a step does to the queues and the turns, when it does it to n.     *)
LEMMA Cambio ==
  ASSUME TurnosPorFase, TurnosPorFase', NEW n \in Nombres, \A i \in Nombres \ {n} : Quieta(i)
  PROVE  /\ Filas' = [Filas EXCEPT ![n] = Filas'[n]]
         /\ TurnosDe' = [TurnosDe EXCEPT ![n] = TurnoDe(n)']
         /\ Filas'[n] = Filas[n] => Filas' = Filas
         /\ TurnoDe(n)' = TurnoDe(n) => TurnosDe' = TurnosDe
<1>1. \A i \in Nombres \ {n} : Filas'[i] = Filas[i] /\ TurnoDe(i)' = TurnoDe(i)
  BY DEF Quieta, TurnosPorFase
<1>2. Filas = [i \in Nombres |-> Filas[i]] /\ Filas' = [i \in Nombres |-> Filas'[i]]
  BY DEF Filas
<1>3. TurnosDe = [i \in Nombres |-> TurnoDe(i)] /\ TurnosDe' = [i \in Nombres |-> TurnoDe(i)']
  BY DEF TurnosDe
<1>4. QED
  BY <1>1, <1>2, <1>3

LEMMA NadaCambia ==
  ASSUME TurnosPorFase, TurnosPorFase', \A i \in Nombres : Quieta(i)
  PROVE  UNCHANGED Promesa!turnos
<1>1. \A i \in Nombres : Filas'[i] = Filas[i] /\ TurnoDe(i)' = TurnoDe(i)
  BY DEF Quieta, TurnosPorFase
<1>2. Filas = [i \in Nombres |-> Filas[i]] /\ Filas' = [i \in Nombres |-> Filas'[i]]
  BY DEF Filas
<1>3. Filas' = Filas
  BY <1>1, <1>2
<1>4. [i \in Nombres |-> TurnoDe(i)]' = [i \in Nombres |-> TurnoDe(i)]
  BY <1>1
<1>5. QED
  BY <1>3, <1>4 DEF Promesa!turnos

(* A process that is queued waits nowhere yet.                             *)
LEMMA EncolaLlega ==
  ASSUME TiposInv, PartesInv, TurnosPorFase, TurnosPorFase', DesalojoEncola
  PROVE  Promesa!Next
<1> PICK n : n = desalojo.nombre
  OBVIOUS
<1> PICK p : p = desalojo.pid
  OBVIOUS
<1>1. /\ UNCHANGED <<hilo, io, pedidos, avisos>> /\ kernel = "activo"
      /\ desalojo.pc = "encola" /\ n \in Nombres /\ cola[n] # NADA
      /\ cola' = [cola EXCEPT ![n] = Append(@, p)]
  BY DEF DesalojoEncola, Encolada, ColaDe, conexiones, Vivo
<1>2. p \in Pids
  BY <1>1 DEF TiposInv, DesalojoInv, Atendiendo
<1>3. \A i \in Nombres \ {n} : Quieta(i)
  <2>1. \A i \in Nombres \ {n} : cola'[i] = cola[i]
    BY <1>1 DEF TiposInv, TypeOK, TipoInterfaces
  <2>2. QED
    BY <1>1, <2>1, AjenaQuieta
<1>4. Filas'[n] = Append(Filas[n], p)
  <2>1. cola[n] \in Seq(Pids) /\ hilo[n].pcb \in Pcb /\ cola'[n] = Append(cola[n], p)
    BY <1>1 DEF TiposInv, TypeOK, TipoInterfaces
  <2>2. Append(cola[n], p) # NADA
    BY <1>2, <2>1, AppendProperties, NadaFuera
  <2>3. EnMano(n)' = EnMano(n) /\ EnCola(n) = cola[n] /\ EnCola(n)' = Append(cola[n], p)
    BY <1>1, <2>1, <2>2 DEF EnMano, EnCola
  <2>4. Filas[n] = EnMano(n) \o cola[n] /\ Filas'[n] = EnMano(n) \o Append(cola[n], p)
    BY <1>1, <2>3 DEF Filas
  <2>5. \A e \in Pids : EnMano(n) \o Append(cola[n], e) = Append(EnMano(n) \o cola[n], e)
    BY <2>1, ManoFila DEF EnMano
  <2>6. QED
    BY <1>2, <2>4, <2>5
<1>5. TurnoDe(n)' = TurnoDe(n)
  <2>1. Fase(n)' = Fase(n)
    BY <1>1 DEF Fase
  <2>2. Fase(n) # "nadie" => Head(Filas'[n]) = Head(Filas[n])
    BY <1>1, <1>2, <1>4, AlFinal DEF TurnosPorFase
  <2>3. QED
    BY <1>1, <2>1, <2>2 DEF TurnosPorFase
<1>6. ~Promesa!Espera(p)
  <2> SUFFICES ASSUME NEW i \in Nombres, NEW k \in DOMAIN Filas[i], Filas[i][k] = p PROVE FALSE
    BY DEF Promesa!Espera
  <2>1. p \in ToSet(Filas[i])
    BY DEF ToSet
  <2>2. VecesFila(p, i) > 0
    BY <1>2, <2>1, FilasVeces
  <2>3. p \notin salidos
    BY <1>1, <1>2 DEF PartesInv, Liberado
  <2>4. Fuera(p) > 0
    <3>1. Uno(desalojo.pid = p /\ desalojo.pc \in {"invalida", "encola"} /\ p \notin salidos) = 1
      BY <1>1, <2>3 DEF Uno
    <3>2. Veces(p, planif.ready) \in Nat /\ Uno(planif.cpu = p) \in Nat /\ Uno(finaliza.pid = p /\ finaliza.pc = "sale") \in Nat
      BY <1>2, NumerosNat DEF Uno
    <3>3. QED
      BY <3>1, <3>2 DEF Fuera
  <2>5. QED
    BY <1>2, <2>2, <2>4 DEF PartesInv, Separados
<1>7. Filas' = [Filas EXCEPT ![n] = Append(@, p)] /\ TurnosDe' = TurnosDe
  <2>1. Filas' = [Filas EXCEPT ![n] = Filas'[n]] /\ TurnosDe' = TurnosDe
    BY <1>1, <1>3, <1>5, Cambio
  <2>2. QED
    BY <1>4, <2>1
<1>8. Promesa!Llegar(n, p)
  BY <1>6, <1>7 DEF Promesa!Llegar, TurnosDe
<1>9. QED
  BY <1>1, <1>2, <1>8 DEF Promesa!Next

LEMMA EnviaAtiende ==
  ASSUME TiposInv, EnOrden, TurnosPorFase, TurnosPorFase', DesalojoEnvia
  PROVE  Promesa!Next
<1> PICK n : n = desalojo.nombre
  OBVIOUS
<1>1. n \in Nombres /\ desalojo.pc = "envia"
  BY DEF DesalojoEnvia, TiposInv, DesalojoInv, EnEspera
<1>2. UNCHANGED <<cola, hilo, io, avisos>> /\ pedidos' = [pedidos EXCEPT ![n] = <<desalojo.pid>>]
  BY <1>1, EnviaPaso
<1>3. \A i \in Nombres \ {n} : Quieta(i)
  <2>1. \A i \in Nombres \ {n} : pedidos'[i] = pedidos[i]
    BY <1>2 DEF TiposInv, TypeOK, TipoIo
  <2>2. QED
    BY <1>2, <2>1, AjenaQuieta
<1>4. Fase(n) = "nadie" /\ Fase(n)' = "atendido" /\ Filas[n] # <<>> /\ Filas'[n] = Filas[n]
  <2>1. /\ pedidos[n] = <<>> /\ io[n].pc # "sirve" /\ avisos[n] = <<>> /\ ~Retiene(hilo[n].pc)
        /\ Len(Filas[n]) = 1
    BY <1>1, EnviaLibre
  <2>2. pedidos'[n] # <<>>
    BY <1>1, <1>2 DEF TiposInv, TypeOK, TipoIo
  <2>3. EnMano(n)' = EnMano(n) /\ EnCola(n)' = EnCola(n)
    BY <1>2 DEF EnMano, EnCola
  <2>4. Filas'[n] = Filas[n]
    BY <1>1, <2>3 DEF Filas
  <2>5. Fase(n) = "nadie" /\ Fase(n)' = "atendido"
    BY <2>1, <2>2 DEF Fase
  <2>6. Filas[n] # <<>>
    <3>1. Len(Filas[n]) = 1 /\ Len(<<>>) = 0
      BY <2>1, EmptySeq
    <3>2. QED
      BY <3>1
  <2>7. QED
    BY <2>4, <2>5, <2>6
<1>5. /\ TurnoDe(n) = [pid |-> NADA, fase |-> "nadie"]
      /\ TurnoDe(n)' = [pid |-> Head(Filas[n]), fase |-> "atendido"]
  BY <1>1, <1>4 DEF TurnosPorFase
<1>6. Filas' = Filas /\ TurnosDe' = [TurnosDe EXCEPT ![n] = [pid |-> Head(Filas[n]), fase |-> "atendido"]]
      /\ TurnosDe[n] = [pid |-> NADA, fase |-> "nadie"]
  <2>1. Filas' = Filas /\ TurnosDe' = [TurnosDe EXCEPT ![n] = TurnoDe(n)']
    BY <1>1, <1>3, <1>4, Cambio
  <2>2. QED
    BY <1>1, <1>5, <2>1 DEF TurnosDe
<1>7. Promesa!Atender(n)
  BY <1>4, <1>6 DEF Promesa!Atender, Promesa!Libre, TurnosDe
<1>8. QED
  BY <1>1, <1>7 DEF Promesa!Next

LEMMA IoTerminaTermina ==
  ASSUME TiposInv, EnOrden, TurnosPorFase, TurnosPorFase', NEW n \in Nombres, IoTermina(n)
  PROVE  Promesa!Next
<1>1. /\ UNCHANGED <<cola, hilo, pedidos>> /\ io[n].pc = "sirve"
      /\ \A i \in Nombres \ {n} : io'[i] = io[i] /\ avisos'[i] = avisos[i]
      /\ io'[n].pc = "espera" /\ avisos'[n] = Append(avisos[n], TIPO[n])
  BY DEF IoTermina, IoContesta, kernelVars, TiposInv, TypeOK, TipoIo
<1>2. \A i \in Nombres \ {n} : Quieta(i)
  BY <1>1, AjenaQuieta
<1>3. Fase(n) = "atendido" /\ Fase(n)' = "hecho" /\ Filas'[n] = Filas[n]
  <2>1. Bien(n) /\ Sirve(n) = 1 /\ hilo[n].pc # "ninguno"
    BY <1>1 DEF EnOrden, Sirve, Uno, Bien, HiloInv, Conectada
  <2>2. pedidos[n] = <<>>
    BY <2>1, UnSoloPermiso
  <2>3. avisos'[n] # <<>>
    <3>1. avisos[n] \in Seq(Codigos) /\ TIPO[n] \in Codigos
      BY ConstantesAssumption DEF TiposInv, TypeOK, TipoIo, Codigos
    <3>2. QED
      BY <1>1, <3>1, AlFinal
  <2>4. EnMano(n)' = EnMano(n) /\ EnCola(n)' = EnCola(n)
    BY <1>1 DEF EnMano, EnCola
  <2>5. Filas'[n] = Filas[n]
    BY <2>4 DEF Filas
  <2>6. QED
    BY <1>1, <2>2, <2>3, <2>5 DEF Fase
<1>4. TurnoDe(n) = [pid |-> Head(Filas[n]), fase |-> "atendido"] /\ TurnoDe(n)' = [TurnoDe(n) EXCEPT !.fase = "hecho"]
  BY <1>3 DEF TurnosPorFase
<1>5. Filas' = Filas /\ TurnosDe' = [TurnosDe EXCEPT ![n].fase = "hecho"] /\ TurnosDe[n].fase = "atendido"
  <2>1. Filas' = Filas /\ TurnosDe' = [TurnosDe EXCEPT ![n] = TurnoDe(n)']
    BY <1>2, <1>3, Cambio
  <2>2. TurnosDe[n] = TurnoDe(n)
    BY DEF TurnosDe
  <2>3. TurnosDe' = [TurnosDe EXCEPT ![n] = [TurnosDe[n] EXCEPT !.fase = "hecho"]]
    BY <1>4, <2>1, <2>2
  <2>4. QED
    BY <1>4, <2>1, <2>2, <2>3
<1>6. Promesa!Terminar(n)
  BY <1>5 DEF Promesa!Terminar, TurnosDe
<1>7. QED
  BY <1>6 DEF Promesa!Next

LEMMA HiloIngresaVuelve ==
  ASSUME TiposInv, EnOrden, TurnosPorFase, TurnosPorFase', NEW n \in Nombres, HiloIngresa(n)
  PROVE  Promesa!Next
<1>1. /\ UNCHANGED <<cola, io, pedidos, avisos>> /\ hilo[n].pc = "ingresa"
      /\ \A i \in Nombres \ {n} : hilo'[i] = hilo[i]
      /\ hilo'[n].pc = "avisa"
  <2>1. hilo'[n] = [hilo[n] EXCEPT !.pc = "avisa", !.pcb = NADA]
    BY DEF HiloIngresa, TiposInv, TypeOK, TipoInterfaces
  <2>2. hilo'[n].pc = "avisa"
    BY <2>1 DEF TiposInv, TypeOK, TipoInterfaces
  <2>3. QED
    BY <2>2 DEF HiloIngresa, conexiones, TiposInv, TypeOK, TipoInterfaces
<1>2. \A i \in Nombres \ {n} : Quieta(i)
  BY <1>1, AjenaQuieta
<1>3. Filas'[n] = Tail(Filas[n])
  BY HiloSueltaBien
<1>4. Fase(n) = "hecho" /\ Fase(n)' = "nadie"
  <2>1. Bien(n) /\ EnHilo(n) = 1 /\ Retiene(hilo[n].pc) /\ ~Retiene(hilo'[n].pc)
    BY <1>1 DEF EnOrden, EnHilo, Retiene, Uno
  <2>2. pedidos[n] = <<>> /\ avisos[n] = <<>> /\ Sirve(n) = 0
    BY <1>1, <2>1, UnSoloPermiso
  <2>3. QED
    BY <1>1, <2>1, <2>2 DEF Fase, Sirve, Uno
<1>5. TurnoDe(n).fase = "hecho" /\ TurnoDe(n)' = [pid |-> NADA, fase |-> "nadie"]
  BY <1>4 DEF TurnosPorFase
<1>6. /\ Filas' = [Filas EXCEPT ![n] = Tail(@)] /\ TurnosDe[n].fase = "hecho"
      /\ TurnosDe' = [TurnosDe EXCEPT ![n] = [pid |-> NADA, fase |-> "nadie"]]
  <2>1. Filas' = [Filas EXCEPT ![n] = Filas'[n]] /\ TurnosDe' = [TurnosDe EXCEPT ![n] = TurnoDe(n)']
    BY <1>2, Cambio
  <2>2. QED
    BY <1>3, <1>5, <2>1 DEF TurnosDe
<1>7. Promesa!Volver(n)
  BY <1>6 DEF Promesa!Volver, Promesa!Libre, TurnosDe
<1>8. QED
  BY <1>7 DEF Promesa!Next

(* A step of the interfaces that leaves the promise as it is.              *)
LEMMA PasoSinTurno ==
  ASSUME TiposInv, EnOrden, TurnosPorFase, TurnosPorFase',
         \/ Despachar \/ Terminar \/ DesalojoInvalida \/ DesalojoSinCola \/ DesalojoToma
         \/ DesalojoEspera \/ DesalojoFin
         \/ \E q \in Pedidos : Pedir(q[1], q[2])
  PROVE  UNCHANGED Promesa!turnos
<1>1. UNCHANGED <<cola, hilo, io, pedidos, avisos>>
  BY DEF Despachar, Terminar, DesalojoInvalida, DesalojoSinCola, DesalojoToma, DesalojoEspera, DesalojoFin,
     Pedir, conexiones
<1>2. \A i \in Nombres : Quieta(i)
  BY <1>1, AjenaQuieta
<1>3. QED
  BY <1>2, NadaCambia

LEMMA InterfazSinTurno ==
  ASSUME TiposInv, EnOrden, TurnosPorFase, TurnosPorFase', NEW n \in Nombres,
         \/ Conectar(n) \/ IoToma(n) \/ HiloRecibe(n) \/ HiloMira(n) \/ HiloSaca(n) \/ HiloAvisa(n)
  PROVE  UNCHANGED Promesa!turnos
<1>1. \A i \in Nombres \ {n} :
        /\ cola'[i] = cola[i] /\ hilo'[i] = hilo[i] /\ io'[i] = io[i]
        /\ pedidos'[i] = pedidos[i] /\ avisos'[i] = avisos[i]
  BY DEF Conectar, IoToma, HiloRecibe, HiloMira, HiloSaca, HiloAvisa, HiloA, kernelVars, conexiones,
     TiposInv, TypeOK, TipoInterfaces, TipoIo
<1>2. \A i \in Nombres \ {n} : Quieta(i)
  BY <1>1, AjenaQuieta
<1> HIDE <1>1
<1>3. Bien(n)
  BY DEF EnOrden
<1>4. Quieta(n)
  <2>1. CASE Conectar(n)
    <3>1. Actual(n) = 0 /\ hilo[n].pcb = NADA /\ hilo[n].pc = "ninguno" /\ cola[n] = NADA
      BY <1>3, <2>1 DEF Conectar, Bien, HiloInv, TiposInv, HilosInv
    <3>2. /\ cola'[n] = <<>> /\ pedidos'[n] = <<>> /\ avisos'[n] = avisos[n] /\ io'[n].pc = "espera"
          /\ hilo'[n].pc = "recibe" /\ hilo'[n].pcb = NADA
      BY <2>1, <3>1 DEF Conectar, TiposInv, TypeOK, TipoInterfaces, TipoIo
    <3>3. EnMano(n) = <<>> /\ EnCola(n) = <<>> /\ EnMano(n)' = <<>> /\ EnCola(n)' = <<>>
      BY <3>1, <3>2, NadaFuera DEF EnMano, EnCola
    <3>4. Filas'[n] = Filas[n]
      BY <3>3 DEF Filas
    <3>5. pedidos[n] = <<>> /\ avisos[n] = <<>> /\ io[n].pc = "ausente"
      BY <1>3, <2>1, <3>1 DEF Bien, HiloInv, Conectar, Conectada
    <3>6. Fase(n) = "nadie" /\ Fase(n)' = "nadie"
      BY <3>1, <3>2, <3>5 DEF Fase, Retiene
    <3>7. QED
      BY <3>4, <3>6 DEF Quieta
  <2>2. CASE IoToma(n)
    <3>1. /\ UNCHANGED <<cola, hilo>> /\ pedidos[n] # <<>> /\ io'[n].pc = "sirve"
      BY <2>2 DEF IoToma, kernelVars, TiposInv, TypeOK, TipoIo
    <3>2. EnMano(n)' = EnMano(n) /\ EnCola(n)' = EnCola(n)
      BY <3>1 DEF EnMano, EnCola
    <3>3. Filas'[n] = Filas[n]
      BY <3>2 DEF Filas
    <3>4. QED
      BY <3>1, <3>3 DEF Quieta, Fase
  <2>3. CASE HiloRecibe(n)
    <3>1. /\ UNCHANGED <<cola, io, pedidos>> /\ hilo[n].pc = "recibe" /\ avisos[n] # <<>>
          /\ hilo'[n] = [hilo[n] EXCEPT !.pc = "mira", !.codigo = Head(avisos[n]), !.pcb = NADA]
      BY <2>3 DEF HiloRecibe, TiposInv, TypeOK, TipoInterfaces
    <3>2. hilo'[n].pc = "mira" /\ hilo'[n].pcb = hilo[n].pcb
      <4>1. hilo[n].pcb = NADA
        BY <3>1 DEF TiposInv, HilosInv
      <4>2. hilo'[n].pc = "mira" /\ hilo'[n].pcb = NADA
        BY <3>1 DEF TiposInv, TypeOK, TipoInterfaces
      <4>3. QED
        BY <4>1, <4>2
    <3>3. EnMano(n)' = EnMano(n) /\ EnCola(n)' = EnCola(n)
      BY <3>1, <3>2 DEF EnMano, EnCola
    <3>4. Filas'[n] = Filas[n]
      BY <3>3 DEF Filas
    <3>5. Fase(n)' = Fase(n)
      BY <3>1, <3>2 DEF Fase, Retiene
    <3>6. QED
      BY <3>4, <3>5 DEF Quieta
  <2>4. CASE HiloMira(n) \/ HiloSaca(n)
    <3>1. Filas'[n] = Filas[n] /\ Retiene(hilo[n].pc) /\ Retiene(hilo'[n].pc)
      BY <2>4, HiloMueveBien
    <3>2. UNCHANGED <<io, pedidos, avisos>>
      BY <2>4 DEF HiloMira, HiloSaca, conexiones
    <3>3. QED
      BY <3>1, <3>2 DEF Quieta, Fase
  <2>5. CASE HiloAvisa(n)
    <3>1. UNCHANGED <<cola, io, pedidos, avisos>> /\ hilo' = [hilo EXCEPT ![n].pc = "recibe"] /\ hilo[n].pc = "avisa"
      BY <2>5 DEF HiloAvisa, HiloA, conexiones
    <3>2. hilo'[n] = [hilo[n] EXCEPT !.pc = "recibe"]
      BY <3>1 DEF TiposInv, TypeOK, TipoInterfaces
    <3>3. hilo'[n].pc = "recibe" /\ hilo'[n].pcb = hilo[n].pcb
      BY <3>2 DEF TiposInv, TypeOK, TipoInterfaces
    <3>4. EnMano(n)' = EnMano(n) /\ EnCola(n)' = EnCola(n)
      BY <3>1, <3>3 DEF EnMano, EnCola
    <3>5. Filas'[n] = Filas[n]
      BY <3>4 DEF Filas
    <3>6. QED
      BY <3>1, <3>3, <3>5 DEF Quieta, Fase, Retiene
  <2>6. QED
    BY <2>1, <2>2, <2>3, <2>4, <2>5
<1>5. QED
  BY <1>2, <1>4, NadaCambia

LEMMA PasoPromesa ==
  ASSUME TiposInv, TiposInv', PartesInv, PermisosInv, PermisosInv', Next, desvios' = {}
  PROVE  Promesa!Next \/ UNCHANGED Promesa!turnos
<1>0. \A n \in Nombres : ~ConectarRepetida(n)
  BY RepetidaCorta
<1>1. desvios = {}
  BY <1>0 DEF Next, Despachar, MotivoDesalojo, Pedir, Terminar, DesalojoInvalida, DesalojoSinCola,
     DesalojoEncola, DesalojoToma, DesalojoEspera, DesalojoEnvia, DesalojoFin, FinalizarProceso, Finalizar,
     FinalizarDeReady, FinalizarDeCola, FinalizarSinPcb, FinalizarSale, Conectar, IO, IoToma, IoTermina,
     Averias, IoFalla, IoFallaYTermina, Desconectar, EsperarFinIo, HiloRecibe, HiloMira, HiloSaca, HiloSale,
     HiloIngresa, HiloAvisa, HiloCorta, HiloElimina, HiloDestruye, HiloQuita, Desviar
<1>2. EnOrden /\ EnOrden'
  BY <1>1 DEF PermisosInv
<1>3. TurnosPorFase /\ TurnosPorFase'
  BY <1>2, TurnoFase, TurnoFasePrima
<1>4. ~FinalizarProceso
  <2>1. \A p \in Pids : ~Finalizar(p)
    BY DEF Finalizar, Desviar
  <2>2. ~FinalizarDeReady /\ ~FinalizarDeCola /\ ~FinalizarSinPcb /\ ~FinalizarSale
    BY <1>2 DEF EnOrden, FinalizarDeReady, FinalizarDeCola, FinalizarSinPcb, FinalizarSale
  <2>3. QED
    BY <2>1, <2>2 DEF FinalizarProceso
<1>5. CASE Despachar \/ MotivoDesalojo
  BY <1>2, <1>3, <1>5, PasoSinTurno, EncolaLlega, EnviaAtiende DEF MotivoDesalojo
<1>6. ASSUME NEW n \in Nombres, Conectar(n) \/ IO(n) \/ Averias(n) \/ EsperarFinIo(n)
      PROVE  Promesa!Next \/ UNCHANGED Promesa!turnos
  <2>1. ~Averias(n)
    BY DEF Averias, IoFalla, IoFallaYTermina, Desconectar, Desviar
  <2>2. Bien(n) /\ SinM_EXIT(n)
    BY <1>1, <1>2 DEF EnOrden, Bien, PermisoInv
  <2>3. ~HiloCorta(n) /\ ~HiloElimina(n) /\ ~HiloDestruye(n) /\ ~HiloQuita(n) /\ ~HiloSale(n)
    BY <2>2 DEF HiloCorta, HiloElimina, HiloDestruye, HiloQuita, HiloSale, Bien, HiloInv, SinM_EXIT
  <2>4. \/ Conectar(n) \/ IoToma(n) \/ HiloRecibe(n) \/ HiloMira(n) \/ HiloSaca(n) \/ HiloAvisa(n)
        \/ IoTermina(n) \/ HiloIngresa(n)
    BY <1>6, <2>1, <2>3 DEF IO, EsperarFinIo
  <2>5. QED
    BY <1>2, <1>3, <2>4, InterfazSinTurno, IoTerminaTermina, HiloIngresaVuelve
<1>7. QED
  BY <1>0, <1>4, <1>5, <1>6 DEF Next

(* The interfaces implement Turnos: while nothing has gone wrong, a step   *)
(* of the kernel or of an IO program queues a process that waits nowhere,  *)
(* starts to serve the first one, ends it, takes it out, or is no step of  *)
(* the promise.                                                            *)
THEOREM CumplenTurnos == Spec => TurnosCumplidos
<1>1. Init => Promesa!Init
  <2> SUFFICES ASSUME Init PROVE Promesa!Init
    OBVIOUS
  <2>1. TiposInv /\ EnOrden
    BY InitTipos, InitPermisos DEF PermisosInv, Init
  <2>2. TurnosPorFase
    BY <2>1, TurnoFase
  <2>3. ASSUME NEW i \in Nombres
        PROVE  Filas[i] = <<>> /\ TurnoDe(i) = [pid |-> NADA, fase |-> "nadie"]
    <3>1. /\ hilo[i].pc = "ninguno" /\ hilo[i].pcb = NADA /\ io[i].pc = "ausente"
          /\ cola[i] = NADA /\ pedidos[i] = <<>> /\ avisos[i] = <<>>
      BY DEF Init
    <3>2. Fase(i) = "nadie"
      BY <3>1 DEF Fase, Retiene
    <3>3. EnMano(i) = <<>> /\ EnCola(i) = <<>>
      BY <3>1 DEF EnMano, EnCola
    <3>4. Filas[i] = <<>>
      BY <3>3 DEF Filas
    <3>5. QED
      BY <2>2, <3>2, <3>4 DEF TurnosPorFase
  <2>4. Filas = [i \in Nombres |-> Filas[i]]
    BY DEF Filas
  <2>5. QED
    BY <2>3, <2>4 DEF Promesa!Init, Promesa!Libre
<1>2. TiposInv /\ TiposInv' /\ PartesInv /\ PermisosInv /\ PermisosInv' /\ [Next]_vars
      => [desvios' = {} => Promesa!Next \/ UNCHANGED Promesa!turnos]_<<Promesa!turnos, desvios>>
  <2> SUFFICES ASSUME TiposInv, TiposInv', PartesInv, PermisosInv, PermisosInv', [Next]_vars, desvios' = {}
               PROVE  Promesa!Next \/ UNCHANGED Promesa!turnos
    OBVIOUS
  <2>1. CASE Next
    BY <2>1, PasoPromesa
  <2>2. CASE UNCHANGED vars
    <3>1. UNCHANGED <<Filas, [i \in Nombres |-> TurnoDe(i)]>>
      BY <2>2 DEF vars, kernelVars, conexiones, Filas, EnMano, EnCola, TurnoDe
    <3>2. QED
      BY <3>1 DEF Promesa!turnos
  <2>3. QED
    BY <2>1, <2>2
<1>3. QED
  BY <1>1, <1>2, OrdenSiempre, PTL DEF Spec, TurnosCumplidos
=============================================================================
