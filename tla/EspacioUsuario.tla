---------------------------- MODULE EspacioUsuario ----------------------------
(***************************************************************************)
(* The memory a process sees: the instructions of the CPU that use memory, *)
(* the translation of their addresses (MMU and TLB), the IO programs that  *)
(* read or write with the physical addresses the CPU left them, and the    *)
(* page tables and the user space of MEMORIA.                              *)
(*                                                                         *)
(* A step is one request to MEMORIA.  Between two of them MEMORIA may      *)
(* serve the KERNEL or an IO program; how it keeps its frames is in Memoria.*)
(* A physical address is marco * TAM_PAGINA + desplazamiento, as in the    *)
(* code; numbers of page and of frame count from 0.                        *)
(***************************************************************************)
EXTENDS Integers, SequencesExt

CONSTANTS
  Pids,
  CANT_FRAMES, TAM_PAGINA,
  CANTIDAD_ENTRADAS_TLB,
  ALGORITMO_TLB,        \* "FIFO" or "LRU"
  Bytes,                \* what a byte may hold: 0 ends a text
  TEXTO_ERROR,          \* the bytes of the text "ERROR"
  Operaciones,          \* which of the ones below the programs use
  Direcciones,          \* logical addresses they use
  Tamanios,             \* sizes, in bytes: the registers' and the strings'
                        \* (0, which a register may hold, is left out)
  MAX_PAGS,             \* bound: the largest RESIZE, in pages
  MAX_INSTRUCCIONES,    \* bound: instructions that use memory
  NADIE

(* IO_READ and IO_WRITE are what IO asks MEMORIA for: IO_STDOUT_WRITE and  *)
(* IO_FS_WRITE read, IO_STDIN_READ and IO_FS_READ write.                   *)
DeEs    == {"IO_READ", "IO_WRITE"}
DeLeer  == {"MOV_IN", "COPY_STRING"}
DeCpu   == DeLeer \cup {"MOV_OUT"}

Marcos   == 0 .. CANT_FRAMES - 1
Entradas == 0 .. CANTIDAD_ENTRADAS_TLB - 1
Espacio  == 0 .. CANT_FRAMES * TAM_PAGINA - 1       \* TAM_MEMORIA bytes

ASSUME ConstantesAssumption ==
  /\ CANT_FRAMES \in Nat /\ TAM_PAGINA \in Nat \ {0}
  /\ CANTIDAD_ENTRADAS_TLB \in Nat
  /\ ALGORITMO_TLB \in {"FIFO", "LRU"}
  /\ Bytes \subseteq Nat /\ 0 \in Bytes
  /\ TEXTO_ERROR \in Seq(Nat \ {0})
  /\ Operaciones \subseteq DeCpu \cup DeEs
  /\ Direcciones \subseteq Nat /\ Tamanios \subseteq Nat \ {0}
  /\ MAX_PAGS \in Nat /\ MAX_INSTRUCCIONES \in Nat
  /\ NADIE \notin Pids

VARIABLES
  tabla,            \* [Pids -> Seq(Marcos)]: t_proceso.pageTable
  user_space,
  tlb, posicion, contador_global,
  cpu,              \* the instruction being executed
  es,               \* [Pids -> the access an IO program does for it, or NADIE]
  estado,           \* [Pids -> whether it may execute, has been told to leave,
                    \* or MEMORIA has eliminated it]
  caida,            \* the CPU has ended
  restan,           \* instructions that may still be executed
  achicados,        \* auxiliary: who has made its memory smaller
  historia          \* auxiliary: what the TLB has been given, oldest first,
                    \* and with LRU what it has been asked for

memoria == <<tabla, user_space>>
cacheVars == <<tlb, posicion, contador_global, historia>>
vars == <<memoria, cacheVars, cpu, es, estado, caida, restan, achicados>>

(* An access: what is asked, the addresses list_dfs has found, and what    *)
(* leer_memoria or escribir_memoria has done of it.                        *)
Acceso(op, dir, tam, destino) ==
  [op |-> op, dir |-> dir, tam |-> tam, destino |-> destino,
   dfs |-> <<>>, k |-> 0, hecho |-> 0, dato |-> <<>>]

Ninguno == Acceso("ninguna", 0, 0, 0)

Libre == [pc |-> "libre", pid |-> NADIE, pags |-> 0, acc |-> Ninguno]

Vacia == [pid |-> NADIE, pag |-> 0, marco |-> 0, last_used |-> 0]

Init ==
  /\ tabla = [p \in Pids |-> <<>>]
  /\ user_space \in [Espacio -> Bytes]
  /\ tlb = [i \in Entradas |-> Vacia] /\ posicion = 0 /\ contador_global = 0
  /\ cpu = Libre /\ es = [p \in Pids |-> NADIE]
  /\ estado = [p \in Pids |-> "vive"]
  /\ caida = FALSE
  /\ restan = MAX_INSTRUCCIONES
  /\ achicados = {} /\ historia = <<>>

-----------------------------------------------------------------------------
(* Page tables, in MEMORIA.                                                *)

MarcosLibres == Marcos \ UNION {ToSet(tabla[p]) : p \in Pids}

EsPrimeroLibre(f) == f \in MarcosLibres /\ \A g \in MarcosLibres : f <= g

(* The process leaves the CPU; with "sale", KERNEL has its PCB as EXIT.    *)
Dejar(como) ==
  /\ cpu' = Libre
  /\ estado' = [estado EXCEPT ![cpu.pid] = como]

Resize(p, n) ==
  /\ cpu.pc = "libre" /\ estado[p] = "vive" /\ es[p] = NADIE
  /\ restan > 0 /\ restan' = restan - 1
  /\ IF n < Len(tabla[p])
     THEN /\ tabla' = [tabla EXCEPT ![p] = SubSeq(@, 1, n)]
          /\ achicados' = achicados \cup {p}
          /\ UNCHANGED cpu
     ELSE /\ cpu' = [Libre EXCEPT !.pc = "amplia", !.pid = p, !.pags = n]
          /\ UNCHANGED <<tabla, achicados>>
  /\ UNCHANGED <<user_space, cacheVars, es, estado, caida>>

AgregarPagina_M ==                      \* the frame may have an owner
  /\ cpu.pc = "amplia" /\ Len(tabla[cpu.pid]) < cpu.pags
  /\ \E f \in Marcos : tabla' = [tabla EXCEPT ![cpu.pid] = Append(@, f)]
  /\ UNCHANGED <<user_space, cacheVars, cpu, es, estado, caida, restan, achicados>>

AgregarPagina ==
  /\ cpu.pc = "amplia" /\ Len(tabla[cpu.pid]) < cpu.pags
  /\ \E f \in Marcos :
       /\ EsPrimeroLibre(f)
       /\ tabla' = [tabla EXCEPT ![cpu.pid] = Append(@, f)]
  /\ UNCHANGED <<user_space, cacheVars, cpu, es, estado, caida, restan, achicados>>

(* Without frames the answer is Out of Memory and the CPU sends M_OOM.     *)
FinResize ==
  /\ cpu.pc = "amplia" /\ (Len(tabla[cpu.pid]) >= cpu.pags \/ MarcosLibres = {})
  /\ Dejar(IF Len(tabla[cpu.pid]) < cpu.pags THEN "sale" ELSE "vive")
  /\ UNCHANGED <<memoria, cacheVars, es, caida, restan, achicados>>

(* KERNEL ends a process that is not in the CPU; an IO program may be      *)
(* serving it, when it is FINALIZAR_PROCESO that asks for it.              *)
Eliminar(p) ==
  /\ cpu.pid # p /\ estado[p] # "eliminado"
  /\ estado' = [estado EXCEPT ![p] = "eliminado"]
  /\ tabla' = [tabla EXCEPT ![p] = <<>>]
  /\ UNCHANGED <<user_space, cacheVars, cpu, es, caida, restan, achicados>>

-----------------------------------------------------------------------------
(* The TLB.                                                                *)

Es_M(e, p, n) == e.pag = n /\ e.pid # NADIE       \* whoever's page n

Es(e, p, n) == e.pid = p /\ e.pag = n

Halladas(p, n) == {i \in Entradas : Es(tlb[i], p, n)}

BuscarTlb_M(i) ==                       \* a hit is not a use
  UNCHANGED <<tlb, posicion, contador_global>>

(* buscar_tlb: the entry found has just been used.                         *)
BuscarTlb(i) ==
  IF ALGORITMO_TLB = "LRU"
  THEN /\ tlb' = [tlb EXCEPT ![i].last_used = contador_global]
       /\ contador_global' = contador_global + 1
       /\ UNCHANGED posicion
  ELSE UNCHANGED <<tlb, posicion, contador_global>>

(* reemplazar_pag_lru looks at the entries from 1 on: the first that is    *)
(* empty or, if none is, the one used longest ago; 0 has no empty test,    *)
(* but as long as it is empty nothing is older.                            *)
Vacias == {i \in Entradas : i > 0 /\ tlb[i].pid = NADIE}

EsLru(v) ==
  IF Vacias # {}
  THEN v \in Vacias /\ \A i \in Vacias : v <= i
  ELSE \A i \in Entradas : \/ tlb[v].last_used < tlb[i].last_used
                           \/ tlb[v].last_used = tlb[i].last_used /\ v <= i

Nueva(p, n, f) == [pid |-> p, pag |-> n, marco |-> f,
                   last_used |-> IF ALGORITMO_TLB = "LRU" THEN contador_global ELSE 0]

ActualizarTlb_M(p, n, f) ==             \* the turn does not come back to 0
  /\ tlb' = [tlb EXCEPT ![posicion] = Nueva(p, n, f)]
  /\ posicion' = posicion + 1
  /\ UNCHANGED contador_global

ActualizarTlb(p, n, f) ==
  IF CANTIDAD_ENTRADAS_TLB = 0
  THEN UNCHANGED <<tlb, posicion, contador_global>>
  ELSE \E v \in Entradas :
         /\ tlb' = [tlb EXCEPT ![v] = Nueva(p, n, f)]
         /\ IF ALGORITMO_TLB = "LRU"
            THEN /\ EsLru(v)
                 /\ contador_global' = contador_global + 1
                 /\ UNCHANGED posicion
            ELSE /\ v = posicion
                 /\ posicion' = (posicion + 1) % CANTIDAD_ENTRADAS_TLB
                 /\ UNCHANGED contador_global

(* Auxiliary: the page asked for is the newest; what is not in the TLB any *)
(* more is forgotten.                                                      *)
Recordar(p, n) ==
  historia' = SelectSeq(Append(SelectSeq(historia, LAMBDA x : x # <<p, n>>), <<p, n>>),
                        LAMBDA x : \E i \in Entradas : Es(tlb'[i], x[1], x[2]))

-----------------------------------------------------------------------------
(* list_dfs and traducir_direccion.                                        *)

Ejecutar(p, op, dir, tam, destino) ==
  /\ cpu.pc = "libre" /\ estado[p] = "vive" /\ es[p] = NADIE
  /\ restan > 0 /\ restan' = restan - 1
  /\ cpu' = [Libre EXCEPT !.pc = "traduce", !.pid = p,
                          !.acc = Acceso(op, dir, tam, destino)]
  /\ UNCHANGED <<memoria, cacheVars, es, estado, caida, achicados>>

Desplazamiento(a) == a.dir % TAM_PAGINA

CantPags(a) == (a.tam + Desplazamiento(a) + TAM_PAGINA - 1) \div TAM_PAGINA

Pagina(a) == a.dir \div TAM_PAGINA + Len(a.dfs)

Fisica(a, f) == f * TAM_PAGINA + IF a.dfs = <<>> THEN Desplazamiento(a) ELSE 0

(* With the last address the CPU goes on to MEMORIA or, for an IO          *)
(* instruction, leaves the list to KERNEL and the process blocks.          *)
Traducida(f) ==
  LET a == [cpu.acc EXCEPT !.dfs = Append(@, Fisica(cpu.acc, f))]
  IN  IF Len(a.dfs) < CantPags(a)
      THEN cpu' = [cpu EXCEPT !.acc = a] /\ UNCHANGED es
      ELSE IF a.op \in DeEs
      THEN cpu' = Libre /\ es' = [es EXCEPT ![cpu.pid] = a]
      ELSE /\ cpu' = [cpu EXCEPT !.acc = a,
                        !.pc = IF a.op \in DeLeer THEN "lee" ELSE "escribe"]
           /\ UNCHANGED es

TlbHit ==
  /\ cpu.pc = "traduce"
  /\ \E i \in Halladas(cpu.pid, Pagina(cpu.acc)) :
       /\ \A j \in Halladas(cpu.pid, Pagina(cpu.acc)) : i <= j
       /\ Traducida(tlb[i].marco)
       /\ BuscarTlb(i)
  /\ IF ALGORITMO_TLB = "LRU" THEN Recordar(cpu.pid, Pagina(cpu.acc)) ELSE UNCHANGED historia
  /\ UNCHANGED <<memoria, estado, caida, restan, achicados>>

TlbMiss_M ==                            \* the page next to it
  /\ cpu.pc = "traduce" /\ Halladas(cpu.pid, Pagina(cpu.acc)) = {}
  /\ Pagina(cpu.acc) < Len(tabla[cpu.pid])
  /\ Traducida(tabla[cpu.pid][Pagina(cpu.acc) + 1])
  /\ ActualizarTlb(cpu.pid, Pagina(cpu.acc) + 1, tabla[cpu.pid][Pagina(cpu.acc) + 1])
  /\ Recordar(cpu.pid, Pagina(cpu.acc) + 1)
  /\ UNCHANGED <<memoria, estado, caida, restan, achicados>>

TlbMiss ==
  /\ cpu.pc = "traduce" /\ Halladas(cpu.pid, Pagina(cpu.acc)) = {}
  /\ Pagina(cpu.acc) < Len(tabla[cpu.pid])
  /\ Traducida(tabla[cpu.pid][Pagina(cpu.acc) + 1])
  /\ ActualizarTlb(cpu.pid, Pagina(cpu.acc), tabla[cpu.pid][Pagina(cpu.acc) + 1])
  /\ Recordar(cpu.pid, Pagina(cpu.acc))
  /\ UNCHANGED <<memoria, estado, caida, restan, achicados>>

(* What follows an error: MOV_IN and MOV_OUT end the process.  COPY_STRING *)
(* does too, but frees its arguments a second time; the others take the    *)
(* size of the list they did not get.                                      *)
Fallar ==
  IF cpu.acc.op \in {"MOV_IN", "MOV_OUT"}
  THEN Dejar("sale") /\ UNCHANGED caida
  ELSE Dejar("vive") /\ caida' = TRUE

(* The page is not in the table: MEMORIA answers UINT32_MAX.               *)
SinPagina ==
  /\ cpu.pc = "traduce" /\ Halladas(cpu.pid, Pagina(cpu.acc)) = {}
  /\ Pagina(cpu.acc) >= Len(tabla[cpu.pid])
  /\ Fallar
  /\ UNCHANGED <<memoria, cacheVars, es, restan, achicados>>

-----------------------------------------------------------------------------
(* leer_memoria and escribir_memoria: a page at a time.                    *)

Menor(x, y) == IF x < y THEN x ELSE y

Trozo_M(a) == Menor(a.tam - a.hecho, TAM_PAGINA)     \* the first page is not cut

Trozo(a) == IF a.k = 0 THEN Menor(a.tam, TAM_PAGINA - Desplazamiento(a))
            ELSE Menor(a.tam - a.hecho, TAM_PAGINA)

Leido(a) == [i \in 1 .. Trozo(a) |-> user_space[a.dfs[a.k + 1] + i - 1]]

AntesDelCero(s, i) == \A j \in 1 .. i - 1 : s[j] # 0

Texto(s) == SelectSeq([i \in DOMAIN s |-> IF AntesDelCero(s, i) THEN s[i] ELSE 0],
                      LAMBDA b : b # 0)

(* enviar_mensaje sends the bytes as a text, up to the first 0: the ones   *)
(* after it are copied from past the end of the buffer that was received.  *)
Recibidos(s) == {r \in [DOMAIN s -> Bytes] :
                   \A i \in DOMAIN s : AntesDelCero(s, i) => r[i] = s[i]}

Avanzado(a, r) == [a EXCEPT !.k = @ + 1, !.hecho = @ + Trozo(a), !.dato = @ \o r]

Ultima(a) == a.k + 1 = Len(a.dfs)

(* MOV_IN drops what it has read.  COPY_STRING keeps it and then needs the *)
(* addresses of its destination.                                           *)
Leer ==
  /\ cpu.pc = "lee" /\ Texto(Leido(cpu.acc)) # TEXTO_ERROR
  /\ \E r \in Recibidos(Leido(cpu.acc)) :
       cpu' = IF ~Ultima(cpu.acc)
              THEN [cpu EXCEPT !.acc = Avanzado(cpu.acc, IF cpu.acc.op = "MOV_IN" THEN <<>> ELSE r)]
              ELSE IF cpu.acc.op = "MOV_IN" THEN Libre
              ELSE [cpu EXCEPT !.pc = "traduce",
                      !.acc = [Acceso("PEGAR", cpu.acc.destino, cpu.acc.tam, 0)
                                 EXCEPT !.dato = cpu.acc.dato \o r]]
  /\ UNCHANGED <<memoria, cacheVars, es, estado, caida, restan, achicados>>

(* The text "ERROR" is how MEMORIA reports an error.                       *)
LeerError ==
  /\ cpu.pc = "lee" /\ Texto(Leido(cpu.acc)) = TEXTO_ERROR
  /\ Fallar
  /\ UNCHANGED <<memoria, cacheVars, es, restan, achicados>>

(* What is written is what was copied, or anything: a register, what the   *)
(* user types, what a file has.                                            *)
Datos(a) == IF a.op = "PEGAR"
            THEN {SubSeq(a.dato, a.hecho + 1, a.hecho + Trozo(a))}
            ELSE [1 .. Trozo(a) -> Bytes]

Escrito(a, d) ==
  [x \in Espacio |-> IF x - a.dfs[a.k + 1] \in 0 .. Trozo(a) - 1
                     THEN d[x - a.dfs[a.k + 1] + 1] ELSE user_space[x]]

Escribir ==
  /\ cpu.pc = "escribe"
  /\ \E d \in Datos(cpu.acc) : user_space' = Escrito(cpu.acc, d)
  /\ cpu' = IF Ultima(cpu.acc) THEN Libre
            ELSE [cpu EXCEPT !.acc = Avanzado(cpu.acc, <<>>)]
  /\ UNCHANGED <<tabla, cacheVars, es, estado, caida, restan, achicados>>

Seguir(p) == es' = [es EXCEPT ![p] = IF Ultima(es[p]) THEN NADIE
                                     ELSE Avanzado(es[p], <<>>)]

(* The IO programs, with the addresses KERNEL passed on.  After an error   *)
(* they answer M_EXIT, or end, and the process does not execute again.     *)
EsLee(p) ==
  /\ es[p] # NADIE /\ es[p].op = "IO_READ"
  /\ IF Texto(Leido(es[p])) = TEXTO_ERROR
     THEN /\ es' = [es EXCEPT ![p] = NADIE]
          /\ estado' = [estado EXCEPT ![p] = IF @ = "vive" THEN "sale" ELSE @]
     ELSE Seguir(p) /\ UNCHANGED estado
  /\ UNCHANGED <<memoria, cacheVars, cpu, caida, restan, achicados>>

EsEscribe(p) ==
  /\ es[p] # NADIE /\ es[p].op = "IO_WRITE"
  /\ \E d \in Datos(es[p]) : user_space' = Escrito(es[p], d)
  /\ Seguir(p)
  /\ UNCHANGED <<tabla, cacheVars, cpu, estado, caida, restan, achicados>>

-----------------------------------------------------------------------------
Instruccion(p) ==
  \/ \E n \in 0 .. MAX_PAGS : Resize(p, n)
  \/ \E op \in Operaciones, dir \in Direcciones, tam \in Tamanios :
       \E destino \in IF op = "COPY_STRING" THEN Direcciones ELSE {0} :
         Ejecutar(p, op, dir, tam, destino)

(* Nothing is followed beyond the end of the CPU.                          *)
Next ==
  /\ ~caida
  /\ \/ \E p \in Pids : Instruccion(p) \/ Eliminar(p) \/ EsLee(p) \/ EsEscribe(p)
     \/ AgregarPagina \/ FinResize
     \/ TlbHit \/ TlbMiss \/ SinPagina
     \/ Leer \/ LeerError \/ Escribir

Spec == Init /\ [][Next]_vars
=============================================================================
