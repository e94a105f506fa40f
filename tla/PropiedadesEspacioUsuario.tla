---------------------- MODULE PropiedadesEspacioUsuario ----------------------
(***************************************************************************)
(* What the memory of a process should be: its own, whichever way it is    *)
(* reached.  The promises are kept for the processes that have never made  *)
(* their memory smaller: the TLB is not told of a RESIZE.                  *)
(***************************************************************************)
EXTENDS EspacioUsuario

Accesos ==
  [op : Operaciones \cup {"ninguna", "PEGAR"}, dir : Nat, tam : Nat, destino : Nat,
   dfs : Seq(Nat), k : Nat, hecho : Int, dato : Seq(Bytes)]

TipoTraduccion ==
  /\ tabla \in [Pids -> Seq(Marcos)]
  /\ tlb \in [Entradas -> [pid : Pids \cup {NADIE}, pag : Nat, marco : Nat, last_used : Nat]]
  /\ posicion \in Entradas \cup {0} /\ contador_global \in Nat
  /\ cpu \in [pc : {"libre", "amplia", "traduce", "lee", "escribe"},
              pid : Pids \cup {NADIE}, pags : Nat, acc : Accesos]
  /\ cpu.pid = NADIE <=> cpu.pc = "libre"
  /\ es \in [Pids -> {NADIE} \cup Accesos]
  /\ estado \in [Pids -> {"vive", "sale", "eliminado"}]
  /\ caida \in BOOLEAN /\ restan \in Nat
  /\ achicados \subseteq Pids

(* Every variable holds values of its kind.                                *)
TypeOK == TipoTraduccion /\ user_space \in [Espacio -> Bytes]

Fiables == {p \in Pids \ achicados : estado[p] # "eliminado"}

(* What the TLB says of a process is what its page table says: a hit in    *)
(* buscar_tlb answers as OBTENER_MARCO would have.                         *)
TlbCoherente ==
  \A i \in Entradas : tlb[i].pid \in Fiables =>
    /\ tlb[i].pag < Len(tabla[tlb[i].pid])
    /\ tlb[i].marco = tabla[tlb[i].pid][tlb[i].pag + 1]

(* The addresses of an access are the ones of the pages it is about,       *)
(* however long ago list_dfs found them: until the last byte is read or    *)
(* written, by the CPU or by an IO program that was given the list.        *)
Vigente(p, a) ==
  \A k \in DOMAIN a.dfs :
    /\ a.dir \div TAM_PAGINA + k <= Len(tabla[p])
    /\ a.dfs[k] = tabla[p][a.dir \div TAM_PAGINA + k] * TAM_PAGINA
                    + IF k = 1 THEN Desplazamiento(a) ELSE 0

DireccionesVigentes ==
  \A p \in Fiables : /\ cpu.pid = p => Vigente(p, cpu.acc)
                     /\ es[p] # NADIE => Vigente(p, es[p])

(* What is read or written next lies in one frame, even with an address    *)
(* that has gone stale: acceso_usuario looks only at the first byte.  An   *)
(* access of no bytes is not modelled (Tamanios).                          *)
EnMemoria(a) ==
  LET df == a.dfs[a.k + 1]
  IN  /\ {df, df + Trozo(a) - 1} \subseteq Espacio
      /\ df \div TAM_PAGINA = (df + Trozo(a) - 1) \div TAM_PAGINA
      /\ Ultima(a) <=> a.hecho + Trozo(a) = a.tam

EnUnMarco ==
  /\ cpu.pc \in {"lee", "escribe"} => EnMemoria(cpu.acc)
  /\ \A p \in Pids : es[p] # NADIE => EnMemoria(es[p])

-----------------------------------------------------------------------------
EnCurso(p) == <<IF cpu.pid = p THEN cpu ELSE Libre, es[p]>>

Contenido(p, g) == [x \in 0 .. TAM_PAGINA - 1 |->
                      user_space[tabla[p][g] * TAM_PAGINA + x]]

(* The bytes of a page change only because its process writes them, with   *)
(* MOV_OUT, with COPY_STRING or through an IO program; or because one that *)
(* has made its memory smaller, or has been eliminated during its IO, does.*)
EscribeLoSuyo ==
  [][\A p \in Pids : \A g \in DOMAIN tabla[p] \cap DOMAIN tabla'[p] :
       Contenido(p, g)' # Contenido(p, g) =>
         \E q \in {p} \cup (Pids \ Fiables) : EnCurso(q)' # EnCurso(q)]_vars

EnTlb == {<<tlb[i].pid, tlb[i].pag>> : i \in {j \in Entradas : tlb[j].pid # NADIE}}

(* A page leaves the TLB only when it is full, and it is the one that has  *)
(* not been used for longest (LRU; with FIFO, which no run checks, the one *)
(* that got in first).                                                     *)
VictimaMasVieja ==
  [][\A x \in EnTlb \ EnTlb' :
       Len(historia) = CANTIDAD_ENTRADAS_TLB /\ x = historia[1]]_vars

-----------------------------------------------------------------------------
(* Statements of the repository that its code does not keep.               *)

(* traduccion.c:29, memoria_real.c:170: a page that the process does not   *)
(* have is an error, and gets no address.                                  *)
PaginaInexistenteFalla ==
  [][cpu.pc = "traduce" /\ Pagina(cpu.acc) >= Len(tabla[cpu.pid]) /\ cpu' # cpu
       => cpu' = Libre /\ es' = es]_vars

(* memoria.c:30, instrucciones.c:286: what is received is the data read    *)
(* from memory, and what is copied is the data read.                       *)
LecturaFiel ==
  [][cpu.pc = "lee" /\ cpu.acc.op = "COPY_STRING" /\ cpu'.pid = cpu.pid
       => cpu'.acc.dato = cpu.acc.dato \o Leido(cpu.acc)]_vars

(* instrucciones.c:402-404, ciclo_instrucciones.c:492: an instruction that *)
(* fails ends its process, and the CPU goes on.                            *)
CpuSigue == ~caida
=============================================================================
