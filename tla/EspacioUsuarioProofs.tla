------------------------- MODULE EspacioUsuarioProofs -------------------------
(***************************************************************************)
(* Proofs, for any memory, TLB and programs, that what the TLB and the     *)
(* lists of physical addresses say of a process is what its page table     *)
(* says, until it makes its memory smaller or is eliminated; that each     *)
(* read or write stays in one frame; and that nobody else's pages change.  *)
(***************************************************************************)
EXTENDS PropiedadesEspacioUsuario, TLAPS

TablaTipo == tabla \in [Pids -> Seq(Marcos)]

TlbTipo ==
  /\ tlb \in [Entradas -> [pid : Pids \cup {NADIE}, pag : Nat, marco : Nat, last_used : Nat]]
  /\ contador_global \in Nat

CpuTipo ==
  /\ cpu \in [pc : {"libre", "amplia", "traduce", "lee", "escribe"},
              pid : Pids \cup {NADIE}, pags : Nat, acc : Accesos]
  /\ cpu.pid = NADIE <=> cpu.pc = "libre"

EsTipo == es \in [Pids -> {NADIE} \cup Accesos]

(* A process is not eliminated while it is in the CPU.                     *)
EstadoTipo ==
  /\ estado \in [Pids -> {"vive", "sale", "eliminado"}]
  /\ achicados \subseteq Pids
  /\ \A p \in Pids : cpu.pid = p => estado[p] # "eliminado"

EspacioInv == /\ TablaTipo /\ TlbTipo /\ CpuTipo /\ EsTipo /\ EstadoTipo
              /\ TlbCoherente /\ DireccionesVigentes

-----------------------------------------------------------------------------
(* Numbers.                                                                *)

LEMMA PaginaNat ==
  ASSUME NEW a \in Accesos
  PROVE  /\ a.dir \div TAM_PAGINA \in Nat /\ Pagina(a) \in Nat
         /\ Pagina(a) = a.dir \div TAM_PAGINA + Len(a.dfs)
         /\ Desplazamiento(a) \in Nat
<1> TAM_PAGINA \in Nat \ {0} /\ a.dir \in Nat
  BY ConstantesAssumption DEF Accesos
<1>1. a.dir \div TAM_PAGINA \in Nat /\ a.dir % TAM_PAGINA \in Nat
  OBVIOUS
<1>2. Len(a.dfs) \in Nat
  BY DEF Accesos
<1> QED
  BY <1>1, <1>2 DEF Pagina, Desplazamiento

LEMMA FisicaNat ==
  ASSUME NEW a \in Accesos, NEW f \in Nat
  PROVE  Fisica(a, f) \in Nat
<1>1. f * TAM_PAGINA \in Nat
  BY ConstantesAssumption
<1> QED
  BY <1>1, PaginaNat DEF Fisica

LEMMA TrozoInt ==
  ASSUME NEW a \in Accesos
  PROVE  Trozo(a) \in Int
<1>1. a.tam \in Nat /\ a.hecho \in Int /\ TAM_PAGINA \in Nat
  BY ConstantesAssumption DEF Accesos
<1>2. Desplazamiento(a) \in Nat
  BY PaginaNat
<1>3. a.tam - a.hecho \in Int /\ TAM_PAGINA - Desplazamiento(a) \in Int
  BY <1>1, <1>2
<1>4. QED
  BY <1>1, <1>3 DEF Trozo, Menor

LEMMA DeLargo ==
  ASSUME NEW S, NEW n \in Nat, NEW r \in [1 .. n -> S]
  PROVE  r \in Seq(S)
OBVIOUS

(* The bytes that are received are as many as were asked for.              *)
LEMMA RecibidosSeq ==
  ASSUME NEW a \in Accesos, NEW r \in Recibidos(Leido(a))
  PROVE  r \in Seq(Bytes)
<1>1. r \in [1 .. Trozo(a) -> Bytes]
  BY DEF Recibidos, Leido
<1>2. Trozo(a) \in Int
  BY TrozoInt
<1>3. CASE Trozo(a) \in Nat
  BY <1>1, <1>3
<1>4. CASE Trozo(a) \notin Nat
  <2>1. 1 .. Trozo(a) = 1 .. 0
    BY <1>2, <1>4
  <2> QED
    BY <1>1, <2>1, DeLargo
<1> QED
  BY <1>3, <1>4

LEMMA AvanzadoTipo ==
  ASSUME NEW a \in Accesos, NEW r \in Seq(Bytes)
  PROVE  /\ Avanzado(a, r) \in Accesos
         /\ Avanzado(a, r).dfs = a.dfs /\ Avanzado(a, r).dir = a.dir
<1>1. a.k + 1 \in Nat /\ a.hecho + Trozo(a) \in Int /\ a.dato \o r \in Seq(Bytes)
  BY TrozoInt DEF Accesos
<1> QED
  BY <1>1 DEF Avanzado, Accesos

(* An access keeps its addresses while its page table keeps its pages.     *)
LEMMA VigenteAvanzado ==
  ASSUME NEW a \in Accesos, NEW b \in Accesos, NEW p \in Pids,
         b.dfs = a.dfs, b.dir = a.dir, Vigente(p, a)
  PROVE  Vigente(p, b)
BY DEF Vigente, Desplazamiento

LEMMA NingunoTipo == Ninguno \in Accesos /\ Ninguno.dfs = <<>>
BY DEF Ninguno, Acceso, Accesos

LEMMA NadieNoEs == NADIE \notin Pids
BY ConstantesAssumption

LEMMA LibreTipo == Libre = [pc |-> "libre", pid |-> NADIE, pags |-> 0, acc |-> Ninguno]
BY DEF Libre

LEMMA VaciaTipo ==
  /\ Vacia \in [pid : Pids \cup {NADIE}, pag : Nat, marco : Nat, last_used : Nat]
  /\ Vacia.pid = NADIE
BY DEF Vacia

(* With the same page tables, and no fewer processes that have left, what  *)
(* was coherent still is.                                                  *)
LEMMA MismaTlb ==
  ASSUME TlbCoherente, Fiables' \subseteq Fiables, tlb' = tlb,
         \A q \in Fiables' : tabla'[q] = tabla[q]
  PROVE  TlbCoherente'
BY DEF TlbCoherente

LEMMA MismaVigencia ==
  ASSUME NEW p, NEW a, Vigente(p, a), tabla'[p] = tabla[p]
  PROVE  Vigente(p, a)'
BY DEF Vigente, Desplazamiento

-----------------------------------------------------------------------------
LEMMA EspacioInit == Init => EspacioInv
<1> SUFFICES ASSUME Init PROVE EspacioInv
  OBVIOUS
<1> USE NadieNoEs
<1>1. TablaTipo
  BY DEF Init, TablaTipo
<1>2. TlbTipo
  BY VaciaTipo DEF Init, TlbTipo
<1>3. CpuTipo
  BY LibreTipo, NingunoTipo DEF Init, CpuTipo
<1>4. EsTipo
  BY DEF Init, EsTipo
<1>5. EstadoTipo
  BY DEF Init, EstadoTipo
<1>6. TlbCoherente
  BY VaciaTipo DEF Init, TlbCoherente, Fiables
<1>7. DireccionesVigentes
  BY LibreTipo DEF Init, DireccionesVigentes, Fiables
<1> QED
  BY <1>1, <1>2, <1>3, <1>4, <1>5, <1>6, <1>7 DEF EspacioInv

-----------------------------------------------------------------------------
(* Page tables.                                                            *)

LEMMA ResizeInv ==
  ASSUME EspacioInv, NEW p \in Pids, NEW n \in Nat, Resize(p, n)
  PROVE  EspacioInv'
<1> USE NadieNoEs DEF EspacioInv
<1>1. UNCHANGED <<tlb, contador_global, es, estado>> /\ estado[p] = "vive"
  BY DEF Resize, cacheVars
<1>2. cpu.pid = NADIE
  BY DEF Resize, CpuTipo
<1>3. TlbTipo' /\ EsTipo'
  BY <1>1 DEF TlbTipo, EsTipo
<1>4. CASE n < Len(tabla[p])
  <2>1. /\ tabla' = [tabla EXCEPT ![p] = SubSeq(@, 1, n)]
        /\ achicados' = achicados \cup {p} /\ cpu' = cpu
    BY <1>4 DEF Resize
  <2>2. SubSeq(tabla[p], 1, n) \in Seq(Marcos)
    BY <1>4 DEF TablaTipo
  <2>3. TablaTipo' /\ CpuTipo' /\ EstadoTipo'
    BY <1>1, <2>1, <2>2 DEF TablaTipo, CpuTipo, EstadoTipo
  <2>4. Fiables' \subseteq Fiables /\ \A q \in Fiables' : tabla'[q] = tabla[q]
    BY <1>1, <2>1 DEF Fiables, TablaTipo
  <2>5. TlbCoherente'
    BY <1>1, <2>4, MismaTlb
  <2>6. DireccionesVigentes'
    BY <1>1, <2>1, <2>4, MismaVigencia DEF DireccionesVigentes
  <2> QED
    BY <1>3, <2>3, <2>5, <2>6
<1>5. CASE ~(n < Len(tabla[p]))
  <2>1. /\ cpu' = [Libre EXCEPT !.pc = "amplia", !.pid = p, !.pags = n]
        /\ UNCHANGED <<tabla, achicados>>
    BY <1>5 DEF Resize
  <2>2. cpu' = [pc |-> "amplia", pid |-> p, pags |-> n, acc |-> Ninguno]
    BY <2>1, LibreTipo
  <2>3. TablaTipo' /\ EstadoTipo'
    BY <1>1, <2>1, <2>2 DEF TablaTipo, EstadoTipo
  <2>4. CpuTipo'
    BY <2>2, NingunoTipo DEF CpuTipo
  <2>5. Fiables' = Fiables
    BY <1>1, <2>1 DEF Fiables
  <2>6. TlbCoherente'
    BY <1>1, <2>1, <2>5, MismaTlb
  <2>7. Vigente(p, cpu.acc)'
    BY <2>2, NingunoTipo DEF Vigente
  <2>8. DireccionesVigentes'
    BY <1>1, <2>1, <2>2, <2>5, <2>7, MismaVigencia DEF DireccionesVigentes, Fiables
  <2> QED
    BY <1>3, <2>3, <2>4, <2>6, <2>8
<1> QED
  BY <1>4, <1>5

LEMMA CreceVigencia ==
  ASSUME NEW q \in Pids, NEW a \in Accesos, Vigente(q, a), TablaTipo, TablaTipo',
         Len(tabla[q]) <= Len(tabla'[q]),
         \A g \in 1 .. Len(tabla[q]) : tabla'[q][g] = tabla[q][g]
  PROVE  Vigente(q, a)'
<1>1. a.dir \div TAM_PAGINA \in Nat /\ a.dfs \in Seq(Nat)
  BY PaginaNat DEF Accesos
<1>2. Len(tabla[q]) \in Nat /\ Len(tabla'[q]) \in Nat
  BY DEF TablaTipo
<1> SUFFICES ASSUME NEW k \in DOMAIN a.dfs
             PROVE  /\ a.dir \div TAM_PAGINA + k <= Len(tabla'[q])
                    /\ a.dfs[k] = tabla'[q][a.dir \div TAM_PAGINA + k] * TAM_PAGINA
                                    + IF k = 1 THEN Desplazamiento(a) ELSE 0
  BY DEF Vigente, Desplazamiento
<1>3. k \in Nat /\ k >= 1
  BY <1>1
<1>4. /\ a.dir \div TAM_PAGINA + k <= Len(tabla[q])
      /\ a.dfs[k] = tabla[q][a.dir \div TAM_PAGINA + k] * TAM_PAGINA
                      + IF k = 1 THEN Desplazamiento(a) ELSE 0
  BY DEF Vigente
<1> DEFINE g == a.dir \div TAM_PAGINA + k
<1>5. g \in 1 .. Len(tabla[q])
  BY <1>1, <1>2, <1>3, <1>4
<1>6. tabla'[q][g] = tabla[q][g]
  BY <1>5
<1> HIDE DEF g
<1>7. g <= Len(tabla'[q])
  BY <1>2, <1>5
<1> QED
  BY <1>4, <1>6, <1>7 DEF g

LEMMA AgregarPaginaInv ==
  ASSUME EspacioInv, AgregarPagina
  PROVE  EspacioInv'
<1> USE NadieNoEs DEF EspacioInv
<1>1. UNCHANGED <<tlb, contador_global, cpu, es, estado, achicados>>
  BY DEF AgregarPagina, cacheVars
<1>2. PICK f \in Marcos : tabla' = [tabla EXCEPT ![cpu.pid] = Append(@, f)]
  BY DEF AgregarPagina
<1>3. cpu.pid \in Pids
  BY DEF AgregarPagina, CpuTipo
<1>4. TablaTipo'
  BY <1>2, <1>3 DEF TablaTipo
<1>5. \A q \in Pids : /\ Len(tabla[q]) <= Len(tabla'[q])
                      /\ \A g \in 1 .. Len(tabla[q]) : tabla'[q][g] = tabla[q][g]
  BY <1>2, <1>3 DEF TablaTipo
<1>6. TlbTipo' /\ CpuTipo' /\ EsTipo' /\ EstadoTipo'
  BY <1>1 DEF TlbTipo, CpuTipo, EsTipo, EstadoTipo
<1>7. Fiables' = Fiables
  BY <1>1 DEF Fiables
<1>8. TlbCoherente'
  <2> SUFFICES ASSUME NEW i \in Entradas, tlb[i].pid \in Fiables
               PROVE  /\ tlb[i].pag < Len(tabla'[tlb[i].pid])
                      /\ tlb[i].marco = tabla'[tlb[i].pid][tlb[i].pag + 1]
    BY <1>1, <1>7 DEF TlbCoherente
  <2> DEFINE q == tlb[i].pid
             g == tlb[i].pag + 1
  <2>1. tlb[i].pag \in Nat /\ q \in Pids
    BY DEF TlbTipo, Fiables
  <2>2. tlb[i].pag < Len(tabla[q]) /\ tlb[i].marco = tabla[q][g]
    BY DEF TlbCoherente
  <2>3. Len(tabla[q]) \in Nat /\ Len(tabla'[q]) \in Nat
    BY <1>4, <2>1 DEF TablaTipo
  <2>4. g \in 1 .. Len(tabla[q])
    BY <2>1, <2>2, <2>3
  <2>5. tabla'[q][g] = tabla[q][g] /\ Len(tabla[q]) <= Len(tabla'[q])
    BY <1>5, <2>1, <2>4
  <2>6. tlb[i].pag < Len(tabla'[q])
    BY <2>1, <2>2, <2>3, <2>5
  <2> QED
    BY <2>2, <2>5, <2>6
<1>9. DireccionesVigentes'
  <2>1. \A q \in Pids, a \in Accesos : Vigente(q, a) => Vigente(q, a)'
    BY <1>4, <1>5, CreceVigencia
  <2>2. cpu.acc \in Accesos /\ \A q \in Pids : es[q] # NADIE => es[q] \in Accesos
    BY DEF CpuTipo, EsTipo
  <2> QED
    BY <1>1, <1>7, <2>1, <2>2 DEF DireccionesVigentes, Fiables
<1> QED
  BY <1>4, <1>6, <1>8, <1>9

(* The process leaves the CPU.                                             *)
LEMMA DejarInv ==
  ASSUME EspacioInv, NEW como \in {"vive", "sale"}, cpu.pid \in Pids,
         Dejar(como), UNCHANGED <<memoria, cacheVars, es, achicados>>
  PROVE  EspacioInv'
<1> USE NadieNoEs DEF EspacioInv
<1>1. UNCHANGED <<tabla, tlb, contador_global, es, achicados>>
  BY DEF memoria, cacheVars
<1>2. cpu' = [pc |-> "libre", pid |-> NADIE, pags |-> 0, acc |-> Ninguno]
  BY LibreTipo DEF Dejar
<1>3. TablaTipo' /\ TlbTipo' /\ EsTipo'
  BY <1>1 DEF TablaTipo, TlbTipo, EsTipo
<1>4. CpuTipo'
  BY <1>2, NingunoTipo DEF CpuTipo
<1>5. estado' = [estado EXCEPT ![cpu.pid] = como]
  BY DEF Dejar
<1>6. EstadoTipo'
  BY <1>1, <1>2, <1>5 DEF EstadoTipo
<1>7. estado[cpu.pid] # "eliminado"
  BY DEF EstadoTipo
<1>8. Fiables' = Fiables
  BY <1>1, <1>5, <1>7 DEF Fiables, EstadoTipo
<1>9. TlbCoherente'
  BY <1>1, <1>8, MismaTlb
<1>10. DireccionesVigentes'
  BY <1>1, <1>2, <1>8, MismaVigencia DEF DireccionesVigentes, Fiables
<1> QED
  BY <1>3, <1>4, <1>6, <1>9, <1>10

LEMMA FinResizeInv ==
  ASSUME EspacioInv, FinResize
  PROVE  EspacioInv'
<1>1. cpu.pid \in Pids
  BY NadieNoEs DEF EspacioInv, FinResize, CpuTipo
<1>2. PICK como \in {"vive", "sale"} : Dejar(como)
  BY DEF FinResize
<1> QED
  BY <1>1, <1>2, DejarInv DEF FinResize

LEMMA EliminarInv ==
  ASSUME EspacioInv, NEW p \in Pids, Eliminar(p)
  PROVE  EspacioInv'
<1> USE NadieNoEs DEF EspacioInv
<1>1. UNCHANGED <<tlb, contador_global, cpu, es, achicados>> /\ cpu.pid # p
  BY DEF Eliminar, cacheVars
<1>2. /\ tabla' = [tabla EXCEPT ![p] = <<>>]
      /\ estado' = [estado EXCEPT ![p] = "eliminado"]
  BY DEF Eliminar
<1>3. TablaTipo' /\ TlbTipo' /\ CpuTipo' /\ EsTipo' /\ EstadoTipo'
  BY <1>1, <1>2 DEF TablaTipo, TlbTipo, CpuTipo, EsTipo, EstadoTipo
<1>4. Fiables' \subseteq Fiables /\ \A q \in Fiables' : tabla'[q] = tabla[q]
  BY <1>1, <1>2 DEF Fiables, EstadoTipo, TablaTipo
<1>5. TlbCoherente'
  BY <1>1, <1>4, MismaTlb
<1>6. DireccionesVigentes'
  BY <1>1, <1>4, MismaVigencia DEF DireccionesVigentes
<1> QED
  BY <1>3, <1>5, <1>6

-----------------------------------------------------------------------------
(* The steps of an access change nothing but what the CPU, or an IO        *)
(* program, knows of it.                                                   *)

LEMMA CpuInv ==
  ASSUME EspacioInv, UNCHANGED <<tabla, tlb, contador_global, es, estado, achicados>>,
         CpuTipo', cpu'.pid \in {cpu.pid, NADIE},
         \A p \in Fiables : cpu.pid = p /\ cpu'.pid = p => Vigente(p, cpu'.acc)
  PROVE  EspacioInv'
<1> USE NadieNoEs DEF EspacioInv
<1>1. TablaTipo' /\ TlbTipo' /\ EsTipo' /\ EstadoTipo'
  BY DEF TablaTipo, TlbTipo, EsTipo, EstadoTipo
<1>2. Fiables' = Fiables
  BY DEF Fiables
<1>3. TlbCoherente'
  BY <1>2, MismaTlb
<1>4. DireccionesVigentes'
  BY <1>2, MismaVigencia DEF DireccionesVigentes, Fiables
<1> QED
  BY <1>1, <1>3, <1>4

LEMMA EsInv ==
  ASSUME EspacioInv, UNCHANGED <<tabla, tlb, contador_global, cpu, achicados>>,
         EsTipo', EstadoTipo', NEW p \in Pids,
         \A q \in Pids : q # p => es'[q] = es[q],
         Fiables' = Fiables,
         p \in Fiables /\ es'[p] # NADIE => Vigente(p, es'[p])
  PROVE  EspacioInv'
<1> USE DEF EspacioInv
<1>1. TablaTipo' /\ TlbTipo' /\ CpuTipo'
  BY DEF TablaTipo, TlbTipo, CpuTipo
<1>2. TlbCoherente'
  BY MismaTlb
<1>3. DireccionesVigentes'
  BY MismaVigencia DEF DireccionesVigentes, Fiables
<1> QED
  BY <1>1, <1>2, <1>3

LEMMA EjecutarInv ==
  ASSUME EspacioInv, NEW p \in Pids, NEW op \in Operaciones, NEW dir \in Nat,
         NEW tam \in Nat, NEW destino \in Nat, Ejecutar(p, op, dir, tam, destino)
  PROVE  EspacioInv'
<1> USE NadieNoEs
<1>1. UNCHANGED <<tabla, tlb, contador_global, es, estado, achicados>>
      /\ estado[p] = "vive"
  BY DEF Ejecutar, memoria, cacheVars
<1>2. cpu' = [pc |-> "traduce", pid |-> p, pags |-> 0, acc |-> Acceso(op, dir, tam, destino)]
  BY LibreTipo DEF Ejecutar
<1>3. Acceso(op, dir, tam, destino) \in Accesos
      /\ Acceso(op, dir, tam, destino).dfs = <<>>
  BY DEF Acceso, Accesos
<1>4. CpuTipo'
  BY <1>2, <1>3 DEF CpuTipo
<1>5. TablaTipo' /\ TlbTipo' /\ EsTipo' /\ EstadoTipo'
  BY <1>1, <1>2 DEF EspacioInv, TablaTipo, TlbTipo, EsTipo, EstadoTipo
<1>6. Fiables' = Fiables
  BY <1>1 DEF Fiables
<1>7. TlbCoherente'
  BY <1>1, <1>6, MismaTlb DEF EspacioInv
<1>8. Vigente(p, cpu.acc)'
  BY <1>2, <1>3 DEF Vigente
<1>9. DireccionesVigentes'
  BY <1>1, <1>2, <1>6, <1>8, MismaVigencia DEF DireccionesVigentes, Fiables, EspacioInv
<1> QED
  BY <1>4, <1>5, <1>7, <1>9 DEF EspacioInv

-----------------------------------------------------------------------------
(* Translation.  The address of the next page is the one of its frame.     *)

LEMMA TraducidaVigente ==
  ASSUME NEW a \in Accesos, NEW p \in Pids, NEW f \in Nat, TablaTipo,
         p \in Fiables =>
           /\ Vigente(p, a)
           /\ Pagina(a) < Len(tabla[p]) /\ f = tabla[p][Pagina(a) + 1],
         NEW b, b = [a EXCEPT !.dfs = Append(@, Fisica(a, f))]
  PROVE  b \in Accesos /\ (p \in Fiables => Vigente(p, b))
<1>1. Fisica(a, f) \in Nat
  BY FisicaNat
<1>2. a.dfs \in Seq(Nat) /\ Append(a.dfs, Fisica(a, f)) \in Seq(Nat)
  BY <1>1 DEF Accesos
<1>3. b \in Accesos /\ b.dfs = Append(a.dfs, Fisica(a, f)) /\ b.dir = a.dir
  BY <1>2 DEF Accesos
<1>4. ASSUME p \in Fiables PROVE Vigente(p, b)
  <2> SUFFICES ASSUME NEW k \in DOMAIN b.dfs
               PROVE  /\ a.dir \div TAM_PAGINA + k <= Len(tabla[p])
                      /\ b.dfs[k] = tabla[p][a.dir \div TAM_PAGINA + k] * TAM_PAGINA
                                      + IF k = 1 THEN Desplazamiento(a) ELSE 0
    BY <1>3 DEF Vigente, Desplazamiento
  <2>1. k \in 1 .. Len(a.dfs) + 1
    BY <1>2, <1>3
  <2>2. CASE k \in 1 .. Len(a.dfs)
    <3>1. k \in DOMAIN a.dfs /\ b.dfs[k] = a.dfs[k]
      BY <1>2, <1>3, <2>2
    <3> QED
      BY <1>4, <3>1 DEF Vigente
  <2>3. CASE k = Len(a.dfs) + 1
    <3>1. b.dfs[k] = Fisica(a, f)
      BY <1>2, <1>3, <2>3
    <3>2. Len(a.dfs) \in Nat /\ (k = 1 <=> a.dfs = <<>>)
      BY <1>2, <2>3
    <3>3. a.dir \div TAM_PAGINA + k = Pagina(a) + 1
      BY <2>3, <3>2, PaginaNat
    <3>4. Pagina(a) + 1 <= Len(tabla[p])
      BY <1>4, PaginaNat DEF TablaTipo
    <3>5. f = tabla[p][a.dir \div TAM_PAGINA + k]
      BY <1>4, <3>3
    <3> QED
      BY <3>1, <3>2, <3>3, <3>4, <3>5 DEF Fisica
  <2> QED
    BY <2>1, <2>2, <2>3, <1>2
<1> QED
  BY <1>3, <1>4

(* Whatever the TLB does meanwhile, if it stays coherent.                  *)
LEMMA TraducidaInv ==
  ASSUME EspacioInv, NEW f \in Nat, cpu.pc = "traduce",
         cpu.pid \in Fiables =>
           /\ Pagina(cpu.acc) < Len(tabla[cpu.pid])
           /\ f = tabla[cpu.pid][Pagina(cpu.acc) + 1],
         Traducida(f), UNCHANGED <<tabla, estado, achicados>>,
         TlbTipo', TlbCoherente'
  PROVE  EspacioInv'
<1> USE NadieNoEs
<1> DEFINE a == cpu.acc
           b == [cpu.acc EXCEPT !.dfs = Append(@, Fisica(cpu.acc, f))]
<1>1. cpu.pid \in Pids /\ a \in Accesos
  BY DEF EspacioInv, CpuTipo
<1>2. cpu.pid \in Fiables => Vigente(cpu.pid, a)
  BY DEF EspacioInv, DireccionesVigentes
<1>3. b \in Accesos /\ (cpu.pid \in Fiables => Vigente(cpu.pid, b))
  BY <1>1, <1>2, TraducidaVigente DEF EspacioInv
<1> HIDE DEF a, b
<1>4. \/ /\ cpu' = [cpu EXCEPT !.acc = b] /\ es' = es
      \/ /\ cpu' = Libre /\ es' = [es EXCEPT ![cpu.pid] = b]
      \/ \E pc \in {"lee", "escribe"} :
           cpu' = [cpu EXCEPT !.acc = b, !.pc = pc] /\ es' = es
  BY DEF Traducida, b
<1>5. TablaTipo' /\ Fiables' = Fiables
  BY DEF EspacioInv, TablaTipo, Fiables
<1>6. CASE \E pc \in {"traduce", "lee", "escribe"} :
             cpu' = [cpu EXCEPT !.acc = b, !.pc = pc] /\ es' = es
  <2>1. CpuTipo' /\ cpu'.pid = cpu.pid /\ cpu'.acc = b
    BY <1>1, <1>3, <1>6 DEF EspacioInv, CpuTipo
  <2>2. EsTipo' /\ EstadoTipo'
    BY <1>6, <2>1 DEF EspacioInv, EsTipo, EstadoTipo
  <2>3. DireccionesVigentes'
    BY <1>3, <1>5, <1>6, <2>1, MismaVigencia DEF EspacioInv, DireccionesVigentes, Fiables
  <2> QED
    BY <1>5, <2>1, <2>2, <2>3 DEF EspacioInv
<1>7. CASE cpu' = Libre /\ es' = [es EXCEPT ![cpu.pid] = b]
  <2>1. CpuTipo' /\ cpu'.pid = NADIE
    BY <1>7, LibreTipo, NingunoTipo DEF CpuTipo
  <2>2. EsTipo' /\ EstadoTipo'
    BY <1>1, <1>3, <1>7, <2>1 DEF EspacioInv, EsTipo, EstadoTipo
  <2>3. \A q \in Pids : es'[q] = IF q = cpu.pid THEN b ELSE es[q]
    BY <1>1, <1>7 DEF EspacioInv, EsTipo
  <2>4. DireccionesVigentes'
    BY <1>3, <1>5, <2>1, <2>3, MismaVigencia DEF EspacioInv, DireccionesVigentes, Fiables
  <2> QED
    BY <1>5, <2>1, <2>2, <2>4 DEF EspacioInv
<1>8. cpu = [cpu EXCEPT !.pc = "traduce"]
  BY DEF EspacioInv, CpuTipo
<1>9. [cpu EXCEPT !.acc = b] = [cpu EXCEPT !.acc = b, !.pc = "traduce"]
  BY <1>8 DEF EspacioInv, CpuTipo
<1> QED
  BY <1>4, <1>6, <1>7, <1>9

LEMMA TlbHitInv ==
  ASSUME EspacioInv, TlbHit
  PROVE  EspacioInv'
<1> USE NadieNoEs
<1>1. UNCHANGED <<tabla, estado, achicados>>
  BY DEF TlbHit, memoria
<1>2. PICK i \in Entradas : /\ Es(tlb[i], cpu.pid, Pagina(cpu.acc))
                            /\ Traducida(tlb[i].marco) /\ BuscarTlb(i)
  BY DEF TlbHit, Halladas
<1>3. tlb[i].marco \in Nat
  BY DEF EspacioInv, TlbTipo
<1>4. cpu.pid \in Fiables =>
        /\ Pagina(cpu.acc) < Len(tabla[cpu.pid])
        /\ tlb[i].marco = tabla[cpu.pid][Pagina(cpu.acc) + 1]
  BY <1>2 DEF EspacioInv, TlbCoherente, Es
<1>5. TlbTipo'
  <2>1. contador_global' \in Nat
    BY <1>2 DEF BuscarTlb, EspacioInv, TlbTipo
  <2>2. tlb' = tlb \/ tlb' = [tlb EXCEPT ![i].last_used = contador_global]
    BY <1>2 DEF BuscarTlb
  <2> QED
    BY <2>1, <2>2 DEF EspacioInv, TlbTipo
<1>6. \A j \in Entradas : /\ tlb'[j].pid = tlb[j].pid /\ tlb'[j].pag = tlb[j].pag
                          /\ tlb'[j].marco = tlb[j].marco
  <2>1. tlb' = tlb \/ tlb' = [tlb EXCEPT ![i].last_used = contador_global]
    BY <1>2 DEF BuscarTlb
  <2> QED
    BY <2>1 DEF EspacioInv, TlbTipo
<1>7. Fiables' = Fiables
  BY <1>1 DEF Fiables
<1>8. TlbCoherente'
  BY <1>1, <1>6, <1>7 DEF EspacioInv, TlbCoherente
<1>9. cpu.pc = "traduce"
  BY DEF TlbHit
<1> QED
  BY <1>1, <1>2, <1>3, <1>4, <1>5, <1>8, <1>9, TraducidaInv

LEMMA TlbMissInv ==
  ASSUME EspacioInv, TlbMiss
  PROVE  EspacioInv'
<1> USE NadieNoEs
<1> DEFINE n == Pagina(cpu.acc)
           f == tabla[cpu.pid][Pagina(cpu.acc) + 1]
<1>1. /\ UNCHANGED <<tabla, estado, achicados>> /\ cpu.pc = "traduce"
      /\ n < Len(tabla[cpu.pid]) /\ Traducida(f) /\ ActualizarTlb(cpu.pid, n, f)
  BY DEF TlbMiss, memoria
<1>2. cpu.pid \in Pids /\ cpu.acc \in Accesos /\ n \in Nat
  BY <1>1, PaginaNat DEF EspacioInv, CpuTipo
<1>3. f \in Nat
  <2>1. tabla[cpu.pid] \in Seq(Marcos) /\ n + 1 \in 1 .. Len(tabla[cpu.pid])
    BY <1>1, <1>2 DEF EspacioInv, TablaTipo
  <2>2. f \in Marcos
    BY <2>1
  <2> QED
    BY <2>2, ConstantesAssumption DEF Marcos
<1> HIDE DEF n, f
<1>4. /\ Nueva(cpu.pid, n, f) \in
           [pid : Pids \cup {NADIE}, pag : Nat, marco : Nat, last_used : Nat]
      /\ Nueva(cpu.pid, n, f).pid = cpu.pid /\ Nueva(cpu.pid, n, f).pag = n
      /\ Nueva(cpu.pid, n, f).marco = f
  BY <1>2, <1>3 DEF Nueva, EspacioInv, TlbTipo
<1>5. contador_global' \in Nat
  BY <1>1 DEF ActualizarTlb, EspacioInv, TlbTipo
<1>6. \/ tlb' = tlb
      \/ \E v \in Entradas : tlb' = [tlb EXCEPT ![v] = Nueva(cpu.pid, n, f)]
  BY <1>1 DEF ActualizarTlb
<1>7. TlbTipo'
  BY <1>4, <1>5, <1>6 DEF EspacioInv, TlbTipo
<1>8. \A j \in Entradas : tlb'[j] = tlb[j] \/ tlb'[j] = Nueva(cpu.pid, n, f)
  BY <1>6 DEF EspacioInv, TlbTipo
<1>9. Fiables' = Fiables
  BY <1>1 DEF Fiables
<1>10. TlbCoherente'
  <2> SUFFICES ASSUME NEW j \in Entradas, tlb'[j].pid \in Fiables
               PROVE  /\ tlb'[j].pag < Len(tabla[tlb'[j].pid])
                      /\ tlb'[j].marco = tabla[tlb'[j].pid][tlb'[j].pag + 1]
    BY <1>1, <1>9 DEF TlbCoherente
  <2>1. CASE tlb'[j] = tlb[j]
    BY <2>1 DEF EspacioInv, TlbCoherente
  <2>2. CASE tlb'[j] = Nueva(cpu.pid, n, f)
    BY <1>1, <1>4, <2>2 DEF n, f
  <2> QED
    BY <1>8, <2>1, <2>2
<1>11. Pagina(cpu.acc) < Len(tabla[cpu.pid]) /\ f = tabla[cpu.pid][Pagina(cpu.acc) + 1]
  BY <1>1 DEF n, f
<1> QED
  BY <1>1, <1>3, <1>7, <1>10, <1>11, TraducidaInv

(* An instruction that fails leaves the CPU.                               *)
LEMMA FallarInv ==
  ASSUME EspacioInv, cpu.pc # "libre", Fallar, UNCHANGED <<memoria, cacheVars, es, achicados>>
  PROVE  EspacioInv'
<1>1. cpu.pid \in Pids
  BY NadieNoEs DEF EspacioInv, CpuTipo
<1>2. PICK como \in {"vive", "sale"} : Dejar(como)
  BY DEF Fallar
<1> QED
  BY <1>1, <1>2, DejarInv

-----------------------------------------------------------------------------
(* Reading and writing.                                                    *)

(* The CPU goes on with the same addresses, or begins again without any.   *)
LEMMA CpuSigueInv ==
  ASSUME EspacioInv, UNCHANGED <<tabla, tlb, contador_global, es, estado, achicados>>,
         NEW b \in Accesos, NEW pc \in {"traduce", "lee", "escribe"}, cpu.pid # NADIE,
         cpu' = [cpu EXCEPT !.acc = b, !.pc = pc],
         b.dfs = <<>> \/ (b.dfs = cpu.acc.dfs /\ b.dir = cpu.acc.dir)
  PROVE  EspacioInv'
<1>1. CpuTipo' /\ cpu'.pid = cpu.pid /\ cpu'.acc = b /\ cpu.acc \in Accesos
  BY DEF EspacioInv, CpuTipo
<1>2. ASSUME NEW p \in Fiables, cpu.pid = p
      PROVE  Vigente(p, b)
  <2>1. p \in Pids /\ Vigente(p, cpu.acc)
    BY <1>2 DEF EspacioInv, DireccionesVigentes, Fiables
  <2>2. CASE b.dfs = <<>>
    BY <2>2 DEF Vigente
  <2>3. CASE b.dfs = cpu.acc.dfs /\ b.dir = cpu.acc.dir
    BY <1>1, <2>1, <2>3, VigenteAvanzado
  <2> QED
    BY <2>2, <2>3
<1> QED
  BY <1>1, <1>2, CpuInv

LEMMA CpuLibreInv ==
  ASSUME EspacioInv, UNCHANGED <<tabla, tlb, contador_global, es, estado, achicados>>,
         cpu' = Libre
  PROVE  EspacioInv'
<1>1. CpuTipo' /\ cpu'.pid = NADIE
  BY LibreTipo, NingunoTipo DEF CpuTipo
<1>2. \A p \in Fiables : cpu'.pid # p
  BY <1>1, NadieNoEs DEF Fiables
<1> QED
  BY <1>1, <1>2, CpuInv

LEMMA LeerInv ==
  ASSUME EspacioInv, Leer
  PROVE  EspacioInv'
<1>1. /\ UNCHANGED <<tabla, tlb, contador_global, es, estado, achicados>>
      /\ cpu.pc = "lee"
  BY DEF Leer, memoria, cacheVars
<1>2. cpu.pid # NADIE /\ cpu.acc \in Accesos
  BY <1>1 DEF EspacioInv, CpuTipo
<1>3. PICK r \in Recibidos(Leido(cpu.acc)) :
        cpu' = IF ~Ultima(cpu.acc)
               THEN [cpu EXCEPT !.acc =
                       Avanzado(cpu.acc, IF cpu.acc.op = "MOV_IN" THEN <<>> ELSE r)]
               ELSE IF cpu.acc.op = "MOV_IN" THEN Libre
               ELSE [cpu EXCEPT !.pc = "traduce",
                       !.acc = [Acceso("PEGAR", cpu.acc.destino, cpu.acc.tam, 0)
                                  EXCEPT !.dato = cpu.acc.dato \o r]]
  BY DEF Leer
<1>4. r \in Seq(Bytes) /\ <<>> \in Seq(Bytes)
  BY <1>2, RecibidosSeq
<1>5. CASE ~Ultima(cpu.acc)
  <2>1. PICK s \in Seq(Bytes) : cpu' = [cpu EXCEPT !.acc = Avanzado(cpu.acc, s)]
    BY <1>3, <1>4, <1>5
  <2>2. cpu' = [cpu EXCEPT !.acc = Avanzado(cpu.acc, s), !.pc = "lee"]
    BY <1>1, <2>1 DEF EspacioInv, CpuTipo
  <2> QED
    BY <1>1, <1>2, <2>2, AvanzadoTipo, CpuSigueInv
<1>6. CASE Ultima(cpu.acc) /\ cpu.acc.op = "MOV_IN"
  BY <1>1, <1>3, <1>6, CpuLibreInv
<1>7. CASE Ultima(cpu.acc) /\ cpu.acc.op # "MOV_IN"
  <2> DEFINE b == [Acceso("PEGAR", cpu.acc.destino, cpu.acc.tam, 0)
                     EXCEPT !.dato = cpu.acc.dato \o r]
  <2>1. cpu.acc.dato \o r \in Seq(Bytes)
    BY <1>2, <1>4 DEF Accesos
  <2>2. b \in Accesos /\ b.dfs = <<>>
    <3>1. cpu.acc.destino \in Nat /\ cpu.acc.tam \in Nat
      BY <1>2 DEF Accesos
    <3>2. Acceso("PEGAR", cpu.acc.destino, cpu.acc.tam, 0) \in Accesos
      BY <3>1 DEF Acceso, Accesos
    <3>3. Acceso("PEGAR", cpu.acc.destino, cpu.acc.tam, 0).dfs = <<>>
      BY DEF Acceso
    <3> QED
      BY <2>1, <3>2, <3>3 DEF Accesos
  <2>3. cpu' = [cpu EXCEPT !.acc = b, !.pc = "traduce"]
    BY <1>3, <1>7
  <2> HIDE DEF b
  <2> QED
    BY <1>1, <1>2, <2>2, <2>3, CpuSigueInv
<1> QED
  BY <1>5, <1>6, <1>7

LEMMA EscribirInv ==
  ASSUME EspacioInv, Escribir
  PROVE  EspacioInv'
<1>1. /\ UNCHANGED <<tabla, tlb, contador_global, es, estado, achicados>>
      /\ cpu.pc = "escribe"
  BY DEF Escribir, cacheVars
<1>2. cpu.pid # NADIE /\ cpu.acc \in Accesos
  BY <1>1 DEF EspacioInv, CpuTipo
<1>3. CASE cpu' = Libre
  BY <1>1, <1>3, CpuLibreInv
<1>4. CASE cpu' = [cpu EXCEPT !.acc = Avanzado(cpu.acc, <<>>)]
  <2>1. cpu' = [cpu EXCEPT !.acc = Avanzado(cpu.acc, <<>>), !.pc = "escribe"]
    BY <1>1, <1>4 DEF EspacioInv, CpuTipo
  <2>2. <<>> \in Seq(Bytes)
    OBVIOUS
  <2> QED
    BY <1>1, <1>2, <2>1, <2>2, AvanzadoTipo, CpuSigueInv
<1> QED
  BY <1>3, <1>4 DEF Escribir

(* An IO program ends its access, or goes on with the same addresses.      *)
LEMMA EsSigueInv ==
  ASSUME EspacioInv, UNCHANGED <<tabla, tlb, contador_global, cpu, achicados>>,
         EstadoTipo', Fiables' = Fiables, NEW p \in Pids, es[p] # NADIE,
         es' = [es EXCEPT ![p] = NADIE]
           \/ es' = [es EXCEPT ![p] = Avanzado(es[p], <<>>)]
  PROVE  EspacioInv'
<1>1. es[p] \in Accesos /\ <<>> \in Seq(Bytes)
  BY DEF EspacioInv, EsTipo
<1>2. /\ Avanzado(es[p], <<>>) \in Accesos
      /\ Avanzado(es[p], <<>>).dfs = es[p].dfs /\ Avanzado(es[p], <<>>).dir = es[p].dir
  BY <1>1, AvanzadoTipo
<1>3. EsTipo' /\ \A q \in Pids : q # p => es'[q] = es[q]
  BY <1>2 DEF EspacioInv, EsTipo
<1>4. es'[p] \in {NADIE, Avanzado(es[p], <<>>)}
  BY DEF EspacioInv, EsTipo
<1>5. p \in Fiables /\ es'[p] # NADIE => Vigente(p, es'[p])
  BY <1>1, <1>2, <1>4, VigenteAvanzado DEF EspacioInv, DireccionesVigentes
<1> QED
  BY <1>3, <1>5, EsInv

LEMMA EsLeeInv ==
  ASSUME EspacioInv, NEW p \in Pids, EsLee(p)
  PROVE  EspacioInv'
<1>1. UNCHANGED <<tabla, tlb, contador_global, cpu, achicados>> /\ es[p] # NADIE
  BY DEF EsLee, memoria, cacheVars
<1>2. \/ estado' = estado
      \/ estado' = [estado EXCEPT ![p] = IF @ = "vive" THEN "sale" ELSE @]
  BY DEF EsLee
<1>3. EstadoTipo' /\ Fiables' = Fiables
  BY <1>1, <1>2 DEF EspacioInv, EstadoTipo, Fiables
<1>4. \/ es' = [es EXCEPT ![p] = NADIE]
      \/ es' = [es EXCEPT ![p] = Avanzado(es[p], <<>>)]
  BY DEF EsLee, Seguir
<1> QED
  BY <1>1, <1>3, <1>4, EsSigueInv

LEMMA EsEscribeInv ==
  ASSUME EspacioInv, NEW p \in Pids, EsEscribe(p)
  PROVE  EspacioInv'
<1>1. UNCHANGED <<tabla, tlb, contador_global, cpu, estado, achicados>> /\ es[p] # NADIE
  BY DEF EsEscribe, cacheVars
<1>2. EstadoTipo' /\ Fiables' = Fiables
  BY <1>1 DEF EspacioInv, EstadoTipo, Fiables
<1>3. \/ es' = [es EXCEPT ![p] = NADIE]
      \/ es' = [es EXCEPT ![p] = Avanzado(es[p], <<>>)]
  BY DEF EsEscribe, Seguir
<1> QED
  BY <1>1, <1>2, <1>3, EsSigueInv

-----------------------------------------------------------------------------
LEMMA EspacioNext == EspacioInv /\ [Next]_vars => EspacioInv'
<1> SUFFICES ASSUME EspacioInv, [Next]_vars PROVE EspacioInv'
  OBVIOUS
<1>1. ASSUME NEW p \in Pids, Instruccion(p) PROVE EspacioInv'
  <2>1. ASSUME NEW n \in 0 .. MAX_PAGS, Resize(p, n) PROVE EspacioInv'
    BY <2>1, ResizeInv, ConstantesAssumption
  <2>2. ASSUME NEW op \in Operaciones, NEW dir \in Direcciones, NEW tam \in Tamanios,
               NEW destino \in Direcciones \cup {0}, Ejecutar(p, op, dir, tam, destino)
        PROVE  EspacioInv'
    <3>1. dir \in Nat /\ tam \in Nat /\ destino \in Nat
      BY ConstantesAssumption
    <3> QED
      BY <2>2, <3>1, EjecutarInv
  <2> QED
    BY <1>1, <2>1, <2>2 DEF Instruccion
<1>2. CASE UNCHANGED vars
  <2>1. UNCHANGED <<tabla, tlb, contador_global, cpu, es, estado, achicados>>
    BY <1>2 DEF vars, memoria, cacheVars
  <2>2. CpuTipo' /\ \A p \in Fiables : cpu.pid = p => Vigente(p, cpu'.acc)
    BY <2>1 DEF EspacioInv, CpuTipo, DireccionesVigentes
  <2> QED
    BY <2>1, <2>2, CpuInv
<1>3. CASE SinPagina
  <2>1. cpu.pc # "libre" /\ Fallar /\ UNCHANGED <<memoria, cacheVars, es, achicados>>
    BY <1>3 DEF SinPagina
  <2> QED
    BY <2>1, FallarInv
<1>4. CASE LeerError
  <2>1. cpu.pc # "libre" /\ Fallar /\ UNCHANGED <<memoria, cacheVars, es, achicados>>
    BY <1>4 DEF LeerError
  <2> QED
    BY <2>1, FallarInv
<1> QED
  BY <1>1, <1>2, <1>3, <1>4, EliminarInv, EsLeeInv, EsEscribeInv, AgregarPaginaInv,
     FinResizeInv, TlbHitInv, TlbMissInv, LeerInv, EscribirInv DEF Next

(* Whatever the programs do, a hit in the TLB of a process that has never  *)
(* made its memory smaller finds the frame that its page table names.      *)
THEOREM TlbCoherenteSiempre == Spec => []TlbCoherente
<1>1. EspacioInv => TlbCoherente
  BY DEF EspacioInv
<1> QED
  BY <1>1, EspacioInit, EspacioNext, PTL DEF Spec

(* The physical addresses that the CPU, or an IO program, still has to use *)
(* are the ones of the pages the access was about.                         *)
THEOREM DireccionesVigentesSiempre == Spec => []DireccionesVigentes
<1>1. EspacioInv => DireccionesVigentes
  BY DEF EspacioInv
<1> QED
  BY <1>1, EspacioInit, EspacioNext, PTL DEF Spec

-----------------------------------------------------------------------------
(* Pages.  list_dfs finds as many addresses as pages the access touches,   *)
(* each at the start of a frame but the first, and what is done of the     *)
(* access ends where a page ends.                                          *)

EnMarcos(a) ==
  \A k \in DOMAIN a.dfs : \E f \in Marcos :
    a.dfs[k] = f * TAM_PAGINA + IF k = 1 THEN Desplazamiento(a) ELSE 0

Traduciendo(a) ==
  /\ a.tam > 0 /\ EnMarcos(a) /\ Len(a.dfs) < CantPags(a)
  /\ a.k = 0 /\ a.hecho = 0
  /\ Len(a.dato) = IF a.op = "PEGAR" THEN a.tam ELSE 0

EnPagina(a) ==
  /\ a.tam > 0 /\ EnMarcos(a) /\ Len(a.dfs) = CantPags(a) /\ a.k < Len(a.dfs)
  /\ a.hecho = IF a.k = 0 THEN 0 ELSE a.k * TAM_PAGINA - Desplazamiento(a)

TlbMarcos == \A i \in Entradas : tlb[i].pid # NADIE => tlb[i].marco \in Marcos

(* COPY_STRING has read as many bytes as it is told it has, and writes as  *)
(* many as it read.                                                        *)
CpuAcceso(c) ==
  /\ c.pc = "traduce" => Traduciendo(c.acc)
  /\ c.pc = "lee" => /\ EnPagina(c.acc) /\ c.acc.op \in DeLeer
                     /\ c.acc.op = "COPY_STRING" => Len(c.acc.dato) = c.acc.hecho
  /\ c.pc = "escribe" => /\ EnPagina(c.acc)
                         /\ c.acc.op = "PEGAR" => Len(c.acc.dato) = c.acc.tam

EsAcceso(e) == \A p \in Pids : e[p] # NADIE => EnPagina(e[p])

RestoTipo ==
  /\ posicion \in Entradas \cup {0} /\ caida \in BOOLEAN /\ restan \in Nat
  /\ user_space \in [Espacio -> Bytes]

AccesosInv == TlbMarcos /\ CpuAcceso(cpu) /\ EsAcceso(es) /\ RestoTipo

LEMMA DivCotas ==
  ASSUME NEW x \in Nat, NEW T \in Nat \ {0}
  PROVE  /\ x \div T \in Nat /\ x % T \in 0 .. T - 1
         /\ (x \div T) * T <= x /\ x < (x \div T) * T + T
OBVIOUS

(* Frames do not overlap.                                                  *)
LEMMA MarcosSeparados ==
  ASSUME NEW f \in Nat, NEW g \in Nat, NEW T \in Nat \ {0},
         NEW r \in 0 .. T - 1, NEW s \in 0 .. T - 1, f * T + r = g * T + s
  PROVE  f = g
<1>1. ASSUME NEW u \in Nat, NEW v \in Nat, u < v PROVE u * T + T <= v * T
  <2>1. PICK e \in Nat : v = u + 1 + e
    BY <1>1
  <2>2. e * T \in Nat /\ u * T \in Nat
    OBVIOUS
  <2>3. v * T = u * T + T + e * T
    BY <2>1
  <2> QED
    BY <2>2, <2>3
<1>2. f * T \in Nat /\ g * T \in Nat
  OBVIOUS
<1>3. CASE f < g
  BY <1>1, <1>2, <1>3
<1>4. CASE g < f
  BY <1>1, <1>2, <1>4
<1> QED
  BY <1>3, <1>4

LEMMA DivDelMarco ==
  ASSUME NEW f \in Nat, NEW T \in Nat \ {0}, NEW r \in 0 .. T - 1
  PROVE  (f * T + r) \div T = f
<1> DEFINE x == f * T + r
           q == x \div T
<1>1. x \in Nat
  OBVIOUS
<1>2. q \in Nat /\ q * T <= x /\ x < q * T + T
  BY <1>1, DivCotas
<1>3. q * T \in Int
  BY <1>2
<1>4. PICK s \in 0 .. T - 1 : q * T + s = x
  <2>1. x - q * T \in 0 .. T - 1 /\ q * T + (x - q * T) = x
    BY <1>1, <1>2, <1>3
  <2> QED
    BY <2>1
<1> HIDE DEF q
<1>5. q = f
  BY <1>2, <1>4, MarcosSeparados
<1> QED
  BY <1>5 DEF q

LEMMA CantPagsCotas ==
  ASSUME NEW a \in Accesos
  PROVE  /\ CantPags(a) \in Nat /\ Desplazamiento(a) \in 0 .. TAM_PAGINA - 1
         /\ CantPags(a) * TAM_PAGINA <= a.tam + Desplazamiento(a) + TAM_PAGINA - 1
         /\ a.tam + Desplazamiento(a) + TAM_PAGINA - 1 < CantPags(a) * TAM_PAGINA + TAM_PAGINA
         /\ a.tam > 0 => CantPags(a) > 0
<1>1. TAM_PAGINA \in Nat \ {0} /\ a.dir \in Nat /\ a.tam \in Nat
  BY ConstantesAssumption DEF Accesos
<1>2. Desplazamiento(a) \in 0 .. TAM_PAGINA - 1
  BY <1>1, DivCotas DEF Desplazamiento
<1> DEFINE x == a.tam + Desplazamiento(a) + TAM_PAGINA - 1
<1>3. x \in Nat /\ CantPags(a) = x \div TAM_PAGINA
  BY <1>1, <1>2 DEF CantPags
<1> HIDE DEF x
<1>4. CantPags(a) \in Nat /\ CantPags(a) * TAM_PAGINA <= x /\ x < CantPags(a) * TAM_PAGINA + TAM_PAGINA
  BY <1>1, <1>3, DivCotas
<1>5. a.tam > 0 => CantPags(a) > 0
  <2>1. CASE CantPags(a) = 0
    BY <1>1, <1>2, <1>4, <2>1 DEF x
  <2> QED
    BY <1>4, <2>1
<1> QED
  BY <1>2, <1>4, <1>5 DEF x

(* With tam bytes from the displacement in the first page on, what is read *)
(* or written at each page stays in it, and the last page ends it.         *)
LEMMA TramoDeAcceso ==
  ASSUME NEW a \in Accesos, EnPagina(a)
  PROVE  /\ a.hecho \in Nat /\ Trozo(a) \in Nat \ {0} /\ a.hecho + Trozo(a) <= a.tam
         /\ (IF a.k = 0 THEN Desplazamiento(a) ELSE 0) + Trozo(a) <= TAM_PAGINA
         /\ Ultima(a) <=> a.hecho + Trozo(a) = a.tam
         /\ ~Ultima(a) => a.hecho + Trozo(a) = (a.k + 1) * TAM_PAGINA - Desplazamiento(a)
<1>1. /\ TAM_PAGINA \in Nat \ {0} /\ a.tam \in Nat \ {0} /\ a.k \in Nat /\ a.hecho \in Int
      /\ a.k < CantPags(a) /\ Len(a.dfs) = CantPags(a)
      /\ a.hecho = IF a.k = 0 THEN 0 ELSE a.k * TAM_PAGINA - Desplazamiento(a)
  BY ConstantesAssumption DEF Accesos, EnPagina
<1>2. Trozo(a) = IF a.k = 0 THEN Menor(a.tam, TAM_PAGINA - Desplazamiento(a))
                 ELSE Menor(a.tam - a.hecho, TAM_PAGINA)
  BY DEF Trozo
<1>3. Ultima(a) <=> a.k + 1 = CantPags(a)
  BY <1>1 DEF Ultima
<1> DEFINE T == TAM_PAGINA
           D == Desplazamiento(a)
           t == a.tam
           N == CantPags(a)
           k == a.k
           h == a.hecho
           r == Trozo(a)
<1>4. /\ T \in Nat \ {0} /\ D \in 0 .. T - 1 /\ t \in Nat \ {0} /\ N \in Nat
      /\ N * T <= t + D + T - 1 /\ t + D + T - 1 < N * T + T
      /\ k \in Nat /\ k < N /\ h \in Int
      /\ h = (IF k = 0 THEN 0 ELSE k * T - D)
      /\ r = (IF k = 0 THEN Menor(t, T - D) ELSE Menor(t - h, T))
  BY <1>1, <1>2, CantPagsCotas
<1> HIDE DEF T, D, t, N, k, h, r
<1>5. /\ h \in Nat /\ r \in Nat \ {0} /\ h + r <= t
      /\ (IF k = 0 THEN D ELSE 0) + r <= T
      /\ k + 1 = N <=> h + r = t
      /\ k + 1 # N => h + r = (k + 1) * T - D
  <2> USE <1>4
  <2>1. /\ (k + 1) * T = k * T + T /\ k * T \in Nat /\ N * T \in Nat
        /\ k > 0 => k * T >= T
    <3>1. CASE k = 0
      BY <3>1
    <3>2. CASE k > 0
      <4>1. PICK j \in Nat : k = j + 1
        BY <3>2
      <4>2. k * T = j * T + T /\ j * T \in Nat
        BY <4>1
      <4> QED
        BY <4>2
    <3> QED
      BY <3>1, <3>2
  <2>2. CASE k + 1 = N
    <3>1. N * T = k * T + T
      BY <2>1, <2>2
    <3>2. k * T < t + D /\ t + D <= k * T + T
      BY <2>1, <3>1
    <3>3. CASE k = 0
      <4>1. t <= T - D
        BY <3>2, <3>3
      <4>2. r = t /\ h = 0
        BY <3>3, <4>1 DEF Menor
      <4> QED
        BY <2>2, <3>3, <4>1, <4>2
    <3>4. CASE k > 0
      <4>1. h = k * T - D /\ t - h <= T /\ h \in Nat
        BY <2>1, <3>2, <3>4
      <4>2. r = t - h
        BY <3>4, <4>1 DEF Menor
      <4> QED
        BY <2>1, <2>2, <3>2, <3>4, <4>1, <4>2
    <3> QED
      BY <3>3, <3>4
  <2>3. CASE k + 1 < N
    <3>1. PICK j \in Nat : N = k + 2 + j
      BY <2>3
    <3>2. N * T = k * T + 2 * T + j * T /\ j * T \in Nat
      BY <3>1
    <3>3. k * T + T < t + D
      BY <2>1, <3>2
    <3>4. CASE k = 0
      <4>1. T - D < t
        BY <3>3, <3>4
      <4>2. r = T - D /\ h = 0
        BY <3>4, <4>1 DEF Menor
      <4> QED
        BY <2>1, <2>3, <3>4, <4>1, <4>2
    <3>5. CASE k > 0
      <4>1. h = k * T - D /\ T < t - h /\ h \in Nat
        BY <2>1, <3>3, <3>5
      <4>2. r = T
        BY <3>5, <4>1 DEF Menor
      <4> QED
        BY <2>1, <2>3, <3>3, <3>5, <4>1, <4>2
    <3> QED
      BY <3>4, <3>5
  <2> QED
    BY <2>2, <2>3
<1>6. (~Ultima(a) <=> k + 1 # N) /\ (Ultima(a) <=> h + r = t)
  BY <1>3, <1>5 DEF k, N
<1> QED
  BY <1>5, <1>6 DEF T, D, t, k, h, r

(* What is read or written next, in the words of acceso_usuario.           *)
LEMMA PaginaEnMemoria ==
  ASSUME NEW a \in Accesos, EnPagina(a)
  PROVE  EnMemoria(a)
<1> DEFINE off == IF a.k = 0 THEN Desplazamiento(a) ELSE 0
           T == TAM_PAGINA
           r == Trozo(a)
<1>1. a.k \in Nat /\ a.dfs \in Seq(Nat) /\ a.k + 1 \in DOMAIN a.dfs
  BY DEF Accesos, EnPagina
<1>2. PICK f \in Marcos : a.dfs[a.k + 1] = f * TAM_PAGINA + IF a.k + 1 = 1 THEN Desplazamiento(a) ELSE 0
  BY <1>1 DEF EnPagina, EnMarcos
<1>3. a.dfs[a.k + 1] = f * T + off
  BY <1>1, <1>2
<1>4. T \in Nat \ {0} /\ f \in Nat /\ CANT_FRAMES \in Nat /\ f + 1 <= CANT_FRAMES
  BY ConstantesAssumption DEF Marcos
<1>5. off \in Nat /\ r \in Nat \ {0} /\ off + r <= T
  BY TramoDeAcceso, PaginaNat
<1>6. Ultima(a) <=> a.hecho + Trozo(a) = a.tam
  BY TramoDeAcceso
<1> HIDE DEF off, T, r
<1>7. f * T \in Nat /\ f * T + T <= CANT_FRAMES * T
  <2>1. PICK e \in Nat : CANT_FRAMES = f + 1 + e
    BY <1>4
  <2>2. e * T \in Nat /\ f * T \in Nat /\ CANT_FRAMES * T = f * T + T + e * T
    BY <1>4, <2>1
  <2> QED
    BY <1>4, <2>2
<1>8. f * T + off \in 0 .. CANT_FRAMES * T - 1 /\ f * T + off + r - 1 \in 0 .. CANT_FRAMES * T - 1
  BY <1>4, <1>5, <1>7
<1>9. (f * T + off) \div T = f
  <2>1. off \in 0 .. T - 1
    BY <1>4, <1>5
  <2> QED
    BY <1>4, <2>1, DivDelMarco
<1>10. (f * T + off + r - 1) \div T = f
  <2>1. off + r - 1 \in 0 .. T - 1 /\ f * T + off + r - 1 = f * T + (off + r - 1)
    BY <1>4, <1>5, <1>7
  <2> QED
    BY <1>4, <2>1, DivDelMarco
<1> QED
  BY <1>3, <1>6, <1>8, <1>9, <1>10 DEF EnMemoria, Espacio, T, r

(* A further page is done.                                                 *)
LEMMA AvanzadoPagina ==
  ASSUME NEW a \in Accesos, EnPagina(a), ~Ultima(a), NEW s
  PROVE  /\ EnPagina(Avanzado(a, s)) /\ Avanzado(a, s).hecho = a.hecho + Trozo(a)
         /\ Avanzado(a, s).op = a.op /\ Avanzado(a, s).tam = a.tam
         /\ Avanzado(a, s).dato = a.dato \o s
<1> DEFINE b == Avanzado(a, s)
<1>1. /\ b.k = a.k + 1 /\ b.hecho = a.hecho + Trozo(a) /\ b.dato = a.dato \o s
      /\ b.op = a.op /\ b.tam = a.tam /\ b.dir = a.dir /\ b.dfs = a.dfs
  BY DEF Avanzado, Accesos
<1> HIDE DEF b
<1>2. Desplazamiento(b) = Desplazamiento(a) /\ CantPags(b) = CantPags(a)
  BY <1>1 DEF Desplazamiento, CantPags
<1>3. EnMarcos(b)
  BY <1>1, <1>2 DEF EnPagina, EnMarcos
<1>4. a.k \in Nat /\ Len(a.dfs) \in Nat
  BY DEF Accesos
<1>5. b.k < Len(b.dfs) /\ b.k # 0
  BY <1>1, <1>4 DEF EnPagina, Ultima
<1>6. b.hecho = b.k * TAM_PAGINA - Desplazamiento(b)
  BY <1>1, <1>2, TramoDeAcceso
<1>7. EnPagina(b)
  BY <1>1, <1>2, <1>3, <1>5, <1>6 DEF EnPagina
<1> QED
  BY <1>1, <1>7 DEF b

(* What is written are bytes, those of the data from what is done on.      *)
LEMMA EscritoTipo ==
  ASSUME NEW a \in Accesos, EnPagina(a), a.op = "PEGAR" => Len(a.dato) = a.tam,
         user_space \in [Espacio -> Bytes], NEW d \in Datos(a)
  PROVE  Escrito(a, d) \in [Espacio -> Bytes]
<1> DEFINE r == Trozo(a)
           h == a.hecho
           df == a.dfs[a.k + 1]
<1>1. h \in Nat /\ r \in Nat \ {0} /\ h + r <= a.tam /\ a.tam \in Nat
  BY TramoDeAcceso DEF Accesos
<1>2. df \in Nat
  <2>1. a.dfs \in Seq(Nat) /\ a.k + 1 \in 1 .. Len(a.dfs)
    BY DEF Accesos, EnPagina
  <2> QED
    BY <2>1
<1> HIDE DEF r, h, df
<1>3. \A j \in 1 .. r : d[j] \in Bytes
  <2>1. CASE a.op = "PEGAR"
    <3>1. d = SubSeq(a.dato, h + 1, h + r) /\ a.dato \in Seq(Bytes) /\ Len(a.dato) = a.tam
      BY <2>1 DEF Datos, Accesos, r, h
    <3>2. ASSUME NEW j \in 1 .. r PROVE d[j] \in Bytes
      <4>1. h + j \in 1 .. Len(a.dato)
        BY <1>1, <3>1
      <4>2. d[j] = a.dato[h + j]
        BY <1>1, <3>1, <4>1
      <4>3. \A m \in 1 .. Len(a.dato) : a.dato[m] \in Bytes
        BY <3>1
      <4> QED
        BY <4>1, <4>2, <4>3
    <3> QED
      BY <3>2
  <2>2. CASE a.op # "PEGAR"
    <3>1. d \in [1 .. r -> Bytes]
      BY <2>2 DEF Datos, r
    <3> QED
      BY <3>1
  <2> QED
    BY <2>1, <2>2
<1>4. ASSUME NEW x \in Espacio
      PROVE  (IF x - df \in 0 .. r - 1 THEN d[x - df + 1] ELSE user_space[x]) \in Bytes
  <2>1. x \in Int
    BY DEF Espacio
  <2>2. CASE x - df \in 0 .. r - 1
    <3>1. x - df + 1 \in 1 .. r
      BY <1>1, <1>2, <2>1, <2>2
    <3> QED
      BY <1>3, <2>2, <3>1
  <2> QED
    BY <2>2
<1> QED
  BY <1>4 DEF Escrito, r, df

LEMMA AccesosInit == Init => AccesosInv
<1> SUFFICES ASSUME Init PROVE AccesosInv
  OBVIOUS
<1>1. TlbMarcos
  BY VaciaTipo DEF Init, TlbMarcos
<1>2. CpuAcceso(cpu)
  BY LibreTipo DEF Init, CpuAcceso
<1>3. EsAcceso(es)
  BY DEF Init, EsAcceso
<1>4. RestoTipo
  BY ConstantesAssumption DEF Init, RestoTipo
<1> QED
  BY <1>1, <1>2, <1>3, <1>4 DEF AccesosInv

(* The CPU is free, or asks for pages: it has no access.                   *)
LEMMA SinAcceso ==
  ASSUME NEW c, c.pc \in {"libre", "amplia"}
  PROVE  CpuAcceso(c)
BY DEF CpuAcceso

(* The steps that start, end or leave alone the access of the CPU.         *)
LEMMA CpuAccesos ==
  ASSUME AccesosInv, UNCHANGED <<tlb, posicion>>,
         cpu' = cpu \/ cpu'.pc \in {"libre", "amplia"},
         EsAcceso(es)', caida' \in BOOLEAN, restan' \in Nat, user_space' \in [Espacio -> Bytes]
  PROVE  AccesosInv'
<1>1. TlbMarcos'
  BY DEF AccesosInv, TlbMarcos
<1>2. CpuAcceso(cpu')
  BY SinAcceso DEF AccesosInv
<1>3. RestoTipo'
  BY DEF AccesosInv, RestoTipo
<1> QED
  BY <1>1, <1>2, <1>3 DEF AccesosInv

LEMMA TablasAccesos ==
  ASSUME AccesosInv, NEW p \in Pids,
         \/ \E n \in 0 .. MAX_PAGS : Resize(p, n)
         \/ Eliminar(p) \/ AgregarPagina \/ FinResize
  PROVE  AccesosInv'
<1>1. UNCHANGED <<tlb, posicion, es, caida, user_space>>
  BY DEF Resize, Eliminar, AgregarPagina, FinResize, memoria, cacheVars
<1>2. EsAcceso(es)'
  BY <1>1 DEF AccesosInv, EsAcceso
<1>3. restan' \in Nat
  <2>1. ASSUME NEW n \in 0 .. MAX_PAGS, Resize(p, n) PROVE restan' \in Nat
    <3>1. restan > 0 /\ restan' = restan - 1
      BY <2>1 DEF Resize
    <3> QED
      BY <3>1 DEF AccesosInv, RestoTipo
  <2>2. CASE restan' = restan
    BY <2>2 DEF AccesosInv, RestoTipo
  <2> QED
    BY <2>1, <2>2 DEF Eliminar, AgregarPagina, FinResize
<1>4. cpu' = cpu \/ cpu'.pc \in {"libre", "amplia"}
  <2>1. ASSUME NEW n \in 0 .. MAX_PAGS, Resize(p, n)
        PROVE  cpu' = cpu \/ cpu'.pc \in {"libre", "amplia"}
    <3>1. cpu' = cpu \/ cpu' = [Libre EXCEPT !.pc = "amplia", !.pid = p, !.pags = n]
      BY <2>1 DEF Resize
    <3> QED
      BY <3>1, LibreTipo
  <2>2. CASE cpu' = Libre
    BY <2>2, LibreTipo
  <2> QED
    BY <2>1, <2>2 DEF Eliminar, AgregarPagina, FinResize, Dejar
<1>5. caida' \in BOOLEAN /\ user_space' \in [Espacio -> Bytes]
  BY <1>1 DEF AccesosInv, RestoTipo
<1> QED
  BY <1>1, <1>2, <1>3, <1>4, <1>5, CpuAccesos

LEMMA FallarAccesos ==
  ASSUME AccesosInv, SinPagina \/ LeerError
  PROVE  AccesosInv'
<1>1. UNCHANGED <<tlb, posicion, es, user_space, restan>> /\ Fallar
  BY DEF SinPagina, LeerError, memoria, cacheVars
<1>2. cpu'.pc = "libre" /\ caida' \in BOOLEAN
  <2>1. cpu' = Libre /\ (caida' = caida \/ caida' = TRUE)
    BY <1>1 DEF Fallar, Dejar
  <2> QED
    BY <2>1, LibreTipo DEF AccesosInv, RestoTipo
<1>3. EsAcceso(es)'
  BY <1>1 DEF AccesosInv, EsAcceso
<1>4. restan' \in Nat /\ user_space' \in [Espacio -> Bytes]
  BY <1>1 DEF AccesosInv, RestoTipo
<1> QED
  BY <1>1, <1>2, <1>3, <1>4, CpuAccesos

(* A new access has its pages to translate.                                *)
LEMMA AccesoNuevo ==
  ASSUME NEW op \in Operaciones \cup {"PEGAR"}, NEW dir \in Nat, NEW tam \in Nat \ {0}, NEW destino \in Nat,
         NEW dato \in Seq(Bytes), Len(dato) = IF op = "PEGAR" THEN tam ELSE 0
  PROVE  Traduciendo([Acceso(op, dir, tam, destino) EXCEPT !.dato = dato])
<1> DEFINE a == [Acceso(op, dir, tam, destino) EXCEPT !.dato = dato]
<1>1. /\ a \in Accesos /\ a.tam = tam /\ a.dfs = <<>> /\ a.k = 0 /\ a.hecho = 0
      /\ a.dato = dato /\ a.op = op
  <2>1. Acceso(op, dir, tam, destino) \in Accesos
    BY DEF Acceso, Accesos
  <2>2. a \in Accesos
    BY <2>1 DEF Accesos
  <2>3. /\ a.tam = tam /\ a.dfs = <<>> /\ a.k = 0 /\ a.hecho = 0
        /\ a.dato = dato /\ a.op = op
    BY DEF Acceso
  <2> QED
    BY <2>2, <2>3
<1> HIDE DEF a
<1>2. EnMarcos(a) /\ Len(a.dfs) = 0
  BY <1>1 DEF EnMarcos
<1>3. CantPags(a) \in Nat /\ CantPags(a) > 0
  BY <1>1, CantPagsCotas
<1>4. Traduciendo(a)
  BY <1>1, <1>2, <1>3 DEF Traduciendo
<1> QED
  BY <1>4 DEF a

LEMMA EjecutarAccesos ==
  ASSUME AccesosInv, NEW p \in Pids, NEW op \in Operaciones, NEW dir \in Nat,
         NEW tam \in Nat \ {0}, NEW destino \in Nat, Ejecutar(p, op, dir, tam, destino)
  PROVE  AccesosInv'
<1>1. UNCHANGED <<tlb, posicion, es, user_space, caida>> /\ restan' \in Nat
  BY DEF Ejecutar, memoria, cacheVars, AccesosInv, RestoTipo
<1>2. cpu' = [pc |-> "traduce", pid |-> p, pags |-> 0, acc |-> Acceso(op, dir, tam, destino)]
  BY LibreTipo DEF Ejecutar
<1>3. op # "PEGAR"
  BY ConstantesAssumption DEF DeCpu, DeLeer, DeEs
<1>4. Acceso(op, dir, tam, destino) = [Acceso(op, dir, tam, destino) EXCEPT !.dato = <<>>]
  BY DEF Acceso
<1>5. Traduciendo([Acceso(op, dir, tam, destino) EXCEPT !.dato = <<>>])
  <2>1. <<>> \in Seq(Bytes) /\ Len(<<>>) = IF op = "PEGAR" THEN tam ELSE 0
    BY <1>3
  <2> QED
    BY <2>1, AccesoNuevo
<1>6. Traduciendo(Acceso(op, dir, tam, destino))
  BY <1>4, <1>5
<1>7. CpuAcceso(cpu')
  BY <1>2, <1>6 DEF CpuAcceso
<1>8. TlbMarcos' /\ EsAcceso(es)' /\ RestoTipo'
  BY <1>1 DEF AccesosInv, TlbMarcos, EsAcceso, RestoTipo
<1> QED
  BY <1>7, <1>8 DEF AccesosInv

(* The address of one page more.                                           *)
LEMMA PaginaTraducida ==
  ASSUME NEW a \in Accesos, NEW f \in Marcos, Traduciendo(a),
         NEW b, b = [a EXCEPT !.dfs = Append(@, Fisica(a, f))]
  PROVE  /\ b.op = a.op /\ b.tam = a.tam /\ b.dato = a.dato /\ b.hecho = 0
         /\ IF Len(b.dfs) < CantPags(b) THEN Traduciendo(b) ELSE EnPagina(b)
<1>1. /\ b.op = a.op /\ b.tam = a.tam /\ b.dato = a.dato /\ b.k = a.k /\ b.hecho = a.hecho
      /\ b.dir = a.dir /\ b.dfs = Append(a.dfs, Fisica(a, f))
  BY DEF Accesos
<1>2. Desplazamiento(b) = Desplazamiento(a) /\ CantPags(b) = CantPags(a)
  BY <1>1 DEF Desplazamiento, CantPags
<1>3. f \in Nat /\ Fisica(a, f) \in Nat /\ a.dfs \in Seq(Nat) /\ Len(a.dfs) \in Nat
  <2>1. f \in Nat
    BY ConstantesAssumption DEF Marcos
  <2>2. a.dfs \in Seq(Nat)
    BY DEF Accesos
  <2>3. QED
    BY <2>1, <2>2, FisicaNat
<1>4. EnMarcos(b)
  <2> SUFFICES ASSUME NEW k \in DOMAIN b.dfs
               PROVE  \E g \in Marcos :
                        b.dfs[k] = g * TAM_PAGINA + IF k = 1 THEN Desplazamiento(a) ELSE 0
    BY <1>2 DEF EnMarcos
  <2>1. CASE k \in DOMAIN a.dfs
    <3>1. b.dfs[k] = a.dfs[k]
      BY <1>1, <1>3, <2>1
    <3> QED
      BY <2>1, <3>1 DEF Traduciendo, EnMarcos
  <2>2. CASE k \notin DOMAIN a.dfs
    <3>1. k = Len(a.dfs) + 1
      BY <1>1, <1>3, <2>2
    <3>2. b.dfs[k] = Fisica(a, f)
      BY <1>1, <1>3, <3>1
    <3>3. k = 1 <=> a.dfs = <<>>
      BY <1>3, <3>1
    <3> QED
      BY <3>2, <3>3 DEF Fisica
  <2> QED
    BY <2>1, <2>2
<1>5. Len(b.dfs) = Len(a.dfs) + 1
  BY <1>1, <1>3
<1>6. CantPags(a) \in Nat
  BY CantPagsCotas
<1> QED
  BY <1>1, <1>2, <1>3, <1>4, <1>5, <1>6 DEF Traduciendo, EnPagina

LEMMA TraducidaAccesos ==
  ASSUME EspacioInv, AccesosInv, cpu.pc = "traduce", NEW f \in Marcos, Traducida(f),
         TlbMarcos', UNCHANGED <<user_space, caida, restan>>, posicion' \in Entradas \cup {0}
  PROVE  AccesosInv'
<1> DEFINE a == cpu.acc
           b == [cpu.acc EXCEPT !.dfs = Append(@, Fisica(cpu.acc, f))]
<1>1. a \in Accesos /\ Traduciendo(a)
  BY DEF EspacioInv, CpuTipo, AccesosInv, CpuAcceso
<1>2. /\ b.op = a.op /\ b.tam = a.tam /\ b.dato = a.dato /\ b.hecho = 0
      /\ IF Len(b.dfs) < CantPags(b) THEN Traduciendo(b) ELSE EnPagina(b)
  <2>1. b = [a EXCEPT !.dfs = Append(@, Fisica(a, f))]
    OBVIOUS
  <2> HIDE DEF a, b
  <2> QED
    BY <1>1, <2>1, PaginaTraducida
<1>3. IF Len(b.dfs) < CantPags(b) THEN Traduciendo(b) ELSE EnPagina(b)
  BY <1>2
<1>4. Len(a.dato) = IF b.op = "PEGAR" THEN b.tam ELSE 0
  BY <1>1, <1>2 DEF Traduciendo
<1>5. IF Len(b.dfs) < CantPags(b)
      THEN cpu' = [cpu EXCEPT !.acc = b] /\ UNCHANGED es
      ELSE IF b.op \in DeEs
      THEN cpu' = Libre /\ es' = [es EXCEPT ![cpu.pid] = b]
      ELSE /\ cpu' = [cpu EXCEPT !.acc = b, !.pc = IF b.op \in DeLeer THEN "lee" ELSE "escribe"]
           /\ UNCHANGED es
  BY DEF Traducida
<1> HIDE DEF a, b
<1>6. RestoTipo'
  BY DEF AccesosInv, RestoTipo
<1>7. CASE Len(b.dfs) < CantPags(b)
  <2>1. cpu'.pc = "traduce" /\ cpu'.acc = b
    BY <1>5, <1>7 DEF EspacioInv, CpuTipo
  <2>2. CpuAcceso(cpu')
    BY <1>3, <1>7, <2>1 DEF CpuAcceso
  <2>3. EsAcceso(es)'
    BY <1>5, <1>7 DEF AccesosInv, EsAcceso
  <2> QED
    BY <1>6, <2>2, <2>3 DEF AccesosInv
<1>8. CASE ~(Len(b.dfs) < CantPags(b)) /\ b.op \in DeEs
  <2>1. cpu' = Libre /\ es' = [es EXCEPT ![cpu.pid] = b]
    BY <1>5, <1>8
  <2>2. CpuAcceso(cpu')
    BY <2>1, LibreTipo, SinAcceso
  <2>3. EsAcceso(es)'
    BY <1>3, <1>8, <2>1 DEF AccesosInv, EsAcceso, EspacioInv, EsTipo
  <2> QED
    BY <1>6, <2>2, <2>3 DEF AccesosInv
<1>9. CASE ~(Len(b.dfs) < CantPags(b)) /\ b.op \notin DeEs
  <2>1. cpu'.pc = (IF b.op \in DeLeer THEN "lee" ELSE "escribe") /\ cpu'.acc = b /\ es' = es
    BY <1>5, <1>9 DEF EspacioInv, CpuTipo
  <2>2. CpuAcceso(cpu')
    BY <1>2, <1>3, <1>4, <1>9, <2>1 DEF CpuAcceso, DeLeer
  <2>3. EsAcceso(es)'
    BY <2>1 DEF AccesosInv, EsAcceso
  <2> QED
    BY <1>6, <2>2, <2>3 DEF AccesosInv
<1> QED
  BY <1>7, <1>8, <1>9

LEMMA TlbHitAccesos ==
  ASSUME EspacioInv, AccesosInv, TlbHit
  PROVE  AccesosInv'
<1>1. UNCHANGED <<user_space, caida, restan>> /\ cpu.pc = "traduce"
  BY DEF TlbHit, memoria
<1>2. PICK i \in Entradas : /\ Es(tlb[i], cpu.pid, Pagina(cpu.acc))
                            /\ Traducida(tlb[i].marco) /\ BuscarTlb(i)
  BY DEF TlbHit, Halladas
<1>3. tlb[i].pid # NADIE
  BY <1>1, <1>2 DEF Es, EspacioInv, CpuTipo
<1>4. tlb[i].marco \in Marcos
  BY <1>3 DEF AccesosInv, TlbMarcos
<1>5. \A j \in Entradas : tlb'[j].pid = tlb[j].pid /\ tlb'[j].marco = tlb[j].marco
  <2>1. tlb' = tlb \/ tlb' = [tlb EXCEPT ![i].last_used = contador_global]
    BY <1>2 DEF BuscarTlb
  <2> QED
    BY <2>1 DEF EspacioInv, TlbTipo
<1>6. TlbMarcos'
  BY <1>5 DEF AccesosInv, TlbMarcos
<1>7. posicion' \in Entradas \cup {0}
  BY <1>2 DEF BuscarTlb, AccesosInv, RestoTipo
<1> QED
  BY <1>1, <1>2, <1>4, <1>6, <1>7, TraducidaAccesos

LEMMA TlbMissAccesos ==
  ASSUME EspacioInv, AccesosInv, TlbMiss
  PROVE  AccesosInv'
<1> DEFINE n == Pagina(cpu.acc)
           f == tabla[cpu.pid][Pagina(cpu.acc) + 1]
<1>1. /\ UNCHANGED <<user_space, caida, restan>> /\ cpu.pc = "traduce"
      /\ n < Len(tabla[cpu.pid]) /\ Traducida(f) /\ ActualizarTlb(cpu.pid, n, f)
  BY DEF TlbMiss, memoria
<1>2. cpu.pid \in Pids /\ n \in Nat
  BY <1>1, PaginaNat DEF EspacioInv, CpuTipo
<1>3. f \in Marcos
  <2>1. tabla[cpu.pid] \in Seq(Marcos) /\ n + 1 \in 1 .. Len(tabla[cpu.pid])
    BY <1>1, <1>2 DEF EspacioInv, TablaTipo
  <2> QED
    BY <2>1
<1> HIDE DEF n, f
<1>4. Nueva(cpu.pid, n, f).marco = f
  BY DEF Nueva
<1>5. \/ tlb' = tlb
      \/ \E v \in Entradas : tlb' = [tlb EXCEPT ![v] = Nueva(cpu.pid, n, f)]
  BY <1>1 DEF ActualizarTlb
<1>6. \A j \in Entradas : tlb'[j] = tlb[j] \/ tlb'[j] = Nueva(cpu.pid, n, f)
  BY <1>5 DEF EspacioInv, TlbTipo
<1>7. TlbMarcos'
  BY <1>3, <1>4, <1>6 DEF AccesosInv, TlbMarcos
<1>8. posicion' \in Entradas \cup {0}
  <2>1. CASE posicion' = posicion
    BY <2>1 DEF AccesosInv, RestoTipo
  <2>2. CASE posicion' = (posicion + 1) % CANTIDAD_ENTRADAS_TLB /\ CANTIDAD_ENTRADAS_TLB # 0
    <3>1. posicion + 1 \in Nat /\ CANTIDAD_ENTRADAS_TLB \in Nat \ {0}
      BY <2>2, ConstantesAssumption DEF AccesosInv, RestoTipo, Entradas
    <3>2. (posicion + 1) % CANTIDAD_ENTRADAS_TLB \in 0 .. CANTIDAD_ENTRADAS_TLB - 1
      BY <3>1, DivCotas
    <3> QED
      BY <2>2, <3>2 DEF Entradas
  <2> QED
    BY <1>1, <2>1, <2>2 DEF ActualizarTlb
<1> QED
  BY <1>1, <1>3, <1>7, <1>8, TraducidaAccesos

LEMMA RecibidosLargo ==
  ASSUME NEW a \in Accesos, EnPagina(a), NEW r \in Recibidos(Leido(a))
  PROVE  r \in Seq(Bytes) /\ Len(r) = Trozo(a)
<1>1. r \in [1 .. Trozo(a) -> Bytes]
  BY DEF Recibidos, Leido
<1>2. Trozo(a) \in Nat
  BY TramoDeAcceso
<1> QED
  BY <1>1, <1>2, RecibidosSeq

LEMMA LeerAccesos ==
  ASSUME EspacioInv, AccesosInv, Leer
  PROVE  AccesosInv'
<1> DEFINE a == cpu.acc
<1>1. UNCHANGED <<tlb, posicion, es, user_space, caida, restan>> /\ cpu.pc = "lee"
  BY DEF Leer, memoria, cacheVars
<1>2. /\ a \in Accesos /\ EnPagina(a) /\ a.op \in DeLeer
      /\ a.op = "COPY_STRING" => Len(a.dato) = a.hecho
  BY <1>1 DEF EspacioInv, CpuTipo, AccesosInv, CpuAcceso
<1>3. PICK r \in Recibidos(Leido(a)) :
        cpu' = IF ~Ultima(a)
               THEN [cpu EXCEPT !.acc = Avanzado(a, IF a.op = "MOV_IN" THEN <<>> ELSE r)]
               ELSE IF a.op = "MOV_IN" THEN Libre
               ELSE [cpu EXCEPT !.pc = "traduce",
                       !.acc = [Acceso("PEGAR", a.destino, a.tam, 0)
                                  EXCEPT !.dato = a.dato \o r]]
  BY DEF Leer
<1> HIDE DEF a
<1>4. r \in Seq(Bytes) /\ Len(r) = Trozo(a)
  BY <1>2, RecibidosLargo
<1>5. /\ a.dato \in Seq(Bytes) /\ a.tam \in Nat \ {0} /\ a.destino \in Nat
      /\ a.dato \o r \in Seq(Bytes) /\ Len(a.dato \o r) = Len(a.dato) + Len(r)
  <2>1. a.dato \in Seq(Bytes) /\ a.tam \in Nat \ {0} /\ a.destino \in Nat
    BY <1>2 DEF Accesos, EnPagina
  <2>2. a.dato \o r \in Seq(Bytes) /\ Len(a.dato \o r) = Len(a.dato) + Len(r)
    BY <1>4, <2>1
  <2> QED
    BY <2>1, <2>2
<1>6. TlbMarcos' /\ EsAcceso(es)' /\ RestoTipo'
  BY <1>1 DEF AccesosInv, TlbMarcos, EsAcceso, RestoTipo
<1>7. CASE ~Ultima(a)
  <2> DEFINE s == IF a.op = "MOV_IN" THEN <<>> ELSE r
  <2>1. cpu'.pc = "lee" /\ cpu'.acc = Avanzado(a, s)
    BY <1>1, <1>3, <1>7 DEF EspacioInv, CpuTipo
  <2>2. a.op = "COPY_STRING" => s = r
    OBVIOUS
  <2> HIDE DEF s
  <2>3. /\ EnPagina(Avanzado(a, s)) /\ Avanzado(a, s).op = a.op
        /\ Avanzado(a, s).hecho = a.hecho + Trozo(a) /\ Avanzado(a, s).dato = a.dato \o s
    BY <1>2, <1>7, AvanzadoPagina
  <2>4. a.op = "COPY_STRING" => Len(a.dato \o s) = a.hecho + Trozo(a)
    BY <1>2, <1>4, <1>5, <2>2
  <2>5. CpuAcceso(cpu')
    BY <1>2, <2>1, <2>3, <2>4 DEF CpuAcceso
  <2> QED
    BY <1>6, <2>5 DEF AccesosInv
<1>8. CASE Ultima(a) /\ a.op = "MOV_IN"
  BY <1>3, <1>6, <1>8, LibreTipo, SinAcceso DEF AccesosInv
<1>9. CASE Ultima(a) /\ a.op # "MOV_IN"
  <2> DEFINE b == [Acceso("PEGAR", a.destino, a.tam, 0) EXCEPT !.dato = a.dato \o r]
  <2>1. cpu'.pc = "traduce" /\ cpu'.acc = b
    BY <1>3, <1>9 DEF EspacioInv, CpuTipo
  <2>2. Len(a.dato \o r) = a.tam
    BY <1>2, <1>4, <1>5, <1>9, TramoDeAcceso DEF DeLeer
  <2>3. Traduciendo(b)
    BY <1>5, <2>2, AccesoNuevo
  <2> HIDE DEF b
  <2>4. CpuAcceso(cpu')
    BY <2>1, <2>3 DEF CpuAcceso
  <2> QED
    BY <1>6, <2>4 DEF AccesosInv
<1> QED
  BY <1>7, <1>8, <1>9

LEMMA EscribirAccesos ==
  ASSUME EspacioInv, AccesosInv, Escribir
  PROVE  AccesosInv'
<1> DEFINE a == cpu.acc
<1>1. /\ UNCHANGED <<tlb, posicion, es, caida, restan>> /\ cpu.pc = "escribe"
      /\ user_space \in [Espacio -> Bytes]
  BY DEF Escribir, cacheVars, AccesosInv, RestoTipo
<1>2. a \in Accesos /\ EnPagina(a) /\ (a.op = "PEGAR" => Len(a.dato) = a.tam)
  BY <1>1 DEF EspacioInv, CpuTipo, AccesosInv, CpuAcceso
<1>3. PICK d \in Datos(a) : user_space' = Escrito(a, d)
  BY DEF Escribir
<1>4. cpu' = IF Ultima(a) THEN Libre ELSE [cpu EXCEPT !.acc = Avanzado(a, <<>>)]
  BY DEF Escribir
<1> HIDE DEF a
<1>5. user_space' \in [Espacio -> Bytes]
  BY <1>1, <1>2, <1>3, EscritoTipo
<1>6. TlbMarcos' /\ EsAcceso(es)' /\ RestoTipo'
  BY <1>1, <1>5 DEF AccesosInv, TlbMarcos, EsAcceso, RestoTipo
<1>7. CASE Ultima(a)
  BY <1>4, <1>6, <1>7, LibreTipo, SinAcceso DEF AccesosInv
<1>8. CASE ~Ultima(a)
  <2>1. cpu'.pc = "escribe" /\ cpu'.acc = Avanzado(a, <<>>)
    BY <1>1, <1>4, <1>8 DEF EspacioInv, CpuTipo
  <2>2. /\ EnPagina(Avanzado(a, <<>>)) /\ Avanzado(a, <<>>).op = a.op
        /\ Avanzado(a, <<>>).tam = a.tam /\ Avanzado(a, <<>>).dato = a.dato \o <<>>
    BY <1>2, <1>8, AvanzadoPagina
  <2>3. a.dato \o <<>> = a.dato
    BY <1>2 DEF Accesos
  <2>4. CpuAcceso(cpu')
    BY <1>2, <2>1, <2>2, <2>3 DEF CpuAcceso
  <2> QED
    BY <1>6, <2>4 DEF AccesosInv
<1> QED
  BY <1>7, <1>8

LEMMA EsAccesos ==
  ASSUME EspacioInv, AccesosInv, NEW p \in Pids, EsLee(p) \/ EsEscribe(p)
  PROVE  AccesosInv'
<1> DEFINE a == es[p]
<1>1. UNCHANGED <<tlb, posicion, cpu, caida, restan>> /\ a # NADIE
  BY DEF EsLee, EsEscribe, memoria, cacheVars
<1>2. a \in Accesos /\ EnPagina(a)
  BY <1>1 DEF EspacioInv, EsTipo, AccesosInv, EsAcceso
<1>3. \/ es' = [es EXCEPT ![p] = NADIE]
      \/ ~Ultima(a) /\ es' = [es EXCEPT ![p] = Avanzado(a, <<>>)]
  BY DEF EsLee, EsEscribe, Seguir
<1>4. user_space' \in [Espacio -> Bytes]
  <2>1. CASE EsLee(p)
    BY <2>1 DEF EsLee, memoria, AccesosInv, RestoTipo
  <2>2. CASE EsEscribe(p)
    <3>1. PICK d \in Datos(a) : user_space' = Escrito(a, d)
      BY <2>2 DEF EsEscribe
    <3>2. a.op # "PEGAR" /\ user_space \in [Espacio -> Bytes]
      BY <2>2 DEF EsEscribe, AccesosInv, RestoTipo
    <3> HIDE DEF a
    <3> QED
      BY <1>2, <3>1, <3>2, EscritoTipo
  <2> QED
    BY <2>1, <2>2
<1> HIDE DEF a
<1>5. ~Ultima(a) => EnPagina(Avanzado(a, <<>>))
  BY <1>2, AvanzadoPagina
<1>6. EsAcceso(es)'
  BY <1>3, <1>5 DEF AccesosInv, EsAcceso, EspacioInv, EsTipo
<1>7. TlbMarcos' /\ CpuAcceso(cpu') /\ RestoTipo'
  BY <1>1, <1>4 DEF AccesosInv, TlbMarcos, RestoTipo
<1> QED
  BY <1>6, <1>7 DEF AccesosInv

LEMMA AccesosNext == EspacioInv /\ AccesosInv /\ [Next]_vars => AccesosInv'
<1> SUFFICES ASSUME EspacioInv, AccesosInv, [Next]_vars PROVE AccesosInv'
  OBVIOUS
<1>1. ASSUME NEW p \in Pids, Instruccion(p) PROVE AccesosInv'
  <2>1. ASSUME NEW n \in 0 .. MAX_PAGS, Resize(p, n) PROVE AccesosInv'
    BY <2>1, TablasAccesos
  <2>2. ASSUME NEW op \in Operaciones, NEW dir \in Direcciones, NEW tam \in Tamanios,
               NEW destino \in Direcciones \cup {0}, Ejecutar(p, op, dir, tam, destino)
        PROVE  AccesosInv'
    <3>1. dir \in Nat /\ tam \in Nat \ {0} /\ destino \in Nat
      BY ConstantesAssumption
    <3> QED
      BY <2>2, <3>1, EjecutarAccesos
  <2> QED
    BY <1>1, <2>1, <2>2 DEF Instruccion
<1>2. CASE UNCHANGED vars
  <2>1. UNCHANGED <<tlb, posicion, cpu, es, caida, restan, user_space>>
    BY <1>2 DEF vars, memoria, cacheVars
  <2>2. TlbMarcos' /\ CpuAcceso(cpu') /\ EsAcceso(es)' /\ RestoTipo'
    BY <2>1 DEF AccesosInv, TlbMarcos, EsAcceso, RestoTipo
  <2> QED
    BY <2>2 DEF AccesosInv
<1>3. ASSUME NEW p \in Pids, Eliminar(p) \/ AgregarPagina \/ FinResize PROVE AccesosInv'
  BY <1>3, TablasAccesos
<1>4. CASE AgregarPagina \/ FinResize
  <2>1. cpu.pid \in Pids
    BY <1>4, NadieNoEs DEF AgregarPagina, FinResize, EspacioInv, CpuTipo
  <2> QED
    BY <1>3, <1>4, <2>1
<1> QED
  BY <1>1, <1>2, <1>3, <1>4, FallarAccesos, TlbHitAccesos, TlbMissAccesos,
     LeerAccesos, EscribirAccesos, EsAccesos DEF Next

-----------------------------------------------------------------------------
(* A frame is in one page table, once.                                     *)

MarcosPropios ==
  \A p, q \in Pids : \A g \in DOMAIN tabla[p], h \in DOMAIN tabla[q] :
    tabla[p][g] = tabla[q][h] => p = q /\ g = h

LEMMA MarcosPropiosInit == Init => MarcosPropios
BY DEF Init, MarcosPropios

(* What a step leaves of a page table, page by page.                       *)
LEMMA MarcosPropiosNext ==
  ASSUME EspacioInv, MarcosPropios, [Next]_vars
  PROVE  /\ MarcosPropios'
         /\ \A p \in Pids : \A g \in DOMAIN tabla[p] \cap DOMAIN tabla'[p] :
              tabla'[p][g] = tabla[p][g]
<1>1. tabla \in [Pids -> Seq(Marcos)]
  BY DEF EspacioInv, TablaTipo
<1>2. ASSUME tabla' = tabla
      PROVE  /\ MarcosPropios'
             /\ \A p \in Pids : \A g \in DOMAIN tabla[p] \cap DOMAIN tabla'[p] :
                  tabla'[p][g] = tabla[p][g]
  BY <1>2 DEF MarcosPropios
<1>3. ASSUME NEW p \in Pids, NEW s \in Seq(Marcos), tabla' = [tabla EXCEPT ![p] = s],
             \A g \in DOMAIN s : g \in DOMAIN tabla[p] /\ s[g] = tabla[p][g]
      PROVE  /\ MarcosPropios'
             /\ \A q \in Pids : \A g \in DOMAIN tabla[q] \cap DOMAIN tabla'[q] :
                  tabla'[q][g] = tabla[q][g]
  <2>1. \A q \in Pids : \A g \in DOMAIN tabla'[q] :
          g \in DOMAIN tabla[q] /\ tabla'[q][g] = tabla[q][g]
    BY <1>1, <1>3
  <2> QED
    BY <2>1 DEF MarcosPropios
<1>4. ASSUME NEW p \in Pids, NEW n \in 0 .. MAX_PAGS, Resize(p, n)
      PROVE  tabla' = tabla \/ (n < Len(tabla[p]) /\ tabla' = [tabla EXCEPT ![p] = SubSeq(@, 1, n)])
  BY <1>4 DEF Resize
<1>5. ASSUME NEW p \in Pids, NEW n \in 0 .. MAX_PAGS, n < Len(tabla[p]),
             tabla' = [tabla EXCEPT ![p] = SubSeq(@, 1, n)]
      PROVE  /\ MarcosPropios'
             /\ \A q \in Pids : \A g \in DOMAIN tabla[q] \cap DOMAIN tabla'[q] :
                  tabla'[q][g] = tabla[q][g]
  <2>1. tabla[p] \in Seq(Marcos) /\ n \in Nat /\ Len(tabla[p]) \in Nat
    BY <1>1, ConstantesAssumption
  <2> DEFINE s == SubSeq(tabla[p], 1, n)
  <2>2. s \in Seq(Marcos) /\ DOMAIN s = 1 .. n /\ \A g \in 1 .. n : s[g] = tabla[p][g]
    BY <1>5, <2>1
  <2>3. \A g \in DOMAIN s : g \in DOMAIN tabla[p] /\ s[g] = tabla[p][g]
    BY <1>5, <2>1, <2>2
  <2>4. tabla' = [tabla EXCEPT ![p] = s]
    BY <1>5
  <2> HIDE DEF s
  <2> QED
    BY <1>3, <2>2, <2>3, <2>4
<1>6. ASSUME NEW p \in Pids, tabla' = [tabla EXCEPT ![p] = <<>>]
      PROVE  /\ MarcosPropios'
             /\ \A q \in Pids : \A g \in DOMAIN tabla[q] \cap DOMAIN tabla'[q] :
                  tabla'[q][g] = tabla[q][g]
  <2>1. <<>> \in Seq(Marcos) /\ DOMAIN <<>> = {}
    OBVIOUS
  <2> QED
    BY <1>3, <1>6, <2>1
<1>7. CASE AgregarPagina
  <2> DEFINE p == cpu.pid
  <2>1. PICK f \in MarcosLibres : tabla' = [tabla EXCEPT ![p] = Append(@, f)]
    BY <1>7 DEF AgregarPagina, EsPrimeroLibre
  <2>2. p \in Pids
    BY <1>7, NadieNoEs DEF AgregarPagina, EspacioInv, CpuTipo
  <2>3. f \in Marcos /\ \A q \in Pids : f \notin ToSet(tabla[q])
    BY <2>1 DEF MarcosLibres
  <2>4. \A q \in Pids : \A g \in DOMAIN tabla[q] : tabla[q][g] # f
    BY <2>3 DEF ToSet
  <2> HIDE DEF p
  <2>5. \A q \in Pids : q # p => tabla'[q] = tabla[q]
    BY <1>1, <2>1, <2>2
  <2>6. /\ tabla'[p] = Append(tabla[p], f)
        /\ tabla[p] \in Seq(Marcos) /\ Len(tabla[p]) \in Nat
    BY <1>1, <2>1, <2>2
  <2>7. /\ DOMAIN tabla'[p] = DOMAIN tabla[p] \cup {Len(tabla[p]) + 1}
        /\ Len(tabla[p]) + 1 \notin DOMAIN tabla[p]
        /\ tabla'[p][Len(tabla[p]) + 1] = f
        /\ \A g \in DOMAIN tabla[p] : tabla'[p][g] = tabla[p][g]
    BY <2>3, <2>6
  <2>8. MarcosPropios'
    <3> SUFFICES ASSUME NEW q \in Pids, NEW r \in Pids, NEW g \in DOMAIN tabla'[q],
                        NEW h \in DOMAIN tabla'[r], tabla'[q][g] = tabla'[r][h]
                 PROVE  q = r /\ g = h
      BY DEF MarcosPropios
    <3>1. (q = p /\ g = Len(tabla[p]) + 1) \/ (g \in DOMAIN tabla[q] /\ tabla'[q][g] = tabla[q][g])
      BY <2>5, <2>7
    <3>2. (r = p /\ h = Len(tabla[p]) + 1) \/ (h \in DOMAIN tabla[r] /\ tabla'[r][h] = tabla[r][h])
      BY <2>5, <2>7
    <3> QED
      BY <2>4, <2>7, <3>1, <3>2 DEF MarcosPropios
  <2>9. \A q \in Pids : \A g \in DOMAIN tabla[q] \cap DOMAIN tabla'[q] : tabla'[q][g] = tabla[q][g]
    BY <2>5, <2>7
  <2> QED
    BY <2>8, <2>9
<1>8. CASE tabla' = tabla
  BY <1>2, <1>8
<1>9. \/ tabla' = tabla
      \/ \E p \in Pids : tabla' = [tabla EXCEPT ![p] = <<>>]
      \/ AgregarPagina
      \/ \E p \in Pids, n \in 0 .. MAX_PAGS : Resize(p, n)
  BY DEF Next, vars, memoria, cacheVars, Instruccion, Ejecutar, Eliminar, EsLee, EsEscribe,
         FinResize, TlbHit, TlbMiss, SinPagina, Leer, LeerError, Escribir
<1> QED
  BY <1>4, <1>5, <1>6, <1>7, <1>8, <1>9

(* An access writes into no page of another process, if its addresses are  *)
(* the ones of its own pages.                                              *)
LEMMA EscritoAjeno ==
  ASSUME EspacioInv, MarcosPropios, NEW p \in Pids, NEW q \in Pids, p # q,
         NEW a \in Accesos, EnPagina(a), Vigente(q, a), NEW d,
         user_space' = Escrito(a, d), tabla' = tabla, NEW g \in DOMAIN tabla[p]
  PROVE  Contenido(p, g)' = Contenido(p, g)
<1> DEFINE T == TAM_PAGINA
           off == IF a.k = 0 THEN Desplazamiento(a) ELSE 0
           h == a.dir \div TAM_PAGINA + (a.k + 1)
           e == tabla[q][h]
           f == tabla[p][g]
           r == Trozo(a)
<1>1. tabla[p] \in Seq(Marcos) /\ tabla[q] \in Seq(Marcos)
  BY DEF EspacioInv, TablaTipo
<1>2. a.k \in Nat /\ a.dfs \in Seq(Nat) /\ a.k + 1 \in DOMAIN a.dfs /\ a.dir \div TAM_PAGINA \in Nat
  BY PaginaNat DEF Accesos, EnPagina
<1>3. h <= Len(tabla[q]) /\ a.dfs[a.k + 1] = e * T + IF a.k + 1 = 1 THEN Desplazamiento(a) ELSE 0
  BY <1>2 DEF Vigente
<1>4. h \in DOMAIN tabla[q] /\ a.dfs[a.k + 1] = e * T + off
  BY <1>1, <1>2, <1>3
<1>5. e # f
  BY <1>4 DEF MarcosPropios
<1>6. e \in Marcos /\ f \in Marcos
  BY <1>1, <1>4
<1>7. e \in 0 .. CANT_FRAMES - 1 /\ f \in 0 .. CANT_FRAMES - 1 /\ CANT_FRAMES \in Nat /\ T \in Nat \ {0}
  BY <1>6, ConstantesAssumption DEF Marcos
<1>8. off \in Nat /\ r \in Nat \ {0} /\ off + r <= T
  BY TramoDeAcceso, PaginaNat
<1> HIDE DEF T, off, h, e, f, r
<1>9. ASSUME NEW x \in 0 .. T - 1
      PROVE  user_space'[f * T + x] = user_space[f * T + x]
  <2>1. f * T + x \in 0 .. CANT_FRAMES * T - 1
    <3>1. PICK u \in Nat : CANT_FRAMES = f + 1 + u
      BY <1>7
    <3>2. u * T \in Nat /\ f * T \in Nat /\ CANT_FRAMES * T = f * T + T + u * T
      BY <1>7, <3>1
    <3> QED
      BY <1>7, <3>2
  <2>2. (f * T + x) - (e * T + off) \notin 0 .. r - 1
    <3> SUFFICES ASSUME (f * T + x) - (e * T + off) \in 0 .. r - 1 PROVE FALSE
      OBVIOUS
    <3>1. f * T \in Nat /\ e * T \in Nat
      BY <1>7
    <3>2. PICK s \in 0 .. r - 1 : (f * T + x) - (e * T + off) = s
      OBVIOUS
    <3>3. off + s \in 0 .. T - 1 /\ f * T + x = e * T + (off + s)
      BY <1>7, <1>8, <3>1, <3>2
    <3> QED
      BY <1>5, <1>7, <3>3, MarcosSeparados
  <2>3. \A y \in Espacio : y - a.dfs[a.k + 1] \notin 0 .. r - 1 => user_space'[y] = user_space[y]
    BY DEF Escrito, r
  <2> DEFINE y == f * T + x
  <2>4. y \in Espacio /\ y - a.dfs[a.k + 1] \notin 0 .. r - 1
    <3>1. Espacio = 0 .. CANT_FRAMES * T - 1
      BY DEF Espacio, T
    <3>2. a.dfs[a.k + 1] = e * T + off
      BY <1>4
    <3> HIDE DEF y
    <3>3. y \in Espacio
      BY <2>1, <3>1 DEF y
    <3>4. y - (e * T + off) \notin 0 .. r - 1
      BY <2>2 DEF y
    <3> QED
      BY <3>2, <3>3, <3>4
  <2> HIDE DEF y
  <2>5. user_space'[y] = user_space[y]
    BY <2>3, <2>4
  <2> QED
    BY <2>5 DEF y
<1> QED
  BY <1>9 DEF Contenido, T, f

LEMMA PasoPropio ==
  ASSUME EspacioInv, AccesosInv, MarcosPropios, [Next]_vars,
         NEW p \in Pids, NEW g \in DOMAIN tabla[p] \cap DOMAIN tabla'[p],
         Contenido(p, g)' # Contenido(p, g)
  PROVE  \E q \in {p} \cup (Pids \ Fiables) : EnCurso(q)' # EnCurso(q)
<1>1. tabla'[p][g] = tabla[p][g]
  BY MarcosPropiosNext
<1>2. user_space' # user_space
  BY <1>1 DEF Contenido
<1>3. Escribir \/ \E q \in Pids : EsEscribe(q)
  BY <1>2 DEF Next, vars, memoria, cacheVars, Instruccion, Resize, Ejecutar, Eliminar, EsLee,
         AgregarPagina, FinResize, TlbHit, TlbMiss, SinPagina, Leer, LeerError
<1>4. CASE Escribir
  <2>1. PICK a : a = cpu.acc
    OBVIOUS
  <2>2. PICK q : q = cpu.pid
    OBVIOUS
  <2>3. tabla' = tabla /\ cpu.pc = "escribe" /\ \E d \in Datos(a) : user_space' = Escrito(a, d)
    BY <1>4, <2>1 DEF Escribir
  <2>4. q \in Pids /\ a \in Accesos /\ EnPagina(a)
    BY <2>1, <2>2, <2>3, NadieNoEs DEF EspacioInv, CpuTipo, AccesosInv, CpuAcceso
  <2>5. q \in Fiables => Vigente(q, a)
    BY <2>1, <2>2 DEF EspacioInv, DireccionesVigentes
  <2>6. q = p \/ q \notin Fiables
    BY <2>3, <2>4, <2>5, EscritoAjeno
  <2>7. cpu' # cpu /\ Libre # cpu
    <3>1. Libre.pc # cpu.pc
      BY <2>3, LibreTipo
    <3>2. CASE cpu' = [cpu EXCEPT !.acc = Avanzado(cpu.acc, <<>>)]
      <4>1. cpu'.acc.k = a.k + 1 /\ a.k \in Nat
        BY <2>1, <2>4, <3>2 DEF Avanzado, Accesos, EspacioInv, CpuTipo
      <4>2. cpu'.acc.k # cpu.acc.k
        BY <2>1, <4>1
      <4> QED
        BY <3>1, <4>2
    <3>3. CASE cpu' = Libre
      BY <3>1, <3>3
    <3> QED
      BY <1>4, <3>2, <3>3 DEF Escribir
  <2>8. EnCurso(q)[1] = cpu /\ EnCurso(q)'[1] \in {cpu', Libre}
    BY <2>2 DEF EnCurso
  <2>9. EnCurso(q)' # EnCurso(q)
    <3>1. Libre' = Libre
      BY DEF Libre, Ninguno, Acceso
    <3> QED
      BY <2>7, <2>8, <3>1
  <2> QED
    BY <2>4, <2>6, <2>9
<1>5. ASSUME NEW q \in Pids, EsEscribe(q)
      PROVE  \E x \in {p} \cup (Pids \ Fiables) : EnCurso(x)' # EnCurso(x)
  <2> DEFINE a == es[q]
  <2>1. /\ tabla' = tabla /\ a # NADIE /\ \E d \in Datos(a) : user_space' = Escrito(a, d)
        /\ es' = [es EXCEPT ![q] = NADIE] \/ es' = [es EXCEPT ![q] = Avanzado(a, <<>>)]
    BY <1>5 DEF EsEscribe, Seguir
  <2>2. a \in Accesos /\ EnPagina(a)
    BY <2>1 DEF EspacioInv, EsTipo, AccesosInv, EsAcceso
  <2>3. q \in Fiables => Vigente(q, a)
    BY <2>1 DEF EspacioInv, DireccionesVigentes
  <2>4. EnCurso(q)[2] = a /\ EnCurso(q)'[2] = es'[q]
    BY DEF EnCurso
  <2> HIDE DEF a
  <2>5. Avanzado(a, <<>>).k = a.k + 1 /\ a.k \in Nat
    BY <2>2 DEF Avanzado, Accesos
  <2>6. es'[q] # a
    BY <2>1, <2>5 DEF EspacioInv, EsTipo
  <2>7. q = p \/ q \notin Fiables
    BY <2>1, <2>2, <2>3, EscritoAjeno
  <2> QED
    BY <2>4, <2>6, <2>7
<1> QED
  BY <1>3, <1>4, <1>5

-----------------------------------------------------------------------------
LEMMA AccesosTipo == EspacioInv /\ AccesosInv => TypeOK
BY DEF EspacioInv, AccesosInv, TablaTipo, TlbTipo, CpuTipo, EsTipo, EstadoTipo, RestoTipo,
       TypeOK, TipoTraduccion

LEMMA AccesosSiempre == Spec => [](EspacioInv /\ AccesosInv /\ MarcosPropios)
<1>1. EspacioInv /\ AccesosInv /\ MarcosPropios /\ [Next]_vars
        => (EspacioInv /\ AccesosInv /\ MarcosPropios)'
  BY EspacioNext, AccesosNext, MarcosPropiosNext
<1> QED
  BY <1>1, EspacioInit, AccesosInit, MarcosPropiosInit, PTL DEF Spec

(* Every variable keeps its type; a byte of the user space stays a byte    *)
(* because COPY_STRING has as many bytes as it writes.                     *)
THEOREM TiposDeEspacio == Spec => []TypeOK
<1> QED
  BY AccesosSiempre, AccesosTipo, PTL

(* Each read or write that the CPU or an IO program asks for lies in one   *)
(* frame of the memory, and the last one is the one that completes it, for *)
(* any addresses, sizes and pages, also when the address is stale.         *)
THEOREM EnUnMarcoSiempre == Spec => []EnUnMarco
<1>1. EspacioInv /\ AccesosInv => EnUnMarco
  <2> SUFFICES ASSUME EspacioInv, AccesosInv PROVE EnUnMarco
    OBVIOUS
  <2>1. cpu.pc \in {"lee", "escribe"} => cpu.acc \in Accesos /\ EnPagina(cpu.acc)
    BY DEF EspacioInv, CpuTipo, AccesosInv, CpuAcceso
  <2>2. \A p \in Pids : es[p] # NADIE => es[p] \in Accesos /\ EnPagina(es[p])
    BY DEF EspacioInv, EsTipo, AccesosInv, EsAcceso
  <2> QED
    BY <2>1, <2>2, PaginaEnMemoria DEF EnUnMarco
<1> QED
  BY <1>1, AccesosSiempre, PTL

(* No process writes in the pages of another: what changes them is its own *)
(* access, or that of one whose addresses have gone stale.                 *)
THEOREM EscribeLoSuyoSiempre == Spec => EscribeLoSuyo
<1>1. EspacioInv /\ AccesosInv /\ MarcosPropios /\ [Next]_vars
        => [\A p \in Pids : \A g \in DOMAIN tabla[p] \cap DOMAIN tabla'[p] :
              Contenido(p, g)' # Contenido(p, g) =>
                \E q \in {p} \cup (Pids \ Fiables) : EnCurso(q)' # EnCurso(q)]_vars
  BY PasoPropio
<1> QED
  BY <1>1, AccesosSiempre, PTL DEF Spec, EscribeLoSuyo
=============================================================================
