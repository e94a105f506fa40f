---------------------------- MODULE MemoriaProofs ----------------------------
(***************************************************************************)
(* Proofs, for every number of processes and frames, of the properties of  *)
(* PropiedadesMemoria that marcos.cfg checks on small ones.                *)
(***************************************************************************)
EXTENDS PropiedadesMemoria, ListasProofs

(* Where the thread of the KERNEL is, and what that says of the process it *)
(* is eliminating.                                                         *)
ControlKernel ==
  /\ hilo_kernel.pc = "libre" <=> hilo_kernel.pid = NADIE
  /\ hilo_kernel.pc # "libre" => hilo_kernel.pid \in eliminados
  /\ hilo_kernel.pc = "suelta" => hilo_kernel.i =< Len(tabla[hilo_kernel.pid])
  /\ hilo_kernel.pc = "cuenta" =>
       /\ hilo_kernel.i < Len(tabla[hilo_kernel.pid])
       /\ tabla[hilo_kernel.pid][hilo_kernel.i + 1] \in Cuadros
       /\ ~bitmap[tabla[hilo_kernel.pid][hilo_kernel.i + 1]]
  /\ hilo_kernel.pc = "quita" => tabla[hilo_kernel.pid] = <<>>

(* What allocate_frame read without the mutex is still true when it is     *)
(* used: only this thread sets bits.  add_pages adds no page too many.     *)
ControlCpu ==
  /\ hilo_cpu.pc = "libre" <=> hilo_cpu.pid = NADIE
  /\ hilo_cpu.pid \notin eliminados
  /\ hilo_cpu.pc = "revisa" => \E f \in Cuadros : f >= hilo_cpu.i /\ ~bitmap[f]
  /\ hilo_cpu.pc = "ocupa"  => hilo_cpu.i \in Cuadros /\ ~bitmap[hilo_cpu.i]
  /\ hilo_cpu.pc = "amplia" => Len(tabla[hilo_cpu.pid]) =< hilo_cpu.pags
  /\ hilo_cpu.pc \in {"revisa", "ocupa"} => Len(tabla[hilo_cpu.pid]) < hilo_cpu.pags

MemoriaInv == TypeOK /\ ControlKernel /\ ControlCpu /\ MarcosCoherentes

-----------------------------------------------------------------------------
(* The bitmap is at least as long as the frames.                           *)
LEMMA BitsDeMas == /\ CANT_FRAMES \in Nat /\ MaxBit \in Nat
                   /\ CANT_FRAMES =< MaxBit /\ Cuadros \subseteq Bits
<1>1. CANT_FRAMES \in Nat
  BY ConstantesAssumption
<1>2. MaxBit \in Nat /\ CANT_FRAMES =< MaxBit
  BY <1>1, SMT DEF MaxBit, CHAR_BIT
<1>3. QED
  BY <1>1, <1>2 DEF Cuadros, Bits

(* The types the steps below need.                                         *)
LEMMA Tipos ==
  ASSUME TypeOK
  PROVE  /\ libres \in Nat /\ procesos \in Seq(Pids)
         /\ tabla \in [Pids -> Seq(Bits)] /\ bitmap \in [Bits -> BOOLEAN]
         /\ \A p \in Pids : Len(tabla[p]) \in Nat
         /\ hilo_kernel \in [pc : PcKernel, pid : Pids \cup {NADIE}, i : Nat]
         /\ hilo_kernel.pc \in PcKernel /\ hilo_kernel.i \in Nat
         /\ hilo_kernel.pid \in Pids \cup {NADIE}
         /\ hilo_cpu \in [pc : PcCpu, pid : Pids \cup {NADIE}, pags : Nat, i : Nat,
                           puntero : Pids \cup {NADIE}]
         /\ hilo_cpu.pc \in PcCpu /\ hilo_cpu.i \in Nat /\ hilo_cpu.pags \in Nat
         /\ hilo_cpu.pid \in Pids \cup {NADIE}
         /\ eliminados \subseteq Pids /\ caida \in BOOLEAN /\ NADIE \notin Pids
BY ConstantesAssumption DEF TypeOK

(* The clean frames are finitely many; setting one or clearing one counts. *)
Limpios(b) == {f \in Cuadros : ~b[f]}

LEMMA LimpiosFinitos ==
  ASSUME NEW b
  PROVE  IsFiniteSet(Limpios(b)) /\ Cardinality(Limpios(b)) \in Nat
<1>1. IsFiniteSet(Cuadros)
  BY BitsDeMas, FS_Interval DEF Cuadros
<1>2. Limpios(b) \subseteq Cuadros
  BY DEF Limpios
<1>3. QED
  BY <1>1, <1>2, FS_Subset, FS_CardinalityType

LEMMA LimpiarCuenta ==
  ASSUME NEW b \in [Bits -> BOOLEAN], NEW f \in Cuadros, b[f]
  PROVE  Cardinality(Limpios([b EXCEPT ![f] = FALSE])) = Cardinality(Limpios(b)) + 1
<1>1. Limpios([b EXCEPT ![f] = FALSE]) = Limpios(b) \cup {f} /\ f \notin Limpios(b)
  BY BitsDeMas DEF Limpios
<1>2. QED
  BY <1>1, LimpiosFinitos, FS_AddElement

LEMMA OcuparCuenta ==
  ASSUME NEW b \in [Bits -> BOOLEAN], NEW f \in Cuadros, ~b[f]
  PROVE  Cardinality(Limpios([b EXCEPT ![f] = TRUE])) = Cardinality(Limpios(b)) - 1
<1>1. Limpios([b EXCEPT ![f] = TRUE]) = Limpios(b) \ {f} /\ f \in Limpios(b)
  BY BitsDeMas DEF Limpios
<1>2. QED
  BY <1>1, LimpiosFinitos, FS_RemoveElement

(* The counter, in terms of Limpios.                                       *)
LEMMA CuentaDeLibres ==
  LibresCoherente <=> libres + (IF hilo_kernel.pc = "cuenta" THEN 1 ELSE 0)
                        = Cardinality(Limpios(bitmap))
BY DEF LibresCoherente, Limpios

(* The process the CPU is in is not the one that is being eliminated, so   *)
(* it has all its pages.                                                   *)
LEMMA ProcesoDeCpu ==
  ASSUME TypeOK, ControlKernel, ControlCpu, hilo_cpu.pc # "libre"
  PROVE  /\ hilo_cpu.pid \in Pids /\ hilo_cpu.pid # hilo_kernel.pid
         /\ Soltados(hilo_cpu.pid) = 0
         /\ Paginas(hilo_cpu.pid) = 1 .. Len(tabla[hilo_cpu.pid])
<1>1. hilo_cpu.pid \in Pids /\ hilo_cpu.pid # hilo_kernel.pid
  BY Tipos DEF ControlKernel, ControlCpu
<1>2. Soltados(hilo_cpu.pid) = 0
  BY <1>1 DEF Soltados
<1>3. QED
  BY <1>1, <1>2, Tipos DEF Paginas

-----------------------------------------------------------------------------
(* Seen from outside, a step leaves the frames with their owners, takes    *)
(* one from its owner, or gives a free one to a process.                   *)
PasoDeMarcos ==
  \/ \A q \in Pids, g \in Bits : Tiene(q, g)' <=> Tiene(q, g)
  \/ \E f \in Cuadros : \A q \in Pids, g \in Bits :
       Tiene(q, g)' <=> Tiene(q, g) /\ g # f
  \/ \E p \in Pids, f \in Cuadros :
       /\ \A q \in Pids : ~Tiene(q, f)
       /\ \A q \in Pids, g \in Bits : Tiene(q, g)' <=> Tiene(q, g) \/ (q = p /\ g = f)

(* The frames counted as free or on their way to be.                       *)
Contados == libres + (IF hilo_kernel.pc = "cuenta" THEN 1 ELSE 0)

(* Steps that leave frames where they are.                                 *)
LEMMA MismosMarcos ==
  ASSUME MarcosCoherentes, bitmap' = bitmap, Contados' = Contados,
         \A p \in Pids : Paginas(p)' = Paginas(p),
         \A p \in Pids : \A n \in Paginas(p) : tabla'[p][n] = tabla[p][n]
  PROVE  MarcosCoherentes' /\ PasoDeMarcos
<1>1. \A p \in Pids, f \in Bits : Tiene(p, f)' <=> Tiene(p, f)
  BY DEF Tiene
<1>2. MarcosExclusivos'
  BY DEF MarcosCoherentes, MarcosExclusivos
<1>3. MarcosConTitular'
  BY <1>1 DEF MarcosCoherentes, MarcosConTitular
<1>4. MarcosReales' /\ LibresCoherente'
  BY DEF MarcosCoherentes, MarcosReales, LibresCoherente, Contados
<1>5. QED
  BY <1>1, <1>2, <1>3, <1>4 DEF MarcosCoherentes, PasoDeMarcos

(* Steps that give back the frame of one page.                             *)
LEMMA SoltarMarco ==
  ASSUME TypeOK, MarcosCoherentes,
         NEW p \in Pids, NEW n \in Paginas(p), NEW f \in Bits, f = tabla[p][n],
         Paginas(p)' = Paginas(p) \ {n},
         \A q \in Pids \ {p} : Paginas(q)' = Paginas(q),
         \A q \in Pids : \A m \in Paginas(q)' : tabla'[q][m] = tabla[q][m],
         bitmap' = [bitmap EXCEPT ![f] = FALSE],
         Contados' = Contados + 1
  PROVE  MarcosCoherentes' /\ PasoDeMarcos /\ f \in Cuadros /\ bitmap[f]
<1>1. bitmap[f] /\ f \in Cuadros
  BY DEF MarcosCoherentes, MarcosConTitular, MarcosReales, Tiene
<1>2. /\ \A g \in Bits \ {f} : bitmap'[g] = bitmap[g]
      /\ bitmap'[f] = FALSE
  BY Tipos
<1>3. ASSUME NEW q \in Pids PROVE Paginas(q)' \subseteq Paginas(q)
  <2>1. CASE q = p
    BY <2>1
  <2>2. CASE q # p
    BY <2>2
  <2>3. QED
    BY <2>1, <2>2
<1>4. MarcosExclusivos'
  BY <1>3 DEF MarcosCoherentes, MarcosExclusivos
<1>5. ASSUME NEW q \in Pids, NEW g \in Bits
      PROVE  Tiene(q, g)' <=> Tiene(q, g) /\ g # f
  <2>1. CASE g = f
    BY <1>3, <2>1 DEF MarcosCoherentes, MarcosExclusivos, Tiene
  <2>2. CASE g # f
    BY <2>2 DEF Tiene
  <2>3. QED
    BY <2>1, <2>2
<1>6. MarcosConTitular'
  <2>1. ASSUME NEW g \in Bits
        PROVE  bitmap'[g] <=> \E q \in Pids : Tiene(q, g)'
    <3>1. CASE g = f
      BY <1>2, <1>5, <3>1
    <3>2. CASE g # f
      <4>1. bitmap'[g] = bitmap[g]
        BY <1>2, <3>2
      <4>2. bitmap[g] <=> \E q \in Pids : Tiene(q, g)
        BY DEF MarcosCoherentes, MarcosConTitular
      <4>3. QED
        BY <1>5, <3>2, <4>1, <4>2
    <3>3. QED
      BY <3>1, <3>2
  <2>2. QED
    BY <2>1 DEF MarcosConTitular
<1>7. MarcosReales'
  BY <1>1, <1>2 DEF MarcosCoherentes, MarcosReales
<1>8. LibresCoherente'
  <2>1. Cardinality(Limpios(bitmap')) = Cardinality(Limpios(bitmap)) + 1
    BY <1>1, Tipos, LimpiarCuenta
  <2>2. Cardinality(Limpios(bitmap)) = Contados
    BY CuentaDeLibres DEF MarcosCoherentes, Contados
  <2>3. QED
    BY <2>1, <2>2 DEF LibresCoherente, Limpios, Contados
<1>9. QED
  BY <1>1, <1>4, <1>5, <1>6, <1>7, <1>8 DEF MarcosCoherentes, PasoDeMarcos

(* Steps that give a free frame to a page of a process.                    *)
LEMMA TomarMarco ==
  ASSUME TypeOK, MarcosCoherentes,
         NEW p \in Pids, NEW n \in Nat, NEW f \in Cuadros, ~bitmap[f],
         n \notin Paginas(p), Paginas(p)' = Paginas(p) \cup {n},
         tabla'[p][n] = f,
         \A q \in Pids \ {p} : Paginas(q)' = Paginas(q),
         \A q \in Pids : \A m \in Paginas(q) : tabla'[q][m] = tabla[q][m],
         bitmap' = [bitmap EXCEPT ![f] = TRUE],
         Contados' = Contados - 1
  PROVE  MarcosCoherentes' /\ PasoDeMarcos
<1>1. f \in Bits
  BY BitsDeMas
<1>2. /\ \A g \in Bits \ {f} : bitmap'[g] = bitmap[g]
      /\ bitmap'[f] = TRUE
  BY <1>1, Tipos
<1>3. \A q \in Pids : ~Tiene(q, f)
  BY <1>1 DEF MarcosCoherentes, MarcosConTitular
<1>4. ASSUME NEW q \in Pids, NEW m \in Paginas(q)'
      PROVE  \/ q = p /\ m = n /\ tabla'[q][m] = f
             \/ m \in Paginas(q) /\ tabla'[q][m] = tabla[q][m] /\ tabla[q][m] # f
  <2>1. m \in Paginas(q) => tabla[q][m] # f
    BY <1>3 DEF Tiene
  <2>2. CASE q = p
    BY <2>1, <2>2
  <2>3. CASE q # p
    BY <2>1, <2>3
  <2>4. QED
    BY <2>2, <2>3
<1>5. MarcosExclusivos'
  <2>1. ASSUME NEW q \in Pids, NEW r \in Pids,
               NEW m \in Paginas(q)', NEW k \in Paginas(r)',
               tabla'[q][m] = tabla'[r][k]
        PROVE  q = r /\ m = k
    BY <1>4, <2>1 DEF MarcosCoherentes, MarcosExclusivos
  <2>2. QED
    BY <2>1 DEF MarcosExclusivos
<1>6. ASSUME NEW q \in Pids, NEW g \in Bits
      PROVE  Tiene(q, g)' <=> Tiene(q, g) \/ (q = p /\ g = f)
  <2>1. Tiene(q, g)' => Tiene(q, g) \/ (q = p /\ g = f)
    BY <1>4 DEF Tiene
  <2>2. \A m \in Paginas(q) : m \in Paginas(q)'
    <3>1. CASE q = p
      BY <3>1
    <3>2. CASE q # p
      BY <3>2
    <3>3. QED
      BY <3>1, <3>2
  <2>3. Tiene(q, g) => Tiene(q, g)'
    BY <2>2 DEF Tiene
  <2>4. Tiene(p, f)'
    BY DEF Tiene
  <2>5. QED
    BY <2>1, <2>3, <2>4
<1>7. MarcosConTitular'
  <2>1. ASSUME NEW g \in Bits
        PROVE  bitmap'[g] <=> \E q \in Pids : Tiene(q, g)'
    <3>1. CASE g = f
      BY <1>1, <1>2, <1>6, <3>1
    <3>2. CASE g # f
      <4>1. bitmap'[g] = bitmap[g]
        BY <1>2, <3>2
      <4>2. bitmap[g] <=> \E q \in Pids : Tiene(q, g)
        BY DEF MarcosCoherentes, MarcosConTitular
      <4>3. QED
        BY <1>6, <3>2, <4>1, <4>2
    <3>3. QED
      BY <3>1, <3>2
  <2>2. QED
    BY <2>1 DEF MarcosConTitular
<1>8. MarcosReales'
  BY <1>2 DEF MarcosCoherentes, MarcosReales
<1>9. LibresCoherente'
  <2>1. Cardinality(Limpios(bitmap')) = Cardinality(Limpios(bitmap)) - 1
    BY Tipos, OcuparCuenta
  <2>2. Cardinality(Limpios(bitmap)) = Contados
    BY CuentaDeLibres DEF MarcosCoherentes, Contados
  <2>3. QED
    BY <2>1, <2>2 DEF LibresCoherente, Limpios, Contados
<1>10. QED
  BY <1>3, <1>5, <1>6, <1>7, <1>8, <1>9 DEF MarcosCoherentes, PasoDeMarcos

LEMMA MemoriaInit == Init => MemoriaInv
<1> SUFFICES ASSUME Init PROVE MemoriaInv
  OBVIOUS
<1>1. TypeOK
  <2>0. procesos \in Seq(Pids)
    BY DEF Init
  <2>1. procesos \in Seq(Pids) /\ eliminados \subseteq Pids /\ caida \in BOOLEAN
    BY <2>0 DEF Init
  <2>2. /\ tabla \in [Pids -> Seq(Bits)] /\ bitmap \in [Bits -> BOOLEAN]
        /\ libres \in Nat
    BY ConstantesAssumption DEF Init
  <2>3. hilo_kernel \in [pc : PcKernel, pid : Pids \cup {NADIE}, i : Nat]
    BY DEF Init, PcKernel
  <2>4. hilo_cpu \in [pc : PcCpu, pid : Pids \cup {NADIE}, pags : Nat, i : Nat,
                      puntero : Pids \cup {NADIE}]
    BY DEF Init, Libre, PcCpu
  <2>5. QED
    BY <2>1, <2>2, <2>3, <2>4 DEF TypeOK
<1>2. ControlKernel /\ ControlCpu
  BY DEF Init, ControlKernel, ControlCpu, Libre
<1>3. \A p \in Pids : Paginas(p) = {}
  BY DEF Init, Paginas
<1>4. MarcosExclusivos
  BY <1>3 DEF MarcosExclusivos
<1>5. MarcosConTitular /\ MarcosReales
  BY <1>3 DEF Init, MarcosConTitular, MarcosReales, Tiene
<1>6. LibresCoherente
  <2>1. {f \in Cuadros : ~bitmap[f]} = 0 .. CANT_FRAMES - 1
    BY BitsDeMas DEF Init, Cuadros
  <2>2. Cardinality(0 .. CANT_FRAMES - 1) = CANT_FRAMES
    BY BitsDeMas, FS_Interval, SMT
  <2>3. libres = CANT_FRAMES /\ hilo_kernel.pc # "cuenta"
    BY DEF Init
  <2>4. libres + (IF hilo_kernel.pc = "cuenta" THEN 1 ELSE 0) = CANT_FRAMES
    BY <2>3, BitsDeMas
  <2>5. QED
    BY <2>1, <2>2, <2>4 DEF LibresCoherente
<1>7. QED
  BY <1>1, <1>2, <1>4, <1>5, <1>6 DEF MemoriaInv, MarcosCoherentes

-----------------------------------------------------------------------------
(* The thread that serves the KERNEL.                                      *)

LEMMA CrearPreserva ==
  ASSUME MemoriaInv, NEW p \in Pids, CrearProceso(p), UNCHANGED <<hilo_cpu, caida>>
  PROVE  MemoriaInv' /\ PasoDeMarcos
<1> USE DEF MemoriaInv
<1>1. /\ procesos' = Append(procesos, p)
      /\ UNCHANGED <<tabla, bitmap, libres, hilo_kernel, hilo_cpu, eliminados, caida>>
  BY DEF CrearProceso
<1>2. procesos' \in Seq(Pids)
  BY <1>1, Tipos
<1>3. TypeOK'
  BY <1>1, <1>2 DEF TypeOK
<1>4. ControlKernel' /\ ControlCpu'
  BY <1>1 DEF ControlKernel, ControlCpu
<1>5. \A q \in Pids : Paginas(q)' = Paginas(q)
  BY <1>1 DEF Paginas, Soltados
<1>6. MarcosCoherentes' /\ PasoDeMarcos
  BY <1>1, <1>5, MismosMarcos DEF Contados
<1>7. QED
  BY <1>3, <1>4, <1>6

LEMMA EliminarPreserva ==
  ASSUME MemoriaInv, NEW p \in Pids, EliminarProceso(p), UNCHANGED <<hilo_cpu, caida>>
  PROVE  MemoriaInv' /\ PasoDeMarcos
<1> USE DEF MemoriaInv
<1>1. /\ hilo_kernel.pc = "libre" /\ hilo_cpu.pid # p
      /\ hilo_kernel' = [pc |-> "suelta", pid |-> p, i |-> 0]
      /\ eliminados' = eliminados \cup {p}
      /\ UNCHANGED <<procesos, tabla, bitmap, libres, hilo_cpu, caida>>
  BY DEF EliminarProceso
<1>2. TypeOK'
  BY <1>1 DEF TypeOK, PcKernel
<1>3. ControlKernel'
  BY <1>1, Tipos DEF ControlKernel
<1>4. ControlCpu'
  BY <1>1 DEF ControlCpu
<1>5. ASSUME NEW q \in Pids PROVE Paginas(q)' = Paginas(q)
  <2>1. Soltados(q) = 0
    BY <1>1, Tipos DEF ControlKernel, Soltados
  <2>2. Soltados(q)' = 0
    BY <1>1 DEF Soltados
  <2>3. QED
    BY <1>1, <2>1, <2>2 DEF Paginas
<1>6. MarcosCoherentes' /\ PasoDeMarcos
  BY <1>1, <1>5, MismosMarcos DEF Contados
<1>7. QED
  BY <1>2, <1>3, <1>4, <1>6

(* The page whose frame is given back, and what the others keep.           *)
LEMMA PaginaSoltada ==
  ASSUME TypeOK, ControlKernel, LimpiarMarco
  PROVE  \E p \in Pids, n \in Nat \ {0} :
           /\ p = hilo_kernel.pid /\ n = hilo_kernel.i + 1
           /\ n \in Paginas(p) /\ tabla[p][n] \in Bits
           /\ Paginas(p)' = Paginas(p) \ {n}
           /\ \A q \in Pids \ {p} : Paginas(q)' = Paginas(q)
<1>1. /\ hilo_kernel.pc = "suelta" /\ hilo_kernel.i < Len(tabla[hilo_kernel.pid])
      /\ hilo_kernel' = [hilo_kernel EXCEPT !.pc = "cuenta"]
      /\ tabla' = tabla
  BY DEF LimpiarMarco
<1>2. PICK p \in Pids : p = hilo_kernel.pid
  BY <1>1, Tipos DEF ControlKernel
<1>3. PICK n \in Nat \ {0} : n = hilo_kernel.i + 1
  BY Tipos
<1>4. Soltados(p) = hilo_kernel.i /\ Soltados(p)' = hilo_kernel.i + 1
  BY <1>1, <1>2, Tipos DEF Soltados
<1>5. n \in 1 .. Len(tabla[p]) /\ tabla[p] \in Seq(Bits)
  BY <1>1, <1>2, <1>3, Tipos
<1>6. n \in Paginas(p) /\ tabla[p][n] \in Bits
  BY <1>3, <1>4, <1>5, Tipos DEF Paginas
<1>7. Paginas(p)' = Paginas(p) \ {n}
  BY <1>1, <1>3, <1>4, Tipos DEF Paginas
<1>8. \A q \in Pids \ {p} : Soltados(q) = 0 /\ Soltados(q)' = 0
  BY <1>1, <1>2, Tipos DEF Soltados
<1>9. \A q \in Pids \ {p} : Paginas(q)' = Paginas(q)
  BY <1>1, <1>8 DEF Paginas
<1>10. QED
  BY <1>2, <1>3, <1>6, <1>7, <1>9

LEMMA LimpiarPreserva ==
  ASSUME MemoriaInv, LimpiarMarco, UNCHANGED <<hilo_cpu, caida>>
  PROVE  MemoriaInv' /\ PasoDeMarcos
<1> USE DEF MemoriaInv
<1>0. PICK p \in Pids, n \in Nat \ {0}, f \in Bits :
        /\ p = hilo_kernel.pid /\ n = hilo_kernel.i + 1 /\ f = tabla[p][n]
        /\ n \in Paginas(p)
        /\ Paginas(p)' = Paginas(p) \ {n}
        /\ \A q \in Pids \ {p} : Paginas(q)' = Paginas(q)
  BY PaginaSoltada
<1>1. /\ hilo_kernel.pc = "suelta" /\ hilo_kernel.i < Len(tabla[p])
      /\ hilo_kernel' = [hilo_kernel EXCEPT !.pc = "cuenta"]
      /\ bitmap' = [bitmap EXCEPT ![f] = FALSE]
      /\ UNCHANGED <<procesos, tabla, libres, eliminados, hilo_cpu, caida>>
  BY <1>0 DEF LimpiarMarco
<1>2. /\ n \in Paginas(p) /\ f = tabla[p][n]
      /\ Paginas(p)' = Paginas(p) \ {n}
      /\ \A q \in Pids \ {p} : Paginas(q)' = Paginas(q)
  BY <1>0
<1>3. bitmap[f] /\ f \in Cuadros
  BY <1>2 DEF MarcosCoherentes, MarcosConTitular, MarcosReales, Tiene
<1>4. /\ \A g \in Bits \ {f} : bitmap'[g] = bitmap[g]
      /\ bitmap'[f] = FALSE /\ bitmap' \in [Bits -> BOOLEAN]
  BY <1>1, <1>2, Tipos
<1>5. TypeOK'
  <2>1. hilo_kernel' \in [pc : PcKernel, pid : Pids \cup {NADIE}, i : Nat]
    BY <1>1, Tipos DEF PcKernel
  <2>2. QED
    BY <1>1, <1>4, <2>1 DEF TypeOK
<1>6. ControlKernel'
  BY <1>0, <1>1, <1>3, <1>4, Tipos DEF ControlKernel
<1>7. ControlCpu'
  BY <1>1, <1>4, BitsDeMas DEF ControlCpu
<1>8. Contados' = Contados + 1
  BY <1>1, Tipos DEF Contados
<1>9. \A q \in Pids : \A m \in Paginas(q)' : tabla'[q][m] = tabla[q][m]
  BY <1>1
<1>10. MarcosCoherentes' /\ PasoDeMarcos
  BY <1>1, <1>2, <1>8, <1>9, SoltarMarco
<1>11. QED
  BY <1>5, <1>6, <1>7, <1>10

LEMMA ContarPreserva ==
  ASSUME MemoriaInv, ContarMarco, UNCHANGED <<hilo_cpu, caida>>
  PROVE  MemoriaInv' /\ PasoDeMarcos
<1> USE DEF MemoriaInv
<1>1. /\ hilo_kernel.pc = "cuenta" /\ libres' = libres + 1
      /\ hilo_kernel' = [hilo_kernel EXCEPT !.pc = "suelta", !.i = hilo_kernel.i + 1]
      /\ UNCHANGED <<procesos, tabla, bitmap, eliminados, hilo_cpu, caida>>
  BY DEF ContarMarco
<1>2. hilo_kernel' \in [pc : PcKernel, pid : Pids \cup {NADIE}, i : Nat]
  <2>1. hilo_kernel.i + 1 \in Nat /\ "suelta" \in PcKernel
    BY Tipos DEF PcKernel
  <2>2. QED
    BY <1>1, <2>1, Tipos
<1>3. TypeOK'
  BY <1>1, <1>2, Tipos DEF TypeOK
<1>4. hilo_kernel.pid \in Pids
  BY <1>1, Tipos DEF ControlKernel
<1>5. ControlKernel'
  BY <1>1, <1>4, Tipos DEF ControlKernel
<1>6. ControlCpu'
  BY <1>1 DEF ControlCpu
<1>7. \A q \in Pids : Soltados(q)' = Soltados(q)
  BY <1>1, Tipos DEF Soltados
<1>8. \A q \in Pids : Paginas(q)' = Paginas(q)
  BY <1>1, <1>7 DEF Paginas
<1>9. Contados' = Contados
  BY <1>1, Tipos DEF Contados
<1>10. MarcosCoherentes' /\ PasoDeMarcos
  BY <1>1, <1>8, <1>9, MismosMarcos
<1>11. QED
  BY <1>3, <1>5, <1>6, <1>10

LEMMA DestruirPreserva ==
  ASSUME MemoriaInv, DestruirTabla, UNCHANGED <<hilo_cpu, caida>>
  PROVE  MemoriaInv' /\ PasoDeMarcos
<1> USE DEF MemoriaInv
<1>0. PICK p \in Pids : p = hilo_kernel.pid
  BY Tipos DEF DestruirTabla, ControlKernel
<1>1. /\ hilo_kernel.pc = "suelta" /\ hilo_kernel.i >= Len(tabla[p])
      /\ hilo_kernel' = [hilo_kernel EXCEPT !.pc = "quita"]
      /\ tabla' = [tabla EXCEPT ![p] = <<>>]
      /\ UNCHANGED <<procesos, bitmap, libres, eliminados, hilo_cpu, caida>>
  BY <1>0 DEF DestruirTabla
<1>2. TypeOK'
  <2>1. hilo_kernel' \in [pc : PcKernel, pid : Pids \cup {NADIE}, i : Nat]
    BY <1>1, Tipos DEF PcKernel
  <2>2. tabla' \in [Pids -> Seq(Bits)]
    BY <1>1, Tipos
  <2>3. QED
    BY <1>1, <2>1, <2>2 DEF TypeOK
<1>3. ControlKernel' /\ ControlCpu'
  <2>1. ControlKernel'
    BY <1>0, <1>1, Tipos DEF ControlKernel
  <2>2. hilo_cpu.pc # "libre" => tabla'[hilo_cpu.pid] = tabla[hilo_cpu.pid]
    BY <1>0, <1>1, ProcesoDeCpu, Tipos
  <2>3. ControlCpu'
    BY <1>1, <2>2 DEF ControlCpu
  <2>4. QED
    BY <2>1, <2>3
<1>4. ASSUME NEW q \in Pids PROVE Paginas(q)' = Paginas(q)
  <2>1. CASE q = p
    <3>1. Soltados(q) = hilo_kernel.i
      BY <1>0, <1>1, <2>1, Tipos DEF Soltados
    <3>2. Paginas(q) = {}
      BY <1>1, <2>1, <3>1, Tipos DEF Paginas
    <3>3. Paginas(q)' = {}
      BY <1>1, <2>1, Tipos DEF Paginas
    <3>4. QED
      BY <3>2, <3>3
  <2>2. CASE q # p
    <3>1. Soltados(q) = 0 /\ Soltados(q)' = 0
      BY <1>0, <1>1, <2>2, Tipos DEF Soltados
    <3>2. QED
      BY <1>1, <2>2, <3>1, Tipos DEF Paginas
  <2>3. QED
    BY <2>1, <2>2
<1>5. \A q \in Pids : \A n \in Paginas(q) : tabla'[q][n] = tabla[q][n]
  <2>1. ~ \E n \in Paginas(p) : TRUE
    BY <1>1, <1>4, Tipos DEF Paginas
  <2>2. \A q \in Pids \ {p} : tabla'[q] = tabla[q]
    BY <1>1, Tipos
  <2>3. QED
    BY <2>1, <2>2
<1>6. MarcosCoherentes' /\ PasoDeMarcos
  BY <1>1, <1>4, <1>5, Tipos, MismosMarcos DEF Contados
<1>7. QED
  BY <1>2, <1>3, <1>6

LEMMA QuitarPreserva ==
  ASSUME MemoriaInv, QuitarProceso, UNCHANGED <<hilo_cpu, caida>>
  PROVE  MemoriaInv' /\ PasoDeMarcos
<1> USE DEF MemoriaInv
<1>0. PICK p \in Pids : p = hilo_kernel.pid
  BY Tipos DEF QuitarProceso, ControlKernel
<1>1. /\ hilo_kernel.pc = "quita" /\ procesos' = RemoveFirst(procesos, p)
      /\ hilo_kernel' = [pc |-> "libre", pid |-> NADIE, i |-> 0]
      /\ UNCHANGED <<tabla, bitmap, libres, eliminados, hilo_cpu, caida>>
  BY <1>0 DEF QuitarProceso
<1>2. procesos' \in Seq(Pids)
  BY <1>1, Tipos, RemoveFirstTipo
<1>3. TypeOK'
  BY <1>1, <1>2 DEF TypeOK, PcKernel
<1>4. ControlKernel' /\ ControlCpu'
  BY <1>1 DEF ControlKernel, ControlCpu
<1>5. ASSUME NEW q \in Pids PROVE Paginas(q)' = Paginas(q)
  <2>1. CASE q = p
    BY <1>0, <1>1, <2>1 DEF Paginas, ControlKernel
  <2>2. CASE q # p
    BY <1>0, <1>1, <2>2, Tipos DEF Paginas, Soltados
  <2>3. QED
    BY <2>1, <2>2
<1>6. MarcosCoherentes' /\ PasoDeMarcos
  BY <1>1, <1>5, MismosMarcos DEF Contados
<1>7. QED
  BY <1>3, <1>4, <1>6

LEMMA KernelPreserva == MemoriaInv /\ AtenderKernel => MemoriaInv' /\ PasoDeMarcos
BY CrearPreserva, EliminarPreserva, LimpiarPreserva, ContarPreserva,
   DestruirPreserva, QuitarPreserva DEF AtenderKernel

-----------------------------------------------------------------------------
(* The thread that serves the CPU.                                         *)

(* Steps that touch no frame.                                              *)
LEMMA CpuSinMarcos ==
  ASSUME MemoriaInv,
         UNCHANGED <<procesos, tabla, bitmap, libres, hilo_kernel, eliminados>>,
         hilo_cpu' \in [pc : PcCpu, pid : Pids \cup {NADIE}, pags : Nat, i : Nat,
                        puntero : Pids \cup {NADIE}],
         caida' \in BOOLEAN, ControlCpu'
  PROVE  MemoriaInv' /\ PasoDeMarcos
<1> USE DEF MemoriaInv
<1>1. TypeOK'
  BY DEF TypeOK
<1>2. ControlKernel'
  BY DEF ControlKernel
<1>3. \A p \in Pids : Paginas(p)' = Paginas(p)
  BY DEF Paginas, Soltados
<1>4. MarcosCoherentes' /\ PasoDeMarcos
  BY <1>3, MismosMarcos DEF Contados
<1>5. QED
  BY <1>1, <1>2, <1>4

LEMMA RecorridoPreserva ==
  ASSUME MemoriaInv, Comparar \/ Obtener \/ Mirar,
         UNCHANGED <<procesos, hilo_kernel, eliminados>>
  PROVE  MemoriaInv' /\ PasoDeMarcos
<1> USE DEF MemoriaInv
<1> DEFINE CpuTipo == [pc : PcCpu, pid : Pids \cup {NADIE}, pags : Nat, i : Nat,
                       puntero : Pids \cup {NADIE}]
<1>1. Libre \in CpuTipo
  BY DEF Libre, PcCpu
<1>2. CASE Comparar
  <2>1. hilo_cpu' \in CpuTipo /\ ControlCpu'
    BY <1>2, Tipos DEF Comparar, Ir, PcCpu, ControlCpu
  <2>2. QED
    BY <1>2, <2>1, Tipos, CpuSinMarcos DEF Comparar
<1>3. CASE Obtener
  <2>1. \A k \in Nat : k < Len(procesos) => procesos[k + 1] \in Pids
    BY Tipos
  <2>2. hilo_cpu' \in CpuTipo /\ ControlCpu' /\ caida' \in BOOLEAN
    <3>1. CASE hilo_cpu.i < Len(procesos)
      <4>1. procesos[hilo_cpu.i + 1] \in Pids /\ "mira" \in PcCpu
        BY <2>1, <3>1, Tipos DEF PcCpu
      <4>2. /\ hilo_cpu' = [hilo_cpu EXCEPT !.pc = "mira", !.puntero = procesos[hilo_cpu.i + 1]]
            /\ UNCHANGED caida
        BY <1>3, <3>1 DEF Obtener
      <4>3. QED
        BY <1>3, <4>1, <4>2, Tipos DEF Obtener, ControlCpu
    <3>2. CASE ~(hilo_cpu.i < Len(procesos))
      BY <1>3, <3>2, Tipos DEF Obtener, ControlCpu
    <3>3. QED
      BY <3>1, <3>2
  <2>3. QED
    BY <1>3, <2>2, Tipos, CpuSinMarcos DEF Obtener
<1>4. CASE Mirar
  <2>1. hilo_cpu.i + 1 \in Nat /\ "compara" \in PcCpu
    BY Tipos DEF PcCpu
  <2>2. hilo_cpu' \in CpuTipo /\ caida' \in BOOLEAN
    BY <1>1, <1>4, <2>1, Tipos DEF Mirar
  <2>3. ASSUME hilo_cpu' = [hilo_cpu EXCEPT !.pc = "compara", !.i = hilo_cpu.i + 1,
                                            !.puntero = NADIE]
        PROVE  hilo_cpu'.pc = "compara" /\ hilo_cpu'.pid = hilo_cpu.pid
    BY <2>3, Tipos
  <2>4. ASSUME hilo_cpu' = Libre
        PROVE  hilo_cpu'.pc = "libre" /\ hilo_cpu'.pid = NADIE
    BY <2>4 DEF Libre
  <2>5. /\ \/ hilo_cpu'.pc = "libre" /\ hilo_cpu'.pid = NADIE
           \/ hilo_cpu'.pc = "compara" /\ hilo_cpu'.pid = hilo_cpu.pid
           \/ hilo_cpu' = hilo_cpu
        /\ hilo_cpu.pc = "mira" /\ bitmap' = bitmap
    BY <1>4, <2>3, <2>4 DEF Mirar
  <2>6. NADIE \notin eliminados
    BY Tipos
  <2>7. ControlCpu'
    BY <2>5, <2>6 DEF ControlCpu
  <2>8. QED
    BY <1>4, <2>2, <2>7, Tipos, CpuSinMarcos DEF Mirar
<1>5. QED
  BY <1>2, <1>3, <1>4

LEMMA PedidoPreserva ==
  ASSUME MemoriaInv, NEW p \in Pids, UNCHANGED <<procesos, hilo_kernel, eliminados>>,
         PedirInstruccion(p) \/ \E n \in 0 .. MAX_PAGS : ModificarTabla(p, n)
  PROVE  MemoriaInv' /\ PasoDeMarcos
<1> USE DEF MemoriaInv
<1> DEFINE Nuevo(pc, n) == [pc |-> pc, pid |-> p, pags |-> n, i |-> 0, puntero |-> NADIE]
<1>1. PICK pc \in {"compara", "amplia", "reduce"}, n \in Nat :
        hilo_cpu' = Nuevo(pc, n) /\ (pc = "amplia" => n > Len(tabla[p]))
  <2>1. CASE PedirInstruccion(p)
    <3>1. hilo_cpu' = Nuevo("compara", 0)
      BY <2>1 DEF PedirInstruccion, Libre
    <3>2. QED
      BY <3>1
  <2>2. CASE \E n \in 0 .. MAX_PAGS : ModificarTabla(p, n)
    <3>1. PICK n \in 0 .. MAX_PAGS : ModificarTabla(p, n)
      BY <2>2
    <3>2. \/ hilo_cpu' = Nuevo("amplia", n) /\ n > Len(tabla[p])
          \/ hilo_cpu' = Nuevo("reduce", n)
      BY <3>1 DEF ModificarTabla, Libre
    <3>3. n \in Nat
      BY ConstantesAssumption
    <3>4. QED
      BY <3>2, <3>3
  <2>3. QED
    BY <2>1, <2>2
<1>2. p \notin eliminados /\ UNCHANGED <<tabla, bitmap, libres, caida>>
  BY DEF PedirInstruccion, ModificarTabla, Ejecutable
<1>3. hilo_cpu' \in [pc : PcCpu, pid : Pids \cup {NADIE}, pags : Nat, i : Nat,
                     puntero : Pids \cup {NADIE}]
  BY <1>1 DEF PcCpu
<1>4. ControlCpu'
  BY <1>1, <1>2, Tipos DEF ControlCpu
<1>5. QED
  BY <1>2, <1>3, <1>4, Tipos, CpuSinMarcos

LEMMA AmpliarPreserva ==
  ASSUME MemoriaInv, Ampliar, UNCHANGED <<procesos, hilo_kernel, eliminados>>
  PROVE  MemoriaInv' /\ PasoDeMarcos
<1> USE DEF MemoriaInv
<1> DEFINE CpuTipo == [pc : PcCpu, pid : Pids \cup {NADIE}, pags : Nat, i : Nat,
                       puntero : Pids \cup {NADIE}]
<1>1. CASE hilo_cpu' = Libre
  <2>1. hilo_cpu' \in CpuTipo /\ ControlCpu'
    BY <1>1, Tipos DEF Libre, PcCpu, ControlCpu
  <2>2. QED
    BY <2>1, Tipos, CpuSinMarcos DEF Ampliar
<1>2. CASE hilo_cpu' # Libre
  <2>1. /\ hilo_cpu.pc = "amplia" /\ libres # 0
        /\ hilo_cpu' = [hilo_cpu EXCEPT !.pc = "revisa", !.i = 0]
        /\ UNCHANGED <<tabla, bitmap, libres, caida>>
    BY <1>2 DEF Ampliar
  <2>2. \E f \in Cuadros : ~bitmap[f]
    <3>1. Cardinality(Limpios(bitmap)) # 0
      BY <2>1, Tipos, CuentaDeLibres DEF MarcosCoherentes
    <3>2. Limpios(bitmap) # {}
      BY <3>1, FS_EmptySet
    <3>3. QED
      BY <3>2 DEF Limpios
  <2>3. /\ hilo_cpu'.pc = "revisa" /\ hilo_cpu'.i = 0 /\ hilo_cpu'.pid = hilo_cpu.pid
        /\ hilo_cpu' \in CpuTipo
    BY <2>1, Tipos DEF PcCpu
  <2>4. ControlCpu'
    <3>1. Len(tabla[hilo_cpu.pid]) < hilo_cpu.pags
      BY <1>2, ProcesoDeCpu, Tipos DEF Ampliar
    <3>2. hilo_cpu'.pags = hilo_cpu.pags
      BY <2>1, Tipos
    <3>3. \E f \in Cuadros : f >= 0 /\ ~bitmap[f]
      BY <2>2 DEF Cuadros
    <3>4. QED
      BY <2>1, <2>3, <3>1, <3>2, <3>3 DEF ControlCpu
  <2>5. QED
    BY <2>1, <2>3, <2>4, Tipos, CpuSinMarcos
<1>3. QED
  BY <1>1, <1>2

LEMMA RevisarPreserva ==
  ASSUME MemoriaInv, Revisar, UNCHANGED <<procesos, hilo_kernel, eliminados>>
  PROVE  MemoriaInv' /\ PasoDeMarcos
<1> USE DEF MemoriaInv
<1> DEFINE CpuTipo == [pc : PcCpu, pid : Pids \cup {NADIE}, pags : Nat, i : Nat,
                       puntero : Pids \cup {NADIE}]
<1>1. /\ hilo_cpu.pc = "revisa"
      /\ UNCHANGED <<tabla, bitmap, libres, caida>>
  BY DEF Revisar
<1>2. PICK f \in Cuadros : f >= hilo_cpu.i /\ ~bitmap[f]
  BY <1>1 DEF ControlCpu
<1>3. hilo_cpu.i \in Cuadros /\ ~(hilo_cpu.i >= MaxBit)
  BY <1>2, BitsDeMas, Tipos DEF Cuadros
<1>4. CASE bitmap[hilo_cpu.i]
  <2>1. hilo_cpu' = [hilo_cpu EXCEPT !.i = hilo_cpu.i + 1]
    BY <1>3, <1>4 DEF Revisar
  <2>2. hilo_cpu.i + 1 \in Nat
    BY Tipos
  <2>3. /\ hilo_cpu'.pc = "revisa" /\ hilo_cpu'.i = hilo_cpu.i + 1
        /\ hilo_cpu'.pid = hilo_cpu.pid /\ hilo_cpu'.pags = hilo_cpu.pags
        /\ hilo_cpu' \in CpuTipo
    BY <1>1, <2>1, <2>2, Tipos
  <2>4. f >= hilo_cpu.i + 1
    BY <1>2, <1>4, BitsDeMas, Tipos DEF Cuadros
  <2>5. ControlCpu'
    BY <1>1, <1>2, <2>3, <2>4 DEF ControlCpu
  <2>6. QED
    BY <1>1, <2>3, <2>5, Tipos, CpuSinMarcos
<1>5. CASE ~bitmap[hilo_cpu.i]
  <2>1. hilo_cpu' = [hilo_cpu EXCEPT !.pc = "ocupa"]
    BY <1>3, <1>5 DEF Revisar
  <2>2. /\ hilo_cpu'.pc = "ocupa" /\ hilo_cpu'.i = hilo_cpu.i
        /\ hilo_cpu'.pid = hilo_cpu.pid /\ hilo_cpu'.pags = hilo_cpu.pags
        /\ hilo_cpu' \in CpuTipo
    BY <2>1, Tipos DEF PcCpu
  <2>3. ControlCpu'
    BY <1>1, <1>3, <1>5, <2>2 DEF ControlCpu
  <2>4. QED
    BY <1>1, <2>2, <2>3, Tipos, CpuSinMarcos
<1>6. QED
  BY <1>4, <1>5

LEMMA OcuparPreserva ==
  ASSUME MemoriaInv, Ocupar, UNCHANGED <<procesos, hilo_kernel, eliminados>>
  PROVE  MemoriaInv' /\ PasoDeMarcos
<1> USE DEF MemoriaInv
<1>0. PICK p \in Pids, f \in Cuadros : p = hilo_cpu.pid /\ f = hilo_cpu.i /\ ~bitmap[f]
  BY ProcesoDeCpu DEF Ocupar, ControlCpu
<1>1. /\ hilo_cpu.pc = "ocupa" /\ hilo_kernel.pc # "cuenta"
      /\ bitmap' = [bitmap EXCEPT ![f] = TRUE]
      /\ libres' = libres - 1
      /\ tabla' = [tabla EXCEPT ![p] = Append(tabla[p], f)]
      /\ hilo_cpu' = [hilo_cpu EXCEPT !.pc = "amplia"]
      /\ UNCHANGED <<procesos, hilo_kernel, eliminados, caida>>
  BY <1>0 DEF Ocupar, MutexLibre, Ir
<1>2. PICK n \in Nat : n = Len(tabla[p]) + 1
  BY Tipos
<1>3. /\ p # hilo_kernel.pid /\ Soltados(p) = 0 /\ Paginas(p) = 1 .. Len(tabla[p])
  BY <1>0, <1>1, ProcesoDeCpu
<1>4. f \in Bits /\ tabla[p] \in Seq(Bits)
  BY BitsDeMas, Tipos
<1>5. /\ tabla'[p] = Append(tabla[p], f) /\ \A q \in Pids \ {p} : tabla'[q] = tabla[q]
      /\ Len(tabla'[p]) = n /\ tabla'[p][n] = f
      /\ \A m \in 1 .. Len(tabla[p]) : tabla'[p][m] = tabla[p][m]
      /\ tabla' \in [Pids -> Seq(Bits)]
  BY <1>1, <1>2, <1>4, Tipos
<1>6. libres > 0
  <2>1. f \in Limpios(bitmap)
    BY <1>0 DEF Limpios
  <2>2. Cardinality(Limpios(bitmap)) # 0
    BY <2>1, LimpiosFinitos, FS_EmptySet
  <2>3. QED
    BY <1>1, <2>2, Tipos, CuentaDeLibres DEF MarcosCoherentes
<1>7. TypeOK'
  <2>1. libres' \in Nat
    BY <1>1, <1>6, Tipos
  <2>2. bitmap' \in [Bits -> BOOLEAN]
    BY <1>1, Tipos
  <2>3. hilo_cpu' \in [pc : PcCpu, pid : Pids \cup {NADIE}, pags : Nat, i : Nat,
                       puntero : Pids \cup {NADIE}]
    BY <1>1, Tipos DEF PcCpu
  <2>4. QED
    BY <1>1, <1>5, <2>1, <2>2, <2>3 DEF TypeOK
<1>8. ControlKernel'
  <2>1. hilo_kernel.pc # "libre" => tabla'[hilo_kernel.pid] = tabla[hilo_kernel.pid]
    BY <1>3, <1>5, Tipos DEF ControlKernel
  <2>2. QED
    BY <1>1, <2>1 DEF ControlKernel
<1>9. ControlCpu'
  <2>1. /\ hilo_cpu'.pc = "amplia" /\ hilo_cpu'.pid = p
        /\ hilo_cpu'.pags = hilo_cpu.pags
    BY <1>0, <1>1, Tipos
  <2>2. n =< hilo_cpu.pags
    BY <1>0, <1>1, <1>2, Tipos DEF ControlCpu
  <2>3. p # NADIE /\ p \notin eliminados
    BY <1>0, Tipos DEF ControlCpu
  <2>4. QED
    BY <1>1, <1>5, <2>1, <2>2, <2>3 DEF ControlCpu
<1>10. /\ Paginas(p)' = 1 .. n /\ \A q \in Pids \ {p} : Paginas(q)' = Paginas(q)
  <2>1. \A q \in Pids : Soltados(q)' = Soltados(q)
    BY <1>1 DEF Soltados
  <2>2. QED
    BY <1>2, <1>3, <1>5, <2>1, Tipos DEF Paginas
<1>11. n \notin Paginas(p) /\ Paginas(p)' = Paginas(p) \cup {n}
  BY <1>2, <1>3, <1>10, Tipos
<1>12. \A q \in Pids : \A m \in Paginas(q) : tabla'[q][m] = tabla[q][m]
  BY <1>3, <1>5
<1>13. Contados' = Contados - 1
  BY <1>1, Tipos DEF Contados
<1>14. MarcosCoherentes' /\ PasoDeMarcos
  BY <1>0, <1>1, <1>5, <1>10, <1>11, <1>12, <1>13, TomarMarco
<1>15. QED
  BY <1>7, <1>8, <1>9, <1>14

LEMMA ReducirPreserva ==
  ASSUME MemoriaInv, Reducir, UNCHANGED <<procesos, hilo_kernel, eliminados>>
  PROVE  MemoriaInv' /\ PasoDeMarcos
<1> USE DEF MemoriaInv
<1>0. PICK p \in Pids : p = hilo_cpu.pid
  BY ProcesoDeCpu DEF Reducir
<1>1. /\ p # hilo_kernel.pid /\ Soltados(p) = 0 /\ Paginas(p) = 1 .. Len(tabla[p])
  BY <1>0, ProcesoDeCpu DEF Reducir
<1>2. PICK n \in Nat \ {0} : n = Len(tabla[p])
  <2>1. Len(tabla[p]) > hilo_cpu.pags
    BY <1>0 DEF Reducir
  <2>2. Len(tabla[p]) \in Nat \ {0}
    BY <2>1, Tipos
  <2>3. QED
    BY <2>2
<1>3. tabla[p] \in Seq(Bits) /\ tabla[p][n] \in Bits
  BY <1>2, Tipos
<1>4. PICK f \in Bits : f = tabla[p][n]
  BY <1>3
<1>5. /\ hilo_cpu.pc = "reduce" /\ hilo_kernel.pc # "cuenta"
      /\ bitmap' = [bitmap EXCEPT ![f] = FALSE]
      /\ libres' = libres + 1
      /\ tabla' = [tabla EXCEPT ![p] = SubSeq(tabla[p], 1, n - 1)]
      /\ UNCHANGED <<procesos, hilo_kernel, eliminados, hilo_cpu, caida>>
  BY <1>0, <1>2, <1>4 DEF Reducir, MutexLibre, Front, Last
<1>6. /\ SubSeq(tabla[p], 1, n - 1) \in Seq(Bits)
      /\ Len(SubSeq(tabla[p], 1, n - 1)) = n - 1
      /\ \A m \in 1 .. n - 1 : SubSeq(tabla[p], 1, n - 1)[m] = tabla[p][m]
  BY <1>2, <1>3
<1>7. /\ tabla'[p] = SubSeq(tabla[p], 1, n - 1)
      /\ \A q \in Pids \ {p} : tabla'[q] = tabla[q]
      /\ tabla' \in [Pids -> Seq(Bits)]
  BY <1>5, <1>6, Tipos
<1>8. TypeOK'
  <2>1. bitmap' \in [Bits -> BOOLEAN] /\ libres' \in Nat
    BY <1>5, Tipos
  <2>2. QED
    BY <1>5, <1>7, <2>1 DEF TypeOK
<1>9. ControlKernel'
  <2>1. hilo_kernel.pc # "libre" => tabla'[hilo_kernel.pid] = tabla[hilo_kernel.pid]
    BY <1>1, <1>7, Tipos DEF ControlKernel
  <2>2. QED
    BY <1>5, <2>1 DEF ControlKernel
<1>10. ControlCpu'
  BY <1>5 DEF ControlCpu
<1>11. Paginas(p)' = 1 .. n - 1 /\ \A q \in Pids \ {p} : Paginas(q)' = Paginas(q)
  <2>1. \A q \in Pids : Soltados(q)' = Soltados(q)
    BY <1>5 DEF Soltados
  <2>2. QED
    BY <1>1, <1>6, <1>7, <2>1, Tipos DEF Paginas
<1>12. n \in Paginas(p) /\ Paginas(p)' = Paginas(p) \ {n}
  BY <1>1, <1>2, <1>11
<1>13. \A q \in Pids : \A m \in Paginas(q)' : tabla'[q][m] = tabla[q][m]
  BY <1>6, <1>7, <1>11
<1>14. Contados' = Contados + 1
  BY <1>5, Tipos DEF Contados
<1>15. MarcosCoherentes' /\ PasoDeMarcos
  BY <1>4, <1>5, <1>11, <1>12, <1>13, <1>14, SoltarMarco
<1>16. QED
  BY <1>8, <1>9, <1>10, <1>15

LEMMA FinReducirPreserva ==
  ASSUME MemoriaInv, FinReducir, UNCHANGED <<procesos, hilo_kernel, eliminados>>
  PROVE  MemoriaInv' /\ PasoDeMarcos
<1> USE DEF MemoriaInv
<1>1. /\ hilo_cpu' \in [pc : PcCpu, pid : Pids \cup {NADIE}, pags : Nat, i : Nat,
                        puntero : Pids \cup {NADIE}]
      /\ ControlCpu'
  BY Tipos DEF FinReducir, Libre, PcCpu, ControlCpu
<1>2. QED
  BY <1>1, Tipos, CpuSinMarcos DEF FinReducir

LEMMA CpuPreserva == MemoriaInv /\ AtenderCpu => MemoriaInv' /\ PasoDeMarcos
BY PedidoPreserva, RecorridoPreserva, AmpliarPreserva, RevisarPreserva,
   OcuparPreserva, ReducirPreserva, FinReducirPreserva DEF AtenderCpu

LEMMA QuietoPreserva == MemoriaInv /\ UNCHANGED vars => MemoriaInv' /\ PasoDeMarcos
<1> SUFFICES ASSUME MemoriaInv, UNCHANGED vars PROVE MemoriaInv' /\ PasoDeMarcos
  OBVIOUS
<1>1. TypeOK /\ ControlCpu
  BY DEF MemoriaInv
<1>2. caida' \in BOOLEAN /\ ControlCpu'
  BY <1>1, Tipos DEF vars, ControlCpu
<1>3. QED
  BY <1>1, <1>2, Tipos, CpuSinMarcos DEF vars

-----------------------------------------------------------------------------
(* The inductive invariant.                                                *)
THEOREM MemoriaInvariante == Spec => []MemoriaInv
<1>1. MemoriaInv /\ [Next]_vars => MemoriaInv'
  BY KernelPreserva, CpuPreserva, QuietoPreserva DEF Next
<1>2. QED
  BY <1>1, MemoriaInit, PTL DEF Spec

(* Every variable keeps its type; the unsigned counter of free frames      *)
(* never goes below zero.                                                  *)
THEOREM TiposDeMemoria == Spec => []TypeOK
BY MemoriaInvariante, PTL DEF MemoriaInv

(* No frame is in two pages; a bit is set exactly when some page has the   *)
(* frame; and no process gets a bit of the bitmap that is not a frame,     *)
(* however CANT_FRAMES falls on the byte; and the counter is the number of *)
(* clean frames, with the one half given back.                             *)
THEOREM SinMarcosCompartidosNiPerdidos == Spec => []MarcosCoherentes
BY MemoriaInvariante, PTL DEF MemoriaInv

-----------------------------------------------------------------------------
(* Out Of Memory is answered only without free frames: the counter the     *)
(* thread reads is behind the bitmap by at most the frame being given back. *)
THEOREM AvisosJustos == Spec => SinMemoriaDeVerdad
<1>1. MemoriaInv /\ [Next]_vars => [AvisoJusto]_vars
  <2> SUFFICES ASSUME MemoriaInv, [Next]_vars, vars' # vars,
                      hilo_cpu.pc \in {"amplia", "revisa"}, hilo_cpu'.pc = "libre",
                      Len(tabla[hilo_cpu.pid]) # hilo_cpu.pags,
                      NEW f \in Cuadros, ~bitmap[f]
               PROVE  /\ hilo_kernel.pc = "cuenta"
                      /\ f = tabla[hilo_kernel.pid][hilo_kernel.i + 1]
    BY DEF AvisoJusto
  <2> USE DEF MemoriaInv
  <2>1. Ampliar \/ Revisar
    BY DEF Next, AtenderKernel, AtenderCpu, PedirInstruccion, ModificarTabla, Ejecutable,
           Comparar, Obtener, Mirar, Ocupar, Reducir, FinReducir
  <2>2. CASE Revisar
    <3>1. /\ hilo_cpu.pc = "revisa" /\ hilo_cpu.i \in Nat
          /\ \E g \in Cuadros : g >= hilo_cpu.i
      BY <2>2, Tipos DEF Revisar, ControlCpu
    <3>2. ~(hilo_cpu.i >= MaxBit)
      BY <3>1, BitsDeMas DEF Cuadros
    <3>3. hilo_cpu'.pc \in {"revisa", "ocupa"}
      BY <2>2, <3>1, <3>2, Tipos DEF Revisar
    <3>4. QED
      BY <3>3
  <2>3. CASE Ampliar
    <3>1. hilo_cpu.pc = "amplia" /\ Len(tabla[hilo_cpu.pid]) < hilo_cpu.pags
      BY <2>3, ProcesoDeCpu, Tipos DEF Ampliar, ControlCpu
    <3>2. libres = 0
      <4>1. CASE libres # 0
        <5>1. hilo_cpu'.pc = "revisa"
          BY <2>3, <3>1, <4>1, ProcesoDeCpu, Tipos DEF Ampliar
        <5>2. QED
          BY <5>1
      <4>2. QED
        BY <4>1
    <3>3. f \in Limpios(bitmap) /\ IsFiniteSet(Limpios(bitmap))
      BY LimpiosFinitos DEF Limpios
    <3>4. Cardinality(Limpios(bitmap)) # 0
      BY <3>3, FS_EmptySet
    <3>5. hilo_kernel.pc = "cuenta" /\ Cardinality(Limpios(bitmap)) = 1
      BY <3>2, <3>4, CuentaDeLibres DEF MarcosCoherentes
    <3>6. tabla[hilo_kernel.pid][hilo_kernel.i + 1] \in Limpios(bitmap)
      BY <3>5 DEF ControlKernel, Limpios
    <3>7. PICK x : Limpios(bitmap) = {x}
      BY <3>3, <3>5, FS_Singleton
    <3>8. QED
      BY <3>3, <3>5, <3>6, <3>7
  <2>4. QED
    BY <2>1, <2>2, <2>3
<1>2. QED
  BY <1>1, MemoriaInvariante, PTL DEF Spec, SinMemoriaDeVerdad

-----------------------------------------------------------------------------
(* The page tables implement the frames with an owner.                     *)

DuenioClaro ==
  /\ \A p \in Pids, f \in Cuadros : Tiene(p, f) => Duenio(f) = p
  /\ \A f \in Cuadros : (\A p \in Pids : ~Tiene(p, f)) => Duenio(f) = NADIE

LEMMA DuenioUnico == MarcosExclusivos => DuenioClaro
<1> SUFFICES ASSUME MarcosExclusivos PROVE DuenioClaro
  OBVIOUS
<1>1. \A p, q \in Pids, f \in Cuadros : Tiene(p, f) /\ Tiene(q, f) => p = q
  BY DEF MarcosExclusivos, Tiene
<1>2. QED
  BY <1>1 DEF Duenio, DuenioClaro

(* Every step of MEMORIA takes a frame for one process, gives one back, or *)
(* leaves the owners alone.                                                *)
LEMMA PasoCumplido ==
  ASSUME MemoriaInv, MemoriaInv', PasoDeMarcos
  PROVE  Promesa!Next \/ UNCHANGED Duenios
<1>1. MarcosExclusivos /\ MarcosExclusivos' /\ Cuadros \subseteq Bits
  BY BitsDeMas DEF MemoriaInv, MarcosCoherentes
<1>2. /\ \A p \in Pids, f \in Cuadros : Tiene(p, f) => Duenio(f) = p
      /\ \A f \in Cuadros : (\A p \in Pids : ~Tiene(p, f)) => Duenio(f) = NADIE
  BY <1>1, DuenioUnico DEF DuenioClaro
<1>3. /\ \A p \in Pids, f \in Cuadros : Tiene(p, f)' => Duenio(f)' = p
      /\ \A f \in Cuadros : (\A p \in Pids : ~Tiene(p, f)') => Duenio(f)' = NADIE
  <2>1. DuenioClaro'
    BY <1>1, DuenioUnico, PTL
  <2>2. QED
    BY <2>1 DEF DuenioClaro
<1>4. CASE \A q \in Pids, g \in Bits : Tiene(q, g)' <=> Tiene(q, g)
  <2>1. ASSUME NEW g \in Cuadros PROVE Duenio(g)' = Duenio(g)
    <3>1. CASE \E q \in Pids : Tiene(q, g)
      BY <1>1, <1>2, <1>3, <1>4, <3>1
    <3>2. CASE \A q \in Pids : ~Tiene(q, g)
      BY <1>1, <1>2, <1>3, <1>4, <3>2
    <3>3. QED
      BY <3>1, <3>2
  <2>2. QED
    BY <2>1 DEF Duenios
<1>5. ASSUME NEW f \in Cuadros,
             \A q \in Pids, g \in Bits : Tiene(q, g)' <=> Tiene(q, g) /\ g # f
      PROVE  Promesa!Soltar(f)
  <2>1. ASSUME NEW g \in Cuadros
        PROVE  Duenio(g)' = IF g = f THEN NADIE ELSE Duenio(g)
    <3>1. CASE g = f
      BY <1>1, <1>3, <1>5, <3>1
    <3>2. CASE g # f /\ \E q \in Pids : Tiene(q, g)
      BY <1>1, <1>2, <1>3, <1>5, <3>2
    <3>3. CASE g # f /\ \A q \in Pids : ~Tiene(q, g)
      BY <1>1, <1>2, <1>3, <1>5, <3>3
    <3>4. QED
      BY <3>1, <3>2, <3>3
  <2>2. QED
    BY <2>1 DEF Promesa!Soltar, Duenios
<1>6. ASSUME NEW p \in Pids, NEW f \in Cuadros, \A q \in Pids : ~Tiene(q, f),
             \A q \in Pids, g \in Bits : Tiene(q, g)' <=> Tiene(q, g) \/ (q = p /\ g = f)
      PROVE  Promesa!Tomar(p, f)
  <2>1. Duenio(f) = NADIE
    BY <1>2, <1>6
  <2>2. ASSUME NEW g \in Cuadros
        PROVE  Duenio(g)' = IF g = f THEN p ELSE Duenio(g)
    <3>1. CASE g = f
      BY <1>1, <1>3, <1>6, <3>1
    <3>2. CASE g # f /\ \E q \in Pids : Tiene(q, g)
      BY <1>1, <1>2, <1>3, <1>6, <3>2
    <3>3. CASE g # f /\ \A q \in Pids : ~Tiene(q, g)
      BY <1>1, <1>2, <1>3, <1>6, <3>3
    <3>4. QED
      BY <3>1, <3>2, <3>3
  <2>3. QED
    BY <2>1, <2>2 DEF Promesa!Tomar, Duenios
<1>7. QED
  BY <1>4, <1>5, <1>6 DEF PasoDeMarcos, Promesa!Next

(* MEMORIA keeps the promise of Marcos: a frame passes from one process to *)
(* another only by being free.                                             *)
THEOREM MemoriaImplementaMarcos == Spec => MarcosCumplidos
<1>1. Init => Promesa!Init
  <2> SUFFICES ASSUME Init PROVE Promesa!Init
    OBVIOUS
  <2>1. MarcosExclusivos
    BY MemoriaInit DEF MemoriaInv, MarcosCoherentes
  <2>2. \A p \in Pids, f \in Cuadros : ~Tiene(p, f)
    BY DEF Init, Tiene, Paginas
  <2>3. QED
    BY <2>1, <2>2, DuenioUnico DEF Promesa!Init, Duenios, DuenioClaro
<1>2. MemoriaInv /\ MemoriaInv' /\ [Next]_vars => [Promesa!Next]_Duenios
  BY KernelPreserva, CpuPreserva, QuietoPreserva, PasoCumplido DEF Next
<1>3. QED
  BY <1>1, <1>2, MemoriaInvariante, PTL DEF Spec, MarcosCumplidos, Promesa!Spec
=============================================================================
