------------------------- MODULE PropiedadesMemoria -------------------------
(***************************************************************************)
(* What has to be true of the MEMORIA modelled in Memoria.                 *)
(***************************************************************************)
EXTENDS Memoria

(* Types of every variable.  The counter is unsigned: one step too many    *)
(* and it would wrap.                                                      *)
TypeOK ==
  /\ procesos \in Seq(Pids)
  /\ tabla \in [Pids -> Seq(Bits)]
  /\ bitmap \in [Bits -> BOOLEAN]
  /\ libres \in Nat
  /\ hilo_kernel \in [pc : PcKernel, pid : Pids \cup {NADIE}, i : Nat]
  /\ hilo_cpu \in [pc : PcCpu, pid : Pids \cup {NADIE}, pags : Nat, i : Nat,
                   puntero : Pids \cup {NADIE}]
  /\ eliminados \subseteq Pids
  /\ caida \in BOOLEAN

(* The pages whose frame the process has: while it is being eliminated,    *)
(* those eliminar_proceso has not come to yet.                             *)
Soltados(p) == IF hilo_kernel.pid # p THEN 0
               ELSE hilo_kernel.i + (IF hilo_kernel.pc = "cuenta" THEN 1 ELSE 0)

Paginas(p) == {n \in 1 .. Len(tabla[p]) : n > Soltados(p)}

Tiene(p, f) == \E n \in Paginas(p) : tabla[p][n] = f

(* No frame is in two pages, of one process or of two.                     *)
MarcosExclusivos ==
  \A p, q \in Pids : \A n \in Paginas(p), m \in Paginas(q) :
    tabla[p][n] = tabla[q][m] => p = q /\ n = m

(* A bit is set exactly when some page has the frame: none is leaked, not  *)
(* even when memory runs out half way, and none is given while free.       *)
MarcosConTitular == \A f \in Bits : bitmap[f] <=> \E p \in Pids : Tiene(p, f)

(* The bitmap has bits beyond the last frame, and nothing but the counter  *)
(* keeps allocate_frame from giving them.                                  *)
MarcosReales == \A f \in Bits : bitmap[f] => f \in Cuadros

(* The counter is the number of clean bits that are frames, also while the *)
(* other thread is between the bit and the counter.                        *)
LibresCoherente ==
  libres + (IF hilo_kernel.pc = "cuenta" THEN 1 ELSE 0)
    = Cardinality({f \in Cuadros : ~bitmap[f]})

(* A frame has one owner or none; the bitmap knows which of the two, and   *)
(* the counter how many there are.                                         *)
MarcosCoherentes ==
  MarcosExclusivos /\ MarcosConTitular /\ MarcosReales /\ LibresCoherente

(* Out Of Memory is answered only when no frame is free, but for one that  *)
(* is being given back at that moment.                                     *)
AvisoJusto ==
  hilo_cpu.pc \in {"amplia", "revisa"} /\ hilo_cpu'.pc = "libre"
    => \/ Len(tabla[hilo_cpu.pid]) = hilo_cpu.pags
       \/ \A f \in Cuadros : ~bitmap[f] =>
            /\ hilo_kernel.pc = "cuenta"
            /\ f = tabla[hilo_kernel.pid][hilo_kernel.i + 1]

SinMemoriaDeVerdad == [][AvisoJusto]_vars

(* The owner of each frame, from the page tables.                          *)
Duenio(f) == IF \E p \in Pids : Tiene(p, f)
             THEN CHOOSE p \in Pids : Tiene(p, f) ELSE NADIE

Duenios == [f \in Cuadros |-> Duenio(f)]

Promesa == INSTANCE Marcos WITH Procesos <- Pids, duenio <- Duenios

(* A frame passes from one process to another only by being free.          *)
MarcosCumplidos == Promesa!Spec

-----------------------------------------------------------------------------
(* cpu_server.c: "Buscar en la lista de instrucciones la instruccion que   *)
(* corresponde al PID y devolver la instruccion de la posicion PC": the    *)
(* walk finds the process, whatever the KERNEL eliminates meanwhile.       *)
InstruccionDevuelta == hilo_cpu.pc # "sin_respuesta" /\ ~caida
=============================================================================
