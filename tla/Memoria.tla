------------------------------- MODULE Memoria -------------------------------
(***************************************************************************)
(* The frames and the list of processes of MEMORIA, with the two threads   *)
(* that change them: the one that serves the KERNEL (CREAR_PROCESO,        *)
(* ELIMINAR_PROCESO) and the one that serves the CPU (SGTE_INSTRUCC,       *)
(* AJUSTAR_TAMANIO_PROCESO).                                               *)
(*                                                                         *)
(* status_frame and the operations on the list lock a mutex; allocate_frame *)
(* and the walk of SGTE_INSTRUCC read without one.  A step is what a       *)
(* thread does between two reads or writes the other can be in between of. *)
(* Indices are the code's, from 0.                                         *)
(***************************************************************************)
EXTENDS Integers, SequencesExt, FiniteSets

CONSTANTS
  Pids,             \* the PIDs KERNEL may send, each created once
  CANT_FRAMES,      \* TAM_MEMORIA / TAM_PAGINA
  MAX_PAGS,         \* bound: the largest size a program asks for, in pages
  NADIE

CHAR_BIT == 8
MaxBit   == ((CANT_FRAMES + CHAR_BIT - 1) \div CHAR_BIT) * CHAR_BIT
Bits     == 0 .. MaxBit - 1       \* what the bitmap has
Cuadros  == 0 .. CANT_FRAMES - 1  \* what the user space has

ASSUME ConstantesAssumption ==
  /\ CANT_FRAMES \in Nat
  /\ MAX_PAGS \in Nat
  /\ NADIE \notin Pids

VARIABLES
  procesos,         \* the list of t_proceso, by PID
  tabla,            \* [Pids -> Seq(Bits)]: t_proceso.pageTable
  bitmap,           \* frames_status: [Bits -> BOOLEAN]
  libres,           \* CANT_FRAMES_libres
  hilo_kernel,      \* procesar_conexion_kernel: pc, process, index
  hilo_cpu,         \* procesar_conexion_cpu: pc, process, size asked, index,
                    \* process the walk points to
  eliminados,       \* PIDs MEMORIA eliminates or has eliminated
  caida             \* MEMORIA has dereferenced NULL or freed memory

vars == <<procesos, tabla, bitmap, libres, hilo_kernel, hilo_cpu, eliminados, caida>>

PcKernel == {"libre", "suelta", "cuenta", "quita"}
PcCpu    == {"libre", "compara", "obtiene", "mira", "sin_respuesta",
             "amplia", "revisa", "ocupa", "reduce"}

Lista == {procesos[i] : i \in DOMAIN procesos}

Libre == [pc |-> "libre", pid |-> NADIE, pags |-> 0, i |-> 0, puntero |-> NADIE]

(* mutex_frames_status, which the thread of the KERNEL keeps from one step *)
(* to the next.                                                            *)
MutexLibre == hilo_kernel.pc # "cuenta"

Init ==
  /\ procesos = <<>>
  /\ tabla = [p \in Pids |-> <<>>]
  /\ bitmap = [f \in Bits |-> FALSE]
  /\ libres = CANT_FRAMES
  /\ hilo_kernel = [pc |-> "libre", pid |-> NADIE, i |-> 0]
  /\ hilo_cpu = Libre
  /\ eliminados = {}
  /\ caida = FALSE

-----------------------------------------------------------------------------
(* procesar_conexion_kernel.                                               *)

(* CREAR_PROCESO; with a path that cannot be opened nothing changes.       *)
CrearProceso(p) ==
  /\ hilo_kernel.pc = "libre"
  /\ p \notin Lista \cup eliminados
  /\ procesos' = Append(procesos, p)
  /\ UNCHANGED <<tabla, bitmap, libres, hilo_kernel, eliminados>>

(* ELIMINAR_PROCESO: KERNEL sends it for a process that is not in the CPU. *)
(* For one that is not in the list, NEW still, nothing changes.            *)
EliminarProceso(p) ==
  /\ hilo_kernel.pc = "libre"
  /\ p \in Lista
  /\ hilo_cpu.pid # p
  /\ eliminados' = eliminados \cup {p}
  /\ hilo_kernel' = [pc |-> "suelta", pid |-> p, i |-> 0]
  /\ UNCHANGED <<procesos, tabla, bitmap, libres>>

(* eliminar_proceso gives the frames back one by one: the bit ...          *)
LimpiarMarco ==
  /\ hilo_kernel.pc = "suelta"
  /\ hilo_kernel.i < Len(tabla[hilo_kernel.pid])
  /\ bitmap' = [bitmap EXCEPT ![tabla[hilo_kernel.pid][hilo_kernel.i + 1]] = FALSE]
  /\ hilo_kernel' = [hilo_kernel EXCEPT !.pc = "cuenta"]
  /\ UNCHANGED <<procesos, tabla, libres, eliminados>>

ContarMarco_M ==                        \* the counter is forgotten
  /\ hilo_kernel.pc = "cuenta"
  /\ hilo_kernel' = [hilo_kernel EXCEPT !.pc = "suelta", !.i = @ + 1]
  /\ UNCHANGED <<procesos, tabla, bitmap, libres, eliminados>>

(* ... then the counter, with the mutex locked.                            *)
ContarMarco ==
  /\ hilo_kernel.pc = "cuenta"
  /\ libres' = libres + 1
  /\ hilo_kernel' = [hilo_kernel EXCEPT !.pc = "suelta", !.i = @ + 1]
  /\ UNCHANGED <<procesos, tabla, bitmap, eliminados>>

DestruirTabla ==
  /\ hilo_kernel.pc = "suelta"
  /\ hilo_kernel.i >= Len(tabla[hilo_kernel.pid])
  /\ tabla' = [tabla EXCEPT ![hilo_kernel.pid] = <<>>]
  /\ hilo_kernel' = [hilo_kernel EXCEPT !.pc = "quita"]
  /\ UNCHANGED <<procesos, bitmap, libres, eliminados>>

(* The t_proceso is removed from the list and freed.                       *)
QuitarProceso ==
  /\ hilo_kernel.pc = "quita"
  /\ procesos' = RemoveFirst(procesos, hilo_kernel.pid)
  /\ hilo_kernel' = [pc |-> "libre", pid |-> NADIE, i |-> 0]
  /\ UNCHANGED <<tabla, bitmap, libres, eliminados>>

-----------------------------------------------------------------------------
(* procesar_conexion_cpu.  The CPU asks for one thing at a time, of a      *)
(* process it is executing.                                                *)

Ejecutable(p) == hilo_cpu.pc = "libre" /\ p \in Lista \ eliminados

Ir(pc) == hilo_cpu' = [hilo_cpu EXCEPT !.pc = pc]

(* SGTE_INSTRUCC walks the list: the size without the mutex ...            *)
PedirInstruccion(p) ==
  /\ Ejecutable(p)
  /\ hilo_cpu' = [Libre EXCEPT !.pc = "compara", !.pid = p]
  /\ UNCHANGED <<tabla, bitmap, libres, caida>>

Comparar ==
  /\ hilo_cpu.pc = "compara"
  /\ Ir(IF hilo_cpu.i < Len(procesos) THEN "obtiene" ELSE "sin_respuesta")
  /\ UNCHANGED <<tabla, bitmap, libres, caida>>

(* ... list_get with it, which past the end returns NULL ...               *)
Obtener ==
  /\ hilo_cpu.pc = "obtiene"
  /\ IF hilo_cpu.i < Len(procesos)
     THEN /\ hilo_cpu' = [hilo_cpu EXCEPT !.pc = "mira",
                                          !.puntero = procesos[hilo_cpu.i + 1]]
          /\ UNCHANGED caida
     ELSE caida' = TRUE /\ UNCHANGED hilo_cpu
  /\ UNCHANGED <<tabla, bitmap, libres>>

(* ... and the PID of what it got without it: of a t_proceso that has been *)
(* freed, anything may be read.                                            *)
Mirar ==
  /\ hilo_cpu.pc = "mira"
  /\ \/ /\ hilo_cpu.puntero = hilo_cpu.pid
        /\ hilo_cpu' = Libre
        /\ UNCHANGED caida
     \/ /\ hilo_cpu.puntero # hilo_cpu.pid
        /\ hilo_cpu' = [hilo_cpu EXCEPT !.pc = "compara", !.i = @ + 1,
                                        !.puntero = NADIE]
        /\ UNCHANGED caida
     \/ /\ hilo_cpu.puntero \notin Lista
        /\ caida' = TRUE
        /\ UNCHANGED hilo_cpu
  /\ UNCHANGED <<tabla, bitmap, libres>>

(* AJUSTAR_TAMANIO_PROCESO; with the size it already has nothing changes.  *)
ModificarTabla(p, n) ==
  /\ Ejecutable(p)
  /\ n # Len(tabla[p])
  /\ hilo_cpu' = [Libre EXCEPT !.pc = IF n > Len(tabla[p]) THEN "amplia" ELSE "reduce",
                               !.pid = p, !.pags = n]
  /\ UNCHANGED <<tabla, bitmap, libres, caida>>

Ampliar_M ==                            \* does not look at the counter
  /\ hilo_cpu.pc = "amplia"
  /\ hilo_cpu' = IF Len(tabla[hilo_cpu.pid]) >= hilo_cpu.pags
                 THEN Libre ELSE [hilo_cpu EXCEPT !.pc = "revisa", !.i = 0]
  /\ UNCHANGED <<tabla, bitmap, libres, caida>>

(* add_pages: a page at a time.  Without free frames the answer is Out Of  *)
(* Memory and the pages already added stay.                                *)
Ampliar ==
  /\ hilo_cpu.pc = "amplia"
  /\ hilo_cpu' = IF Len(tabla[hilo_cpu.pid]) >= hilo_cpu.pags \/ libres = 0
                 THEN Libre ELSE [hilo_cpu EXCEPT !.pc = "revisa", !.i = 0]
  /\ UNCHANGED <<tabla, bitmap, libres, caida>>

(* allocate_frame looks for a clean bit without the mutex ...              *)
Revisar ==
  /\ hilo_cpu.pc = "revisa"
  /\ hilo_cpu' = IF hilo_cpu.i >= MaxBit THEN Libre
                 ELSE IF bitmap[hilo_cpu.i] THEN [hilo_cpu EXCEPT !.i = @ + 1]
                 ELSE [hilo_cpu EXCEPT !.pc = "ocupa"]
  /\ UNCHANGED <<tabla, bitmap, libres, caida>>

Ocupar_M ==                             \* the bit is not set
  /\ hilo_cpu.pc = "ocupa" /\ MutexLibre
  /\ libres' = libres - 1
  /\ tabla' = [tabla EXCEPT ![hilo_cpu.pid] = Append(@, hilo_cpu.i)]
  /\ Ir("amplia")
  /\ UNCHANGED <<bitmap, caida>>

(* ... and sets it with the mutex locked.                                  *)
Ocupar ==
  /\ hilo_cpu.pc = "ocupa"
  /\ MutexLibre
  /\ bitmap' = [bitmap EXCEPT ![hilo_cpu.i] = TRUE]
  /\ libres' = libres - 1
  /\ tabla' = [tabla EXCEPT ![hilo_cpu.pid] = Append(@, hilo_cpu.i)]
  /\ Ir("amplia")
  /\ UNCHANGED caida

(* remove_pages: the last page, until the size is the one asked for.       *)
Reducir ==
  /\ hilo_cpu.pc = "reduce"
  /\ Len(tabla[hilo_cpu.pid]) > hilo_cpu.pags
  /\ MutexLibre
  /\ bitmap' = [bitmap EXCEPT ![Last(tabla[hilo_cpu.pid])] = FALSE]
  /\ libres' = libres + 1
  /\ tabla' = [tabla EXCEPT ![hilo_cpu.pid] = Front(@)]
  /\ UNCHANGED <<hilo_cpu, caida>>

FinReducir ==
  /\ hilo_cpu.pc = "reduce"
  /\ Len(tabla[hilo_cpu.pid]) <= hilo_cpu.pags
  /\ hilo_cpu' = Libre
  /\ UNCHANGED <<tabla, bitmap, libres, caida>>

-----------------------------------------------------------------------------
AtenderKernel ==
  /\ ~caida
  /\ \/ \E p \in Pids : CrearProceso(p) \/ EliminarProceso(p)
     \/ LimpiarMarco \/ ContarMarco \/ DestruirTabla \/ QuitarProceso
  /\ UNCHANGED <<hilo_cpu, caida>>

AtenderCpu ==
  /\ ~caida
  /\ \/ \E p \in Pids : \/ PedirInstruccion(p)
                        \/ \E n \in 0 .. MAX_PAGS : ModificarTabla(p, n)
     \/ Comparar \/ Obtener \/ Mirar
     \/ Ampliar \/ Revisar \/ Ocupar \/ Reducir \/ FinReducir
  /\ UNCHANGED <<procesos, hilo_kernel, eliminados>>

Next == AtenderKernel \/ AtenderCpu

Spec == Init /\ [][Next]_vars
=============================================================================
