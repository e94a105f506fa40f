# A TLA+ model of tp-2024-1c-Inoperativos: its kernel, CPU, memory and file system

The repository simulates an operating system with four programs that talk over
TCP: KERNEL (admission, scheduling, resources, I/O queues), CPU (instruction
cycle, MMU), MEMORIA (page tables, frames, instructions) and IO (interfaces,
one of them a file system). This project models, checks and proves:

* the KERNEL's scheduler with FIFO and its resources, with MEMORIA and CPU as
  the scheduler sees them (`Planificacion`);
* a turn in the CPU with RR and VRR: the timer of the quantum, the eviction
  thread, FINALIZAR_PROCESO, and the CPU's two threads (`Quantum`);
* the interfaces of the KERNEL and the IO programs (`Interfaces`);
* the frames and the process list of MEMORIA (`Memoria`);
* the memory a process sees: the MMU, the TLB, the accesses of the CPU and of
  the IO programs (`EspacioUsuario`);
* the file system of a DIALFS interface (`DialFS`).

Names of actions, variables and properties are those of the source, in Spanish.

## 1. Inventory

| Component | State it keeps | Operations | Talks to |
|---|---|---|---|
| Console (`consola.c`) | one detached thread per line typed | INICIAR_PROCESO, FINALIZAR_PROCESO, DETENER/INICIAR_PLANIFICACION, MULTIPROGRAMACION, EJECUTAR_SCRIPT, PROCESO_ESTADO | queues, semaphores and `GRADO_MULTIPROGRAMACION` (shared), MEMORIA (socket) |
| Planning (`planificacion.c`, `manejo_colas.c`) | NEW, READY, VRR queue, PLANIFICACION, six semaphores, one mutex per queue | long-term and short-term planner threads, stop and resume, quantum timer | CPU (dispatch and interrupt sockets), console, managers |
| Eviction (`desalojo.c`) | `motivo_desalojo` thread, PCB in hand | one handler per reason a PCB leaves the CPU | CPU, MEMORIA, queues, resources, interfaces |
| Resources (`manejo_recursos.c`) | per resource: counter, counting semaphore, wake-up semaphore, blocked queue; per process: what it holds | WAIT, SIGNAL, release at exit, one manager thread per resource | eviction thread, READY |
| Interfaces (`server_multih.c`, `desalojo.c`) | registered interfaces, a queue and two semaphores each | connection, request, end of operation, disconnection | IO clients, eviction thread |
| CPU (`ciclo_instrucciones.c`, `server_multih.c`) | registers, `PID_EXEC`, interrupt flag | fetch, decode, execute, interrupts | KERNEL, MEMORIA |
| MMU (`traduccion.c`) | TLB (FIFO or LRU) | translate, replace | MEMORIA |
| MEMORIA (`memoria_real.c`, `kernel_server.c`, `cpu_server.c`, `io_server.c`) | process list, page tables, frame bitmap, user space | create, eliminate, resize, frame of a page, read, write | KERNEL, CPU, IO |
| IO (`client_monoh.c`, `ops_dialfs.c`) | block file, bitmap, metadata per file | GEN_SLEEP, STDIN, STDOUT, DialFS create, delete, truncate, read, write, compaction | KERNEL, MEMORIA |
| SHARED (`send.c`, `receive.c`, sockets, structs) | none | serialisation | all |

What is hard in it:

* **Interleavings.** Every queue is filled by one thread and emptied by another,
  with a semaphore that counts what is in it and is posted in a later step. The
  counter of a resource and its counting semaphore change in separate steps of
  two threads, and the eviction thread takes instances *without* waiting.
* **Stop and resume.** DETENER_PLANIFICACION takes two semaphores and every
  queue mutex and keeps them after it returns; another thread gives them back.
  The gates of the planners read a flag without a lock and wait later.
* **A socket shared by threads.** Console threads and the eviction thread send
  and receive on one connection to MEMORIA with no lock from one to the other.
* **Partial failure.** MEMORIA refuses a program after a slot has been taken;
  an interface fails, ends or connects again with processes in its queue; the
  DialFS program ends between two blocks of a request, or with a metadata file
  half written.
* **Timeouts.** The quantum timer races the process that leaves by itself, the
  FINALIZAR_PROCESO of the same process, and the timer of the next turn.
* **Staleness.** The TLB is filled once and never invalidated; physical
  addresses are found by the CPU and used by an IO program long after.
* **Boundaries.** The frame bitmap is rounded to bytes; DialFS counts free
  blocks apart from its bitmap, and adds a position and a size as 32-bit words;
  an access crosses pages.

What makes each component correct: a PCB is in exactly one place and moves only
as `ESTADOS` says (planning); a semaphore counts exactly what its consumer will
find (planning, resources, interfaces); instances and slots are conserved
(resources, console); a stopped system moves nothing and can always be resumed
(planning); no thread waits for something nobody will give (all); a frame
belongs to one process (MEMORIA); a translation is the page table's (MMU); the
free-block count is the bitmap's and a file's blocks are its own (DialFS); what
one side writes the other reads (SHARED).

`PROJECT.json` lists the hazards at their lines, with the properties that cover
each one or the reason why none does.

## 2. Modules

| Module | What it is |
|---|---|
| `CicloDeVida` | Abstract specification: the life of a process as the enum `ESTADOS` has it. |
| `Planificacion` | The system with `ALGORITMO_PLANIFICACION=FIFO`: console, planners, eviction thread, managers, and MEMORIA and CPU as the scheduler sees them. |
| `PropiedadesPlanificacion`, `MCPlanificacion` | Its properties (with the refinement of `CicloDeVida`) and the values of its constants. |
| `Quantum` | A turn with RR or VRR: planner, timers, eviction thread, FINALIZAR_PROCESO, and the dispatch and interrupt threads of the CPU. |
| `PropiedadesQuantum`, `MCQuantum` | Its properties and values. |
| `Turnos` | Abstract specification: an interface serves, in order, one process at a time. |
| `Interfaces` | Eviction thread, one thread per connected interface, FINALIZAR_PROCESO, and the IO programs. |
| `PropiedadesInterfaces`, `MCInterfaces` | Its properties (with the refinement of `Turnos`) and values. |
| `Marcos` | Abstract specification: frames with one owner or none. |
| `Memoria` | The bitmap, the counter, the page tables and the process list of MEMORIA, with the thread that serves the KERNEL and the one that serves the CPU. |
| `PropiedadesMemoria`, `MCMemoria` | Its properties (with the refinement of `Marcos`) and values. |
| `EspacioUsuario` | The instructions of the CPU that use memory, MMU and TLB, and the accesses of the IO programs. |
| `PropiedadesEspacioUsuario`, `MCEspacioUsuario` | Its properties and values. |
| `Archivos` | Abstract specification: independent files, each with its bytes. |
| `DialFS` | The bitmap, the blocks and the metadata files of a DIALFS interface, its requests, its end and its start. |
| `PropiedadesDialFS`, `MCDialFS` | Its properties (with the refinement of `Archivos`) and values. |
| `ListasProofs` | What adding and removing an element does to a list, and how often a list has an element; used by the other proofs. |
| `PlanificacionProofs`, `ColasProofs` | Proofs about `Planificacion`: types, places, stopping and resources; NEW, READY, MEMORIA and slots. |
| `MemoriaProofs` | Proofs of all the properties of the run `marcos`. |
| `EspacioUsuarioProofs` | Proofs of all the properties of the run `espacio`. |
| `QuantumProofs` | Proofs about `Quantum`: types, one turn at a time, one place for each PCB. |
| `InterfacesProofs` | Proofs of all the properties of the runs `interfaces` and `averias` but liveness. |
| `DialFSProofs` | Proofs of all the properties of the run `archivos`: the count of free blocks, the blocks of each file, its bytes, and what an end of the program leaves. |

The modules overlap only where one stands for the other: `Planificacion` has
MEMORIA as a set of processes, which `Memoria` details; `Quantum` has the queues
of the interfaces as a set, which `Interfaces` details; `Interfaces` has an IO
program as "serves, then answers", which `DialFS` and `EspacioUsuario` detail;
`EspacioUsuario` has the frames as a set, which `Memoria` details.

Definitions whose name ends in `_M` are faulty variants of the definition that
follows them. They are not part of the specifications: each property was seen to
fail when one of them takes its place, which shows that the property does say
something about that line.

### How `Planificacion` corresponds to the code

Every POSIX thread is a program counter and what it holds: `hilo[h]` (one per
console line; a script is a thread that runs several lines), `largo`, `corto`,
`desalojo`, `gestor[r]` (one `manejador_recursos` per resource), and a counter
`bajando` for the identical `bajar_multiprogramacion` threads. `sem` holds the
semaphores of `init_sem_planificacion`, `sem_block`/`sem_instancias` the two of
each resource. Queues are sequences of PIDs; the two sockets are pairs of
sequences (TCP keeps the order). `recs_asoc[p]` is the list of resources a
process holds, as a bag: the code only adds, removes one by name, and empties
it.

One action per step between two points where another thread matters. Steps are
merged only where nothing can come between, or where what comes between can
neither see nor change what they touch:

* A queue mutex is taken and released inside one action, which requires that
  DETENER_PLANIFICACION does not hold it: `retenidos` are those of NEW and READY
  that it holds, `block_retenidos` those of the queues of the resources. It locks
  them one by one, and INICIAR_PLANIFICACION unlocks them one by one, whoever
  holds them by then; `faltan[h]` are the resources that the loop of
  `accion_int_rec` has not come to. The test of PLANIFICACION is a step before
  the first unlock, and the flag changes in a step after the last of them.
  An unlock in the middle of a `list_add` or `list_remove` of another thread,
  which two threads that stop and resume at once could bring about, is not
  modelled; nor are `mutex_cola_aux_vrr`, which only VRR uses, and the mutexes
  of the queues of the interfaces, which are in `Interfaces`.
* `result`, the global that console threads receive the answer of MEMORIA
  into, is also written by `server_escuchar` when an interface connects
  (`ConectarInterfaz`, where `INTERFACES` allows it: `server_multih.c:394`, 401,
  409). The ERROR of a handshake that names no type (416), after which the
  kernel accepts no connection any more, is not modelled.
* `signal_bin` reads the semaphore and posts: one action, since the eviction
  thread is its only caller on `sem_block` and a decrement in between leads to
  the state of one that follows.
* `instancias++` and the post of the counting semaphore in `manejar_signal` and
  `eliminar_recursos_asociados` are one action: between the two the code only
  searches lists, and the managers read `instancias` only after a successful
  wait on that semaphore.
* WAIT that grants is *two* actions (`WaitAsigna`, `WaitConfirma`), because the
  code takes the instance under one lock and waits for the semaphore later.
  The manager's are four, because it takes a different mutex from the one the
  eviction thread uses.
* `GestorAsigna` tests the queue and grants in one action: only this manager
  removes from that queue, and only its own head matters.

Where the code has undefined behaviour the model has a choice: the second
`free` of a name (`AbortarPorDobleFree` or `FinDesalojo`). A NULL PCB ends the
kernel (`kernel = "abortado"`), as `planificador_corto_plazo` does by `exit` and
`planificador_largo_plazo` by a dereference.

MEMORIA is reduced to the set of processes it has created, answered one request
at a time; it accepts a path or not (`RUTAS`), refuses to eliminate what it does
not know, and *sends nothing* for an instruction of a process it does not have
(`cpu.pc = "colgada"`). The CPU is reduced to the dispatch loop, the fetch and
the instructions EXIT, WAIT and SIGNAL; a program is any sequence of them.

### How `Memoria` corresponds to the code

`hilo_kernel` is `procesar_conexion_kernel` and `hilo_cpu` is
`procesar_conexion_cpu`, each a program counter and its local variables; each
serves one request at a time, as its socket is used by one request at a time.
`procesos` is the list, `tabla[p]` the page table of `p`, `bitmap` and `libres`
are `frames_status` and `CANT_FRAMES_libres`. A pointer to a `t_proceso` is its
PID, and it points to freed memory when the PID is not in the list. Indices are
the code's, from 0.

Where the threads can meet decides what a step is:

* `status_frame` holds `mutex_frames_status`, but `allocate_frame` reads the
  counter and the bits without it, one bit at a time. So the KERNEL's thread
  clears a bit and adds to the counter in two steps (`LimpiarMarco`,
  `ContarMarco`), and the CPU's reads the counter (`Ampliar`) and each bit
  (`Revisar`) in steps of their own. What the CPU's thread itself does with the
  mutex locked (`Ocupar`, `Reducir`) is one step, since nobody else reads
  without it.
* The walk of SGTE_INSTRUCC reads the size of the list, the element and its PID
  in three steps (`Comparar`, `Obtener`, `Mirar`), because it locks
  `mutex_lista_procesos` for the second alone.
* `encontrar_proceso_por_pid` holds the mutex for its whole walk: part of the
  step that calls it.

What the two clients may ask: the KERNEL creates a PID once and eliminates a
process that the CPU is not being served for; the CPU asks for anything about a
process that has been created and not eliminated. The KERNEL's order is that
of `manejar_exit`, which runs when the process has left the CPU or, from
FINALIZAR_PROCESO, is in a queue. CREAR_PROCESO with a path that cannot be
opened changes nothing, and OBTENER_MARCO only reads, so neither is an action
here (the second is in `EspacioUsuario`).

### Abstractions of `Planificacion` and their consequences

* `++lastPID` is atomic (the race of two console threads is left to the hazards list), and failures of `malloc`, of `recv` and of a peer are left out.
* M_OOM is handled by the code exactly as M_EXIT, so `CpuExit` stands for both.
* With `EN_ORDEN = FALSE` any thread blocked in `recv` on the connection to
  MEMORIA may get the next reply, which is what POSIX leaves open; with TRUE
  replies go to the threads in the order in which they sent. The code depends
  on the second for more than one console thread.
* `p_status` is not a variable: the code only logs it. `Estado(p)` derives the
  state from where the PCB is.

### How `Quantum` corresponds to the code

`corto` is `planificador_corto_plazo` with `planificar_quantum`, `temporizador[t]`
a `rafaga_cpu_interrupt`, `desalojo` is `motivo_desalojo`, `consola` the thread of
a FINALIZAR_PROCESO, `cpu` and `CpuInterrupt` the two threads of the CPU. The
two sockets to the CPU are four sequences; the interrupt socket holds `BUFFER`
unread messages and a thread that sends to a full one waits, which leaves every
order of the threads possible. Between what RR and VRR do the code tests
`ALGORITMO_PLANIFICACION`: here a variable that `Init` sets and no step changes,
so that one run covers both.

* A wait on a semaphore is one step with what follows it up to the next point
  that another thread sees: waiting later changes nothing for the others.
* The timer raises `hubo_interrupcion`, and sends FIN_Q, in two steps, because
  the planner reads the flag in between. `pthread_cancel` reaches a timer in
  its sleep or in its send, wherever the library has a cancellation point.
* `PID_EXEC`, the CPU's flag and what the dispatch thread sends are separate
  steps, in the order of the code: FIN_Q or INTR may come between any two.
* A FIN_Q that comes when `PID_EXEC` has been set and the reason is already sent
  makes the CPU send a NULL PCB: it ends (`cpu.pc = "caida"`).
* The lock of all the queues by `detener_planificacion` and the flag
  PLANIFICACION are one step; `Retenidas` is therefore `~PLANIFICACION`, and
  every step that uses a queue requires it to be false.

Left out: `rr_exit` (it starts at 1, gets one post per turn and each timer takes
one, so nobody waits for it), the semaphore of the long-term planner, WAIT and
SIGNAL (the run `dos_en_ejecucion` shows what they do to the turn), the detail
of a blocked process (a set, `bloqueados`) and the instructions that only change
registers. `A_TIEMPO` says whether the CPU receives a PCB before its quantum is
over; the code does nothing for it and the runs take both values.

### How `Interfaces` corresponds to the code

`cola[i]`, `sems[i]` and `lista[t]` are `diccionario_colas`, `diccionario_sem` and
`interfaces_gen`, `interfaces_stdin`, ...; a pointer to an interface is its name
and the number of its connection, and points to freed memory when it is not in
its list any more. `hilo[i]` is `esperar_fin_io`, `io[i]` the IO program, `pedidos`
and `avisos` the two directions of its socket. `desalojo` follows
`manejar_motivo_desalojo` and the three kinds of handler: those of DIALFS have
their own local flag, the others leave the global `existe_tipo` as the last one
found it, and that is modelled.

* Every list and dictionary operation is a step; the search of an interface is
  one step with the request that causes it, and creating the queue, the
  semaphore and the list entry when an interface connects is another, since no
  request can find it before the last of the three. Finding a queue and taking
  its mutex is one step (`DesalojoEncola`): a PCB added to a queue that is
  destroyed between the two, which needs an end of its interface, is not seen.
* The server accepts a connection under the name of an interface that is still
  connected, or whose thread is still in `eliminar_interfaz`. The older thread
  then walks and frees the queue of the newer one without its mutex, and a PCB it
  frees can go to READY. `ConectarRepetida` says when that begins and the model
  follows it no further (`kernel = "sin_seguir"`): nothing is claimed of such a
  behaviour from there on.
* `eliminar_interfaz` walks the queue of a disconnected interface by index,
  without its mutex, and each element is a step; so is the removal of the entry.
* Where the code uses freed memory or a NULL pointer the model lets it end the
  kernel, go on, or write to whichever interface has got the descriptor.
* The wait of `sem_exec` after a dispatch is put before the next dispatch, which
  no other thread can tell apart.

`desvios` is an auxiliary variable: which of the five paths that the code does
not survive have been taken (a request for an interface that is not in the list
of its type, because it is of another type or has gone, and that is accepted; an
interface that fails; one that ends; a FINALIZAR_PROCESO of a process it has
blocked; a connection under a name still taken). `DESVIOS` bounds the sets of them
in a behaviour, and each property says for which it holds. Names of resources are not used as names of interfaces.

### How `EspacioUsuario` corresponds to the code

A step is a request of the CPU or of an IO program to MEMORIA, or a hit in the
TLB. `cpu.acc` and `es[p]` are an access under way: what was asked, the addresses
that `list_dfs` has found so far, and how much `leer_memoria` or
`escribir_memoria` has done. `tlb`, `posicion` and `contador_global` are those of
`traduccion.c`; a victim is chosen exactly as `reemplazar_pag_lru` does. Bytes are
data, from a small set; what a text loses after a 0, and that a text may look
like the answer "ERROR", is modelled, because the code sends bytes as text
(`Texto`, `LeerError`).

The data of a write are chosen when it is written, since nothing depends on
when the register got them. Nothing follows the end of the CPU. Not modelled:
register names that do not exist, and SET, SUM, SUB and JNZ, which change
registers only; accesses of 0 bytes, which a register may ask for (`Tamanios`).
MOV_IN drops what it reads, since registers are no part of any property. `contador_global` does not wrap around within the bound.

Auxiliary variables: `achicados` (who has made its memory smaller, which is when
the TLB may lie: `Fiables` are the others), and `historia` (the order in which the
pages came, or were used), to state what the replacement should do without
its counters.

### How `DialFS` corresponds to the code

One thread serves one request at a time, so each request is one action for each
way it can go (`Crear`, `CrearSinBloques`, `Borrar`, `AmpliarAlLado`,
`AmpliarMoviendo`, `AmpliarCompactando`, ...). What can come between its writes is
that the program ends: each `...YCaer` is a request up to some point, then the end,
`Caer` an end between requests, and `Iniciar` a start over the files that are
left. `fs.bits` are the set bits, `fs.libres` is `FREE_BLOCK_COUNT` as a signed
number compared as an unsigned one (`SinEspacio`), `fs.disco` is `bloques.dat`,
`meta[f]` the metadata file and its fcb, `lista` is `lista_fcbs`. The bitmap has
`BITS_BYTE` bits in a byte, so its size is rounded up, and a file can grow past the
last block, as in the code: both files are mapped, and what lies past their end is
kept until the program ends.

* A request may end after any of the blocks it takes or frees, after the copy of
  a file that is moved, or in the writing of a metadata file, which `open` or
  `config_save` leaves empty (`VACIO`). The end in the middle of one `memcpy`, or
  of the bits of one block, is not modelled. In a compaction the metadata of
  the files are written one by one (`EtapasDeMeta`), and of the blocks all
  that is told is whether they are as cleared or as written.
* A start lists the files in any order (`readdir` promises none), and only those
  of `ConExtension`: `buscar_directorio` passes over a name whose first `.txt` is not
  its end. The file keeps its metadata, and may lose its blocks to others. An
  empty metadata file makes the program end before it has started, always.
* The position and the size of a write are added as 32-bit words (`PALABRA`,
  `Admite`) and the byte it begins at is kept in an `int` (`ByteInicial`), so a
  position near the end of the word passes the check, and writes before the file
  or behind it. What falls outside the map ends the program, as `Caer` does.

`desvios` records here the paths after which the accounts cannot be right; the
header of `PropiedadesDialFS` lists them, and each property says which it survives.

## 3. Runs

| Run | Instance | What it shows |
|---|---|---|
| `admision` | 2 console threads with 2 lines each, 4 processes, MEMORIA accepts or refuses, replies may cross, interfaces connect at any time | `UnSoloLugar`, `NewCoherente`: no PCB is ever in two places, and the long-term planner always finds one |
| `recursos` | 3 processes, 2 resources with 1 instance, a third name that is no resource, 2 WAIT/SIGNAL per process | `RecursosCoherentes` (counter, semaphore and queue agree, no manager is lost), `InstanciasConservadas`, `ReadyCoherente` |
| `parada` | 1 console thread types any 4 commands, degrees to move between, 2 processes over 1 resource with 2 instances, queue mutexes taken one by one, under fairness | `TypeOK`, slots (`CuposConservados`), `ReadyConMemoria`, what moves while planning is stopped (`ColasDetenidas`), error exits (`SoloAbortaPorDobleFree`), refinement (`CicloDeVidaCumplido`), liveness (`ReadyAtendido`, `DetenerTermina`) |
| `quantum` | 2 processes, quantum of 2, one timer; RR with a FINALIZAR_PROCESO at any time, and VRR | `TypeOK`, `UnTurnoPorVez`, and under fairness `QuantumDesaloja`, `TurnoParaTodos`, `ConsolaVuelve` |
| `interfaces` | 3 processes with 2 requests each, a GENERIC and a STDIN interface, names that do not exist and types that do not match | `PermisoUnico`, refinement (`TurnosCumplidos`), and under fairness `BloqueadoVuelve`, `DesalojoVuelve` |
| `averias` | 2 processes with one request each, a STDOUT and a DIALFS interface that fail, end, connect again once their last connection is gone or (and the behaviour stops there) before, FINALIZAR_PROCESO | `EnUnLugar` (with the types), `VuelveServido`, `SinFantasmas` |
| `marcos` | 3 processes, 3 frames, sizes up to 3 pages | `TypeOK`, `MarcosCoherentes` (one owner, none lost, no spare frame, exact counter), `SinMemoriaDeVerdad`, refinement (`MarcosCumplidos`) |
| `espacio` | 2 processes, 3 frames of 2 bytes, a TLB of 2 entries with FIFO, accesses that cross pages, 4 instructions, CPU and IO at once | `TypeOK`, `TlbCoherente`, `DireccionesVigentes`, `EnUnMarco`, `EscribeLoSuyo` |
| `lru` | 2 processes, a TLB of 3 entries with LRU, 3 pages each, 6 instructions | `VictimaMasVieja` |
| `archivos` | 3 files over 4 blocks, with the program ending between requests, after any block of one or in the writing of a metadata file, and starting again | `LibresExacto`, `DiscoCoherente` (with the types), refinement (`ArchivosCumplidos`), `AjenosIntactos` |
| `dos_en_ejecucion` | expected violation | a second process is dispatched while the first still runs |
| `despertar_perdido` | expected violation, fair | a blocked process is left behind with the instance free |

**Bounds.** `MAX_PID` processes, `LINEAS` lines per console thread and
`MAX_INSTR` WAIT/SIGNAL per program bound the counters of `Planificacion`; nothing
else is bounded there. Two processes make a queue where order matters and one can
block while the other runs; three make two of them wait together, with the
manager half way through the first. One instance is where a manager and the
eviction thread compete; two let one process hold both. Four lines in `parada`
are a creation, stop, resume and stop again, enough for the surplus posts of a
resume to be there when planning stops again. Every passing run covers its
whole state space.

In `marcos` three frames leave five spare bits in the byte of the bitmap, and
three processes of up to three pages make memory run out while one process is
being eliminated, another has pages and a third grows. `MAX_PAGS` bounds what a
program asks for: all the frames there are, so that two programs together ask for
too many.

In `quantum` two processes take turns with each other and with themselves, and
one timer means that a turn whose timer still has a FIN_Q to send waits for it;
with two timers the invariants hold too (the same configuration with
`Temporizadores = {t1, t2}` and no PROPERTIES, 3.5 million states). One process
of the two may be finalized: they differ in nothing else. `QUANTUM = 2` and
`TIEMPOS = {1}` make a process return to the VRR queue with half of its quantum,
and to READY after the second half. `BUFFER = 1` makes a sender wait.

In `interfaces` and `averias` two requests per process make a process come back
to a queue where it has been, three make two wait while one is served;
`MAX_CONEXIONES = 2` lets an interface leave and return once, with the requests
of the old connection still around. In `averias` a behaviour may take any two of the
three detours that its properties are about, not all three, or end in a
connection under a taken name.

In `espacio` an access of two bytes at an odd address crosses pages of two bytes;
two entries are less than the pages of two processes, so entries are replaced;
three frames are less than both may ask for. In `lru` three entries make "longest
ago" differ from "first". In `archivos` blocks are one byte, so sizes 1 and 2 are
blocks, 5 is more than the disc; four blocks and three files make all of growing
in place, moving, compacting and refusal happen. `COTA_LIBRES` bounds the counter
on both sides of 0. A word has 16 values (`PALABRA`), enough for an int to address
the disc; of the positions 0, 1 and 15 the last is near its end. A write from there
is the detour `vuelta`, which, as `olvido`, has a configuration of its own and is
in none of the `DESVIOS` of this run.

**Symmetry** is declared where PIDs, file names or console threads are compared
only for equality and no liveness is checked. `archivos` has a VIEW without
`respuesta`, which no guard and no property but the types reads.

`CHECK_DEADLOCK FALSE` in every configuration: the system stops when every line
has been typed and every process has ended, when planning is left stopped, when
an instruction or connection bound is spent, and when the kernel, the CPU or
MEMORIA ends as the code does.

**What the constants hide.** `ReadyConMemoria`, `SoloAbortaPorDobleFree` and
`CuposConservados` are true of one console thread, with (for MEMORIA) one reply at a
time and no interface connecting, and (for the slots) accepted programs; they are
*false* in general, and the hazards list says how. `ColasDetenidas` is true while one
thread at a time stops or resumes planning, which one console thread always does;
`parada_cruzada` shows two that break it. `UnSoloLugar`, `NewCoherente`,
`ReadyCoherente` and everything about resources need none of that. `QuantumDesaloja`
needs `A_TIEMPO`: a quantum shorter than the time a PCB takes to reach the CPU is
lost. `TlbCoherente` and `DireccionesVigentes` are about the processes that have not
shrunk. The properties of the file system and of the interfaces name the detours
after which they hold: `DesalojoVuelve` and `BloqueadoVuelve`, checked in `interfaces`
with no detours, are about behaviours with none, and `DesalojoVuelveSiempre`, which
is about the others, fails (`trabado`). `ReadyAtendido` is about programs that end.

The resume posts each gate semaphore twice and the stop takes each once, so
after some rounds a planner may pass its gate while PLANIFICACION is FALSE.
That is harmless, and `ColasDetenidas` is the reason: the queue mutexes are
what stops the system, not the gates. `DetenerTermina` shows the other half: the stop never
waits for a semaphore that nobody posts.

**Fairness.** Weak fairness of each thread as a whole (`Consola(h)`,
`PlanificadorLargo`, `RafagaCpu(t)`, `EsperarFinIo(i)`, ...). Each is a POSIX thread
or a separate process in an endless loop, so a thread that stays able to run does
run; weak fairness is enough because no property depends on who wins a semaphore
or a mutex. What the user types is not fair, nor a failure, nor (in `Quantum`) that
a program ever leaves the CPU or that an I/O operation ends: `QuantumDesaloja` is
about programs that never leave. In `Interfaces` an IO program does serve what it
has received. `ReadyAtendido` therefore assumes that the kernel is alive and that
planning is not left stopped (`Operativo`), as does `DetenerTermina` the first of the
two; `TurnoParaTodos` starts again from the last resume.

## 4. Known divergences

Where the code does not do what its own comments, messages or names say. The two
that change what the whole system does are runs, and `PROJECT.json` quotes the
lines:

* `dos_en_ejecucion`: `motivo_desalojo` posts `sem_exec` after *every* reason, also
  when the PCB has just been sent back to the CPU (`desalojo.c:18`);
* `despertar_perdido`: `signal_bin` drops a wake-up when one is pending
  (`structs.c:9`), so of two processes that block in a row only one is served.

The others have a configuration each, kept beside the runs. Each one fails by
design, with a short behaviour that shows how: `tlc -config <name>.cfg <module>.tla`.

| Configuration | Module | Violates | What happens |
|---|---|---|---|
| `sin_memoria` | `MCPlanificacion` | `ReadyConMemoria` | with two console threads a process reaches READY before MEMORIA has created it: the post does not say which process it is for (`manejo_colas.c:176`) |
| `parada_cruzada` | `MCPlanificacion` | `ColasDetenidas` | two console threads: one finds PLANIFICACION false and is slow to unlock; meanwhile the other resumes and stops again, and loses its mutexes to the first (`planificacion.c:170-177`) |
| `lista_procesos` | `MCMemoria` | `InstruccionDevuelta` | the walk of SGTE_INSTRUCC does not keep its lock (`cpu_server.c:27`): an elimination makes it skip its process |
| `quantum_perdido` | `MCQuantum` | `QuantumDesaloja` | FIN_Q reaches the CPU before the PCB: the process runs on |
| `quantum_tardio` | `MCQuantum` | `CpuSigue` | FIN_Q comes between the send of a reason and the end of the cycle: the CPU sends a NULL PCB |
| `otro_finalizado` | `MCQuantum` | `SoloElPedido` | INTERRUPT_EXIT stays raised for the next process |
| `sin_reanudar` | `MCQuantum` | `FinalizarReanuda` | INTR is answered OK for a process that is leaving by itself: nobody resumes planning |
| `trabado` | `MCInterfaces` | `DesalojoVuelveSiempre` | an M_EXIT gives no permit back: the eviction thread waits for it for ever |
| `tipo_ajeno` | `MCInterfaces` | `InterfazValida` | the global `existe_tipo` is left by an earlier request: an interface of another type is accepted |
| `doble_exit` | `MCInterfaces` | `KernelSigueActivo` | `manejar_fs_rw` calls `manejar_exit` for a PCB already freed |
| `vuelta` | `MCDialFS` | `LibresEnCero` | `ptr + size` of a write wraps around the word and passes the check: the bytes go before the file or behind it, in a clean block or in another file (`client_monoh.c:352`, `ops_dialfs.c:196`) |
| `olvido` | `MCDialFS` | `Disjuntos` | a file whose name does not end in `.txt` is left out at a restart (`ops_dialfs.c:109-114`), and the next compaction puts others over its blocks |
| `lleno` | `MCDialFS` | `Disjuntos` | a file that is moved allocates its growth twice, so the free count goes below 0 and passes for a huge one; the next growth compacts a disc that is nearly full, the count comes out 0, and the growth is refused with the file still at its old base, over the blocks of another |
| `tlb_vieja` | `MCEspacioUsuario` | `PaginaInexistenteFalla` | a RESIZE leaves its pages in the TLB: a hit gives a frame of nobody, or of another process |
| `cero` | `MCEspacioUsuario` | `LecturaFiel` | bytes are sent as text: what comes after a 0 is lost |
| `fs_sin_pagina` | `MCEspacioUsuario` | `CpuSigue` | IO_FS_WRITE of a page that does not exist takes the size of a NULL list |

Met while modelling and part of the models, without a configuration of their own:
an IO program that ends while it serves leaves the eviction thread waiting for its
permit, as in `trabado` (`HiloElimina`); a start over an existing bitmap sets the
free count to BLOCK_COUNT whatever the bits say (`Iniciar`);
compaction counts every block as freed, set or not (`Compactado`); a file grows in
place past the last block (detour `fuera`); a file may not take the very last
free block, since the comparison refuses what fits exactly (`SinEspacio`); a
truncate frees blocks counted from block 0 and not from the file's base, so that
it may free those of another file (detour `achicar`, `SinUltimos`); an empty
metadata file, which an end of the program in the middle of a `config_save` leaves,
keeps the interface from ever starting again (`Iniciar`); a connection under the name
of a live interface shares its queue with the older one (`ConectarRepetida`);
`aumentar_instancias_recurso` frees the name that its caller frees again, so that
an invalid SIGNAL may end the kernel (`AbortarPorDobleFree`); a process with the
text ERROR in its memory cannot read it (`LeerError`); a COPY_STRING that fails
goes on after its instruction has been freed (`Fallar`).

## 5. Proofs

TLAPS checks these for every value of the constants allowed by the
`ConstantesAssumption` of each part (for `Planificacion`, any number of processes,
resources, instances and console threads, finite for the last two, any commands,
replies in any order; for `Memoria`, any processes, any number of frames and any
sizes; for `EspacioUsuario`, any processes, pages, frames, entries of the TLB, either
algorithm, any bytes, any instructions and any accesses of a byte or more; for `Quantum`, any finite set of processes,
any timers, quantum and socket size, both algorithms; for `Interfaces`, any finite set
of processes, any interfaces of any types, any requests and any connections up to the
first one under a taken name; for `DialFS`, a disc and blocks of any size, any word
that can count the bytes of the disc twice, any files with any names, and any sizes
and positions asked). In each of
them `NADA` stands for the NULL pointer, and differs from every PID and name:

| Theorem | States |
|---|---|
| `TipoCorrecto` | `Spec => []TypeOK` (of `Planificacion`) |
| `UnSoloLugarSiempre` | `Spec => []UnSoloLugar` (of `Planificacion`) |
| `CicloDeVidaSiempre` | `Spec => CicloDeVidaCumplido` |
| `ColasDetenidasSiempre` | `Spec /\ []UnaParadaALaVez => ColasDetenidas` |
| `RecursosSiempreCoherentes` | `Spec => []RecursosCoherentes` |
| `InstanciasSiempre` | `Spec => []InstanciasConservadas` |
| `ReadyContada` | `Spec => []ReadyCoherente` |
| `NewContada` | `Spec => []NewCoherente` |
| `PlanificadoresConPcb` | no step of a planner ends the kernel |
| `ReadyConMemoriaDeAUna` | `Spec => []ReadyConMemoria`, under `DeAUna` |
| `SoloAbortaPorDobleFreeDeAUna` | `Spec => []SoloAbortaPorDobleFree`, under `DeAUna` |
| `CuposConservadosDeAUna` | `Spec => []CuposConservados`, under `DeAUna` and with accepted programs |
| `TiposDeMemoria` | `Spec => []TypeOK` (of `Memoria`) |
| `SinMarcosCompartidosNiPerdidos` | `Spec => []MarcosCoherentes` |
| `AvisosJustos` | `Spec => SinMemoriaDeVerdad` |
| `MemoriaImplementaMarcos` | `Spec => MarcosCumplidos` |
| `TlbCoherenteSiempre` | `Spec => []TlbCoherente` |
| `DireccionesVigentesSiempre` | `Spec => []DireccionesVigentes` |
| `TiposDeEspacio` | `Spec => []TypeOK` (of `EspacioUsuario`) |
| `EnUnMarcoSiempre` | `Spec => []EnUnMarco` |
| `EscribeLoSuyoSiempre` | `Spec => EscribeLoSuyo` |
| `TiposSiempre` | `Spec => []TypeOK` (of `Quantum`) |
| `UnTurnoPorVezSiempre` | `Spec => []UnTurnoPorVez` |
| `TiposDeInterfaces` | `Spec => []TypeOK` (of `Interfaces`) |
| `SinFantasmasSiempre` | `Spec => []SinFantasmas` |
| `EnUnLugarSiempre` | `Spec => []EnUnLugar` |
| `PermisoUnicoSiempre` | `Spec => []PermisoUnico` |
| `VuelveServidoSiempre` | `Spec => []VuelveServido` |
| `CumplenTurnos` | `Spec => TurnosCumplidos` |
| `LibresExactoSiempre` | `Spec => []LibresExacto` (of `DialFS`) |
| `DiscoCoherenteSiempre` | `Spec => [](Sano => DiscoCoherente)` |
| `CumplenArchivos` | `Spec => ArchivosCumplidos` |
| `AjenosIntactosSiempre` | `Spec => AjenosIntactos` |

`DeAUna` is one console thread, replies taken by the thread that asked
(`EN_ORDEN`) and no interface connecting meanwhile (`~INTERFACES`).

**Types.** `TypeOK` is not inductive: a thread that appends to a queue must
have a PCB in hand, and its program counter is what says so. `TipoInv` adds
`EnMano`, which relates each counter to what the thread holds. There is one
lemma per thread and one step per action. `RemoveFirstTipo` is about
`sacar_pcb_lista`: what is left is a queue, at most one shorter.

**The place of each PCB.** `UnSoloLugar` is not inductive: a manager still names the
PCB it has granted the resource to after it takes *whatever is first* out of the queue.
`UnLugarInv` says why that is the same one (`ManosExactas`: only the manager removes,
so its PCB stays first) and counts, for each PCB, NEW, READY, EXEC and, per resource,
its queue and its manager (`Separado`). Every action leaves all the counts of a PCB as
they are (`Quieto`) or makes one move (`Mueve`: it is born, enters, passes on, blocks or
is unblocked), which is `PasoDePcb`, one lemma per thread. A move takes from one count
what it gives to another, so no count passes one. The refinement of `CicloDeVida`
follows from the same moves: the state of a process is a function of its counts
(`EstadoSegun`), and each move is an action of the abstract specification
(`MudanzaCiclo`).

**Stopping.** `ParadaInv` is `TipoInv` and `LoRetenido`: which mutexes are held, given how
far the thread that stops or resumes has come, and that all of them are while the
flag is down and nobody does either. It is kept while one thread at a time does
(`UnaParadaALaVez`, in the state and in the next one), and only then: any other
thread in `Parando` or `Abriendo` could undo it. `ColasConMutex` is that each step
that moves a PCB takes the mutex of its queue. Their conjunction is `ColasDetenidas`.

**Resources.** `RecursosInv` is the type invariant, the two counts
(`SemInstanciasCoherente`, `BlockCoherente`), `NadieEspera` and
`GestoresVivos`. The argument: a manager reads its queue after taking one token
of each semaphore. The first token has a process in the queue behind it
(`BlockCoherente`), because only the manager removes and the eviction thread
posts after it enqueues. With the second token in hand the counter is one above
the semaphore, unless the eviction thread has just taken an instance; but that
thread grants only when nobody waits, and it is the only one that enqueues, so
the queue is still empty (`NadieEspera`), which contradicts the first point.
So the manager finds both, does not return, and its thread lives on. The same
case analysis shows that the eviction thread never blocks on the semaphore.

**Instances.** `InstanciasConservadas` adds a column of `recs_asoc`, with a recursive
function. `SumaExiste` says that it is the running sum (`EsSuma`), and `SumaCambia` that
when one term changes the total changes as it does; both are inductions over a *set*
of numbers, whose least element outside it would not be least (`Induccion`, from the
well-foundedness of `<` in the library). The steps that change the row of a process are
the grant of a WAIT, by the eviction thread or by a manager, SIGNAL, and the release in
`manejar_exit`; each gives the counter what it takes from the row (`Traspaso`).

**Queues.** `ReadyCoherente` and `NewCoherente` are inductive over `TipoInv`;
the cardinalities of the sets of threads that are half way change by one with
each step (`FS_AddElement`, `FS_RemoveElement`), which is why the constants
must be finite sets. Each holds only because the other side of the sum moves in
the same thread; `HayPcb` is their consequence that neither planner takes from
an empty queue, and it feeds back into the induction.

**MEMORIA before READY.** `ConMemoriaInv`, under `DeAUna`; paths, resources and programs
are any. (An interface that connects would write OK over the ERROR of MEMORIA.) `Dialogo` says that every message of `conexion_memoria` is from a thread that
waits for its answer, that no thread has two, and that an answer tells what MEMORIA
did. Hence at most the last process of NEW is unknown to MEMORIA, and only while its
thread is between the two lists and the post (`NewEnMemoria`). `NewCoherente` says
that NEW then has two elements when the planner comes for one, so it takes a process
that MEMORIA has. From there on it is in READY, EXEC or a queue of a resource
(`AsentadosEnMemoria`) until `manejar_exit` asks for its end, and by `UnLugarInv` the
process that is leaving is nowhere else, so MEMORIA forgets nobody who may still run
and never answers that it does not have the process (`SoloAbortaPorDobleFree`). With
two threads both break: the post names no process and replies may cross, which is
what the configuration `sin_memoria` shows.

**Slots.** `CuposInv`, over `ConMemoriaInv`, for programs that MEMORIA accepts
(`RUTAS \subseteq {"valida"}`: a refused one keeps its slot). `Admitidos` says that
every answer is then OK, the one to `manejar_exit` because its process is in MEMORIA.
`Vivo` is to be in the system as a place, which each step keeps in a glance
(`LargoVivo` to `GestorVivo`) where a sum of counts would not; `VivoCuentas` is why it
is the same as `Copias(p) > 0`, and `NadieEntra` that nobody comes back. So the set
of those with a slot (`Ocupados`) gains one with the `sem_wait` of admission, loses one
with the `sem_post` of `manejar_exit`, by then the last place of that process, and
changes with nothing else; MULTIPROGRAMACION and its threads move both sides alike.

**Frames.** `MemoriaInv` is the types, the four invariants about frames, and
where each thread is. The point is what `allocate_frame` reads without the
mutex. `ControlCpu` says that a clean bit at or after the index is still there
to be found, and that the bit found is still clean when it is set: true because
only this thread sets bits, while the other only clears them. That the counter
was not zero gives such a bit *below CANT_FRAMES* (`LibresCoherente`: the
counter is never ahead of the bitmap), and the search goes upwards, so it never
comes to the spare bits. `ControlKernel` says that the frame between its bit and
the counter is clean, and the mutex keeps it so, which is why Out Of Memory is
wrong by one frame at most. Steps that give a frame back, take one or leave
them are three lemmas (`SoltarMarco`, `TomarMarco`, `MismosMarcos`), which also
give `PasoDeMarcos`, from which the refinement of `Marcos` follows
(`PasoCumplido`). The owner of a frame is a CHOOSE, and `DuenioUnico` is why
that does not matter.

**Translation.** `EspacioInv` is the types in five parts, `TlbCoherente` and
`DireccionesVigentes`, and that a process in the CPU has not been eliminated. Each
needs the other: an entry of the TLB is right because the answer of MEMORIA it came
from was the page table's (`TlbMissInv`), an address is right because the entry or
the answer it came from was (`TraducidaVigente`, where the k-th address is the
page `dir \div TAM_PAGINA + k`). Page tables of others do not change, one's own
only grows at its end (`CreceVigencia`) unless the process shrinks or is
eliminated, and then it is no longer in `Fiables`. There is one lemma per action;
the steps that only move bytes are lemmas about the access they leave
(`VigenteAvanzado`, `EsSigueInv`).

**Bytes in a frame.** `AccesosInv` says of each access under way where it is:
how many bytes `leer_memoria` or `escribir_memoria` has done, that each next one
begins at its page, and that the addresses `list_dfs` has found are as many as the
pages still to do. From it the size of each request is at most the rest of its
page, and zero bytes are left exactly when no address is (`EnUnMarco`), with the
arithmetic of `\div` and `%` in lemmas of their own. It says nothing of who owns a
frame, so it also covers stale addresses. `MarcosPropios`, that no frame is in two
page tables, is what turns "it writes at its addresses" and `DireccionesVigentes`
into "it writes its own pages" (`EscribeLoSuyo`).

**Turns.** `InvQuantum` is the types with what each thread holds (`Manos`), `Turno`
and the one place of each PCB. `Turno` counts: messages in the two sockets, the PCB
in the CPU and the one the eviction thread handles add up to at most one
(`EnCamino`), and where the planner is tells how many, and how many posts each of
`sem_exec`, `sem_Q` and `sem_tiempo_ejecutado` has. A timer, the interrupt thread
and FINALIZAR_PROCESO change none of them but the reason with which the PCB
leaves. `UnSoloLugar` needs the other two, because a PCB that leaves a socket is in
the next place only if the socket had no other.

**Interfaces.** Three invariants, each over the one before it:

* `TiposInv`: the types, and that a thread past a test still has what was tested.
  `sem_exec` is posted once for a PCB in the CPU, so it never has two posts.
* `PartesInv`: each PCB is in one place at most (`Separados`), one that
  `manejar_exit` has freed is in no place from which it could run (`Liberado`), and
  while no interface has ended every other is somewhere (`Presente`). It holds
  after every detour that the model follows, which is where it is needed: an element that
  `eliminar_interfaz` or `finish_pcb` takes out of a queue is counted by the thread
  that holds it. Each action is an instance of a few moves (`Entra`, `Deja`, `Mengua`).
* `PermisosInv`, while the interfaces only fail: for each one, the sum of the places
  of the permit is one, or less when an M_EXIT has kept it (`PermisoInv`); the queue
  is the process being served and the one the eviction thread has queued and not
  sent yet (`FilaInv`); and the entry that thread found is still in its list
  (`PunteroInv`).

`PermisoUnico` and `VuelveServido` are consequences of the third with the second.
The refinement of `Turnos` goes by phases: `Fase(i)`, which `FilaInv` determines, moves
from waiting to being served to done, each action moves one interface at most
(`Quieta` is what happens to the others), and each move of a phase with its change
of the queue is an action of `Turnos` or a stutter.

**Free blocks.** `CuentasInv` says, while no detour has been taken, that the bits are
inside the disc and the counter is right, and of each file *in the list* that its blocks
are set (`Anotado`) and nobody else's (`Aparte`), and that it is there once. The counter
needs all three: a delete counts as many blocks as the size says, whether they were set
or not. Detours only grow (`DesviosCrecen`), so the steps that take one need no
argument, and a start is none only on an empty disc.

**The blocks of each file.** `DiscoInv` says, while no file has been damaged (`Sano`:
moves, compactions, restarts and leaked blocks are no damage), what the disc is
(`Hechos`: types, no bit past the last block, a clean block has nothing), what the
metadata files say (`Catalogo`: the blocks of each are set and no other's), what the
running program has (`Vigente`: its list is the files there are, each once) and that
answers and detours are the ones named. A compaction is where it is needed: each file
goes to the sum of the blocks of those before it in the list, so two files are apart
because a running sum grows by at least the blocks of the file it goes over
(`SumaCrece`, by induction on the fold), what is written behind the files is zeros
(`BufferDa`), and a step that would pass the last block is one of the damages
(`FueraSano`). The theorem is about the states in `Sano`, the types included: once a
file has gone on past the last block nothing in the code bounds how far it goes.

**The bytes of each file.** `ArchivosCumplidos` asks of each step which contents
change. Every request leaves the blocks of the other files where they are, and
writes inside those of its own or on blocks that were clean, which `DiscoInv` says
nobody has: a delete, a growth in place (`BorradoBytes`, `AmpliadoBytes`), a write within
the size of the file (past it is the detour `vuelta`), a move, whose gap is clean
(`MovidoBytes`). The bytes a file grows by are 0
because clean blocks are (`LibresEnCero`). In a compaction the byte of the buffer at
a file's new place is the file's, since running sums do not overlap, and the file
that grows is written behind all of them (`CompactadoBytes`). The same lemmas give
`AjenosIntactos` (`EtapasBytes`):
an end leaves the blocks as some prefix of that work has them, with the metadata
as they were or one of them empty, so what changes is the contents of the file of
the request, and of no other.

**Model-checked only.** Liveness, which the prover does not handle, and
`VictimaMasVieja`, whose history filters a sequence with `SelectSeq`, a library operator
the prover has no definition of.

## 6. Plan

Theorems: `VictimaMasVieja`, with a history that does not use `SelectSeq`.

Models: RR and VRR composed with admission and with WAIT and SIGNAL;
FINALIZAR_PROCESO of a process in NEW or blocked by a resource; the increment of
`lastPID` by two console threads at once; two connections of one name; what `send.c`
writes against what `receive.c` reads.

## 7. Not modelled

* Socket set-up and handshakes, configuration files, logging, building and
  deployment: no state that a property could be about. PROCESO_ESTADO only
  prints.
* SHARED's messages: every module takes a message as a record and a connection
  as a FIFO queue, but for the text that ends at a 0 (`EspacioUsuario`).
* The descriptor that `recibir_operacion` and `eliminar_interfaz` both close.
* Instructions that only change registers: SET, SUM, SUB, JNZ.
* What follows a connection under a name that is still taken, and a handshake
  of an interface that names no type.
* An unlock of a queue mutex in the middle of another thread's list operation,
  and the end of the DialFS program in the middle of one `memcpy`.
* Failures of `malloc`, of `recv` and of a peer other than an IO program.
* What the hazards list of `PROJECT.json` leaves without a property, with the
  reason there.
