-------------------------------- MODULE DialFS --------------------------------
(***************************************************************************)
(* The file system of an IO interface of type DIALFS: bitmap.dat,          *)
(* bloques.dat and one metadata file per file, and the one thread that     *)
(* serves the requests of the KERNEL.  Its operations are sequential; what *)
(* can come between their steps is that the program ends, and it starts    *)
(* again from the files.                                                   *)
(*                                                                         *)
(* Both .dat files are mapped, and what is read or written past their end  *)
(* falls in the rest of their last page (512 bytes of 4096 in FS.config)   *)
(* and is lost when the program ends.                                      *)
(*                                                                         *)
(* An fcb in memory and its metadata file change together                  *)
(* (escribir_metadata), so meta stands for both.                           *)
(***************************************************************************)
EXTENDS Integers, SequencesExt, FiniteSetsExt

CONSTANTS
  Nombres,          \* the files the programs use
  ConExtension,     \* those whose first ".txt" is the end of the name
  Datos,            \* what a process may write, other than 0
  BLOCK_SIZE, BLOCK_COUNT,
  BITS_BYTE,        \* the bits of a byte of the bitmap: 8, fewer in a small disc
  Tamanios,         \* sizes the processes send, in bytes
  Punteros,         \* positions they send
  PALABRA,          \* how many values a uint32_t has: 2^32, fewer with a small disc
  COTA_LIBRES,      \* bound of FREE_BLOCK_COUNT on both sides of 0
  DESVIOS,          \* bound: sets of detours (below) a behaviour may take
  NADA,             \* no metadata file
  VACIO             \* an empty one

ASSUME ConstantesAssumption ==
  /\ BLOCK_SIZE \in Nat \ {0}
  /\ BLOCK_COUNT \in Nat \ {0}
  /\ BITS_BYTE \in Nat \ {0}
  /\ PALABRA \in Nat /\ 2 * (BLOCK_SIZE * BLOCK_COUNT) < PALABRA   \* the disc fits an int
  /\ Tamanios \cup Punteros \subseteq 0 .. PALABRA - 1
  /\ ConExtension \subseteq Nombres
  /\ 0 \notin Datos
  /\ {NADA, VACIO} \cap [base : Nat, tam : Nat] = {}

VARIABLES
  fs,               \* bits: the set bits of the bitmap; libres:
                    \* FREE_BLOCK_COUNT; disco: bloques.dat, byte by byte
  meta,             \* [Nombres -> base block and size, NADA or VACIO]
  lista,            \* lista_fcbs, by name
  activo,           \* the program is running
  respuesta,        \* what the last request was answered
  desvios           \* auxiliary: which of the paths the accounts do not
                    \* survive have been taken (see PropiedadesDialFS)

vars == <<fs, meta, lista, activo, respuesta, desvios>>

Desvios == {"achicar", "mover", "compactar", "fuera", "reinicio", "fuga", "caida",
            "caida_compactando", "rechazo", "vuelta", "olvido", "vaciada"}

TechoDiv(n, d) == (n + d - 1) \div d

MaxBit    == TechoDiv(BLOCK_COUNT, BITS_BYTE) * BITS_BYTE
Cola      == MaxBit + BLOCK_COUNT           \* as far as a file can reach
Posiciones == 0 .. Cola * BLOCK_SIZE - 1

CalcularBloques(tam) == Max({TechoDiv(tam, BLOCK_SIZE), 1})

Tramo(b, n)  == b .. b + n - 1
Cantidad(f)  == CalcularBloques(meta[f].tam)
Bloques(f)   == Tramo(meta[f].base, Cantidad(f))

-----------------------------------------------------------------------------
(* What the functions on blocks do to the bitmap, the counter and the disc. *)

AllocateBlocks(e, b, n) ==
  [e EXCEPT !.bits = @ \cup Tramo(b, n), !.libres = @ - n]

(* It counts every block, set or not, and writes zeros on it.              *)
DeallocateBlocks(e, b, n) ==
  [e EXCEPT !.bits = @ \ Tramo(b, n),
            !.libres = @ + n,
            !.disco = [x \in DOMAIN @ |->
                        IF x \div BLOCK_SIZE \in Tramo(b, n) THEN 0 ELSE @[x]]]

(* dato is indexed from 0, as the buffers are.                             *)
EscribirBloques(e, dato, byte) ==
  [e EXCEPT !.disco = [x \in DOMAIN @ |->
      IF x - byte \in DOMAIN dato THEN dato[x - byte] ELSE @[x]]]

LeerBloques(byte, n) == [x \in 0 .. n - 1 |-> fs.disco[byte + x]]

Fuera(e) == IF \E b \in e.bits : b >= BLOCK_COUNT THEN {"fuera"} ELSE {}

Responder(r) == respuesta' = r

(* The request is refused, or there is nothing to do.                      *)
Contestar(r) == Responder(r) /\ UNCHANGED <<fs, meta, lista, activo, desvios>>

(* Blocks, then metadata, then the answer.                                 *)
Completar(e, f, base, tam, desvio) ==
  /\ fs' = e
  /\ meta' = [meta EXCEPT ![f] = [base |-> base, tam |-> tam]]
  /\ desvios' = desvios \cup desvio \cup Fuera(e)
  /\ Responder("ok")
  /\ UNCHANGED <<lista, activo>>

Terminar(e, desvio) ==
  /\ fs' = e
  /\ lista' = <<>>
  /\ activo' = FALSE
  /\ desvios' = desvios \cup desvio \cup Fuera(e)
  /\ Responder("nada")

(* The program ends among the blocks, before the metadata is written.      *)
CaerCon(e, desvio) == Terminar(e, desvio) /\ UNCHANGED meta

(* It ends while it writes the metadata: open creates the file, and        *)
(* config_save opens it to be written, with nothing in it.                 *)
CaerEnMetadata(f, e) == Terminar(e, {"vaciada"}) /\ meta' = [meta EXCEPT ![f] = VACIO]

-----------------------------------------------------------------------------
(* IO_FS_CREATE and IO_FS_DELETE.                                          *)

PrimeroLibre == Min((0 .. MaxBit - 1) \ fs.bits)

CrearDuplicado(f) == f \in ToSet(lista) /\ Contestar("ok")

CrearSinBloques(f) ==
  /\ f \notin ToSet(lista)
  /\ 0 .. MaxBit - 1 \subseteq fs.bits
  /\ Contestar("M_EXIT")

PuedeCrear(f) == f \notin ToSet(lista) /\ ~ (0 .. MaxBit - 1 \subseteq fs.bits)

ConBloqueBase == AllocateBlocks(fs, PrimeroLibre, 1)

Crear(f) ==
  /\ PuedeCrear(f)
  /\ fs' = ConBloqueBase
  /\ meta' = [meta EXCEPT ![f] = [base |-> PrimeroLibre, tam |-> 0]]
  /\ lista' = Append(lista, f)
  /\ desvios' = desvios \cup Fuera(ConBloqueBase)
  /\ Responder("ok")
  /\ UNCHANGED activo

CrearYCaer(f) ==
  /\ PuedeCrear(f)
  /\ CaerCon(ConBloqueBase, {"fuga"}) \/ CaerEnMetadata(f, ConBloqueBase)

SinPrimeros_M(f, k) ==                  \* one block more
  DeallocateBlocks(fs, meta[f].base, k + 1)

SinPrimeros(f, k) == DeallocateBlocks(fs, meta[f].base, k)

SinSusBloques(f) == SinPrimeros(f, Cantidad(f))

Borrar(f) ==
  /\ f \in ToSet(lista)
  /\ fs' = SinSusBloques(f)
  /\ meta' = [meta EXCEPT ![f] = NADA]
  /\ lista' = RemoveFirst(lista, f)
  /\ Responder("ok")
  /\ UNCHANGED <<activo, desvios>>

BorrarYCaer(f) ==
  /\ f \in ToSet(lista)
  /\ \E k \in 1 .. Cantidad(f) : CaerCon(SinPrimeros(f, k), {"caida"})

NoEsta(f) == f \notin ToSet(lista) /\ Contestar("M_EXIT")

-----------------------------------------------------------------------------
(* IO_FS_TRUNCATE of f to tam bytes.                                       *)

Nuevos(tam)      == CalcularBloques(tam)
Agregados(f, tam) == Nuevos(tam) - Cantidad(f)

NoEntraEnDisco(f, tam) ==
  /\ f \in ToSet(lista)
  /\ Nuevos(tam) > BLOCK_COUNT
  /\ Contestar("M_EXIT")

MismosBloques(f, tam) ==
  /\ f \in ToSet(lista)
  /\ Nuevos(tam) = Cantidad(f)
  /\ Completar(fs, f, meta[f].base, tam, {})

MismosYCaer(f, tam) ==
  /\ f \in ToSet(lista)
  /\ Nuevos(tam) = Cantidad(f) /\ meta[f].tam # tam
  /\ CaerEnMetadata(f, fs)

(* disminuir_archivo counts the blocks to free from block 0, not from the  *)
(* base of the file.                                                       *)
Sobran(f, tam) == Cantidad(f) - Nuevos(tam)

SinUltimos(tam, k) == DeallocateBlocks(fs, Nuevos(tam), k)

Ajenos(f) == IF meta[f].base = 0 THEN {} ELSE {"achicar"}

DisminuirArchivo(f, tam) ==
  /\ f \in ToSet(lista)
  /\ Nuevos(tam) < Cantidad(f)
  /\ Completar(SinUltimos(tam, Sobran(f, tam)), f, meta[f].base, tam, Ajenos(f))

DisminuirYCaer(f, tam) ==
  /\ f \in ToSet(lista)
  /\ Nuevos(tam) < Cantidad(f)
  /\ \/ \E k \in 1 .. Sobran(f, tam) : CaerCon(SinUltimos(tam, k), {"caida"} \cup Ajenos(f))
     \/ Ajenos(f) = {} /\ CaerEnMetadata(f, SinUltimos(tam, Sobran(f, tam)))

(* The comparison is unsigned: a counter below 0 passes for a huge one.    *)
SinEspacio(n) == fs.libres \in 0 .. n

Crece(f, tam) ==
  /\ f \in ToSet(lista)
  /\ Nuevos(tam) \in Cantidad(f) + 1 .. BLOCK_COUNT

AumentarRechazado(f, tam) ==
  /\ Crece(f, tam)
  /\ SinEspacio(Agregados(f, tam))
  /\ Contestar("M_EXIT")

Aumenta(f, tam) == Crece(f, tam) /\ ~SinEspacio(Agregados(f, tam))

Final(f) == meta[f].base + Cantidad(f)

(* espacio_contiguo_ady has no limit but the size asked.                   *)
EspacioAdy_M(f, n) == Tramo(Final(f) + 1, n) \cap fs.bits = {}   \* one block late

EspacioAdy(f, n) == Tramo(Final(f), n) \cap fs.bits = {}

(* espacio_contiguo_disp: where the whole file fits, the first one.        *)
Huecos(n)        == {b \in 0 .. BLOCK_COUNT - n : Tramo(b, n) \cap fs.bits = {}}
EspacioDisp(n)   == Huecos(n) # {}

ConOtros(f, k)   == AllocateBlocks(fs, Final(f), k)
Ampliado(f, tam) == ConOtros(f, Agregados(f, tam))

AmpliarAlLado(f, tam) ==
  /\ Aumenta(f, tam)
  /\ EspacioAdy(f, Agregados(f, tam))
  /\ Completar(Ampliado(f, tam), f, meta[f].base, tam, {})

AmpliarYCaer(f, tam) ==
  /\ Aumenta(f, tam)
  /\ EspacioAdy(f, Agregados(f, tam))
  /\ \/ \E k \in 1 .. Agregados(f, tam) : CaerCon(ConOtros(f, k), {"fuga"})
     \/ CaerEnMetadata(f, Ampliado(f, tam))

Hueco(tam) == Min(Huecos(Nuevos(tam)))

(* The file is copied to the first gap for its new size, and the blocks it *)
(* grows by, allocated already with the gap, are allocated again.          *)
Tomado(tam, k) == AllocateBlocks(fs, Hueco(tam), k)

Soltado(f, tam, k) == DeallocateBlocks(Tomado(tam, Nuevos(tam)), meta[f].base, k)

Copiado_M(f, tam) == Soltado(f, tam, Cantidad(f))    \* the bytes stay where they were

Copiado(f, tam) ==
  EscribirBloques(Soltado(f, tam, Cantidad(f)),
                  LeerBloques(meta[f].base * BLOCK_SIZE, Cantidad(f) * BLOCK_SIZE),
                  Hueco(tam) * BLOCK_SIZE)

Movido(f, tam) ==
  AllocateBlocks(Copiado(f, tam), Hueco(tam) + Cantidad(f), Agregados(f, tam))

EtapasDeMover(f, tam) ==
  {Tomado(tam, k) : k \in 1 .. Nuevos(tam)} \cup {Soltado(f, tam, k) : k \in 1 .. Cantidad(f)}
    \cup {Copiado(f, tam), Movido(f, tam)}

Mueve(f, tam) ==
  /\ Aumenta(f, tam)
  /\ ~EspacioAdy(f, Agregados(f, tam))
  /\ EspacioDisp(Nuevos(tam))

AmpliarMoviendo(f, tam) ==
  /\ Mueve(f, tam)
  /\ Completar(Movido(f, tam), f, Hueco(tam), tam, {"mover"})

MoverYCaer(f, tam) ==
  /\ Mueve(f, tam)
  /\ \/ \E e \in EtapasDeMover(f, tam) : CaerCon(e, {"caida"})
     \/ CaerEnMetadata(f, Movido(f, tam))

-----------------------------------------------------------------------------
(* compactar_fs: every file but f is copied, in the order of the list, to  *)
(* a buffer from block 0 on; then the bitmap is rebuilt and the buffer and *)
(* f, behind it, are written.                                              *)
Otros(f) == RemoveFirst(lista, f)       \* no file is twice in the list

BloquesDe(s) == FoldLeft(LAMBDA n, g : n + Cantidad(g), 0, s)

NuevaBase(f, g) ==
  BloquesDe(SubSeq(Otros(f), 1, Min({i \in DOMAIN Otros(f) : Otros(f)[i] = g}) - 1))

Offset(f) == BloquesDe(Otros(f))

MetaCompacta(f) ==
  [g \in Nombres |-> IF g \in ToSet(Otros(f))
                     THEN [meta[g] EXCEPT !.base = NuevaBase(f, g)] ELSE meta[g]]

BufferGeneral(f) ==
  LET De(x, g) == x - NuevaBase(f, g) * BLOCK_SIZE
  IN  [x \in 0 .. BLOCK_SIZE * BLOCK_COUNT - meta[f].tam - 1 |->
        LET g == {h \in ToSet(Otros(f)) : De(x, h) \in 0 .. meta[h].tam - 1}
        IN  IF g = {} THEN 0
            ELSE LET h == CHOOSE h \in g : TRUE
                 IN  fs.disco[meta[h].base * BLOCK_SIZE + De(x, h)]]

Limpio == DeallocateBlocks(fs, 0, BLOCK_COUNT)

Compactado(f) ==
  LET especial == LeerBloques(meta[f].base * BLOCK_SIZE, meta[f].tam)
  IN  IF Limpio.libres = 0 THEN Limpio
      ELSE EscribirBloques(
             EscribirBloques(
               AllocateBlocks(Limpio, 0, Offset(f) + Cantidad(f)), BufferGeneral(f), 0),
             especial, Offset(f) * BLOCK_SIZE)

Compacta(f, tam) ==
  /\ Aumenta(f, tam)
  /\ ~EspacioAdy(f, Agregados(f, tam))
  /\ ~EspacioDisp(Nuevos(tam))

(* The growth is refused if the count says that nothing is left, but after *)
(* every file has been moved: f, with the base it had, is where another is.*)
AmpliarCompactando(f, tam) ==
  /\ Compacta(f, tam)
  /\ LET e == Compactado(f)
         a == AllocateBlocks(e, Offset(f) + Cantidad(f), Agregados(f, tam))
     IN  IF e.libres = 0
         THEN /\ fs' = e
              /\ meta' = MetaCompacta(f)
              /\ desvios' = desvios \cup {"compactar", "rechazo"} \cup Fuera(e)
              /\ Responder("M_EXIT")
         ELSE /\ fs' = a
              /\ meta' = [MetaCompacta(f) EXCEPT ![f] = [base |-> Offset(f), tam |-> tam]]
              /\ desvios' = desvios \cup {"compactar"} \cup Fuera(a)
              /\ Responder("ok")
  /\ UNCHANGED <<lista, activo>>

(* The metadata with the first k files moved, and with the k-th emptied.   *)
MetaHasta(f, k) ==
  [g \in Nombres |->
    IF g \in ToSet(SubSeq(Otros(f), 1, k)) THEN MetaCompacta(f)[g] ELSE meta[g]]

EtapasDeMeta(f) ==
  {MetaHasta(f, k) : k \in 0 .. Len(Otros(f))}
    \cup {[MetaHasta(f, k) EXCEPT ![Otros(f)[k]] = VACIO] : k \in DOMAIN Otros(f)}

(* The program ends inside: among the metadata of the others, or with the  *)
(* blocks cleared, or written, which is also what a heap it has written    *)
(* past the end of may do to it.                                           *)
CompactarYCaer(f, tam) ==
  /\ Compacta(f, tam)
  /\ \/ Terminar(fs, {"caida_compactando"}) /\ meta' \in EtapasDeMeta(f)
     \/ /\ \E e \in {Limpio, Compactado(f)} : Terminar(e, {"caida_compactando"})
        /\ meta' = MetaCompacta(f)

-----------------------------------------------------------------------------
(* IO_FS_WRITE of d and IO_FS_READ, n bytes from ptr on.                   *)

EnArchivo(f, ptr, n) == ptr + n <= meta[f].tam

(* The position and the size of a write are added as uint32_t, and the     *)
(* byte it starts at is kept in an int.                                    *)
Admite(f, ptr, n) == (ptr + n) % PALABRA <= meta[f].tam

ComoInt(x) == IF 2 * x < PALABRA THEN x ELSE x - PALABRA

ByteInicial(f, ptr) == ComoInt((meta[f].base * BLOCK_SIZE + ptr) % PALABRA)

(* A position near the end of the word passes, and the bytes go before the *)
(* file, or behind it.  What falls outside the map is not modelled; if the *)
(* program ends for it, that is a Caer.                                    *)
EscribirArchivo(f, ptr, n, d) ==
  /\ f \in ToSet(lista)
  /\ Admite(f, ptr, n)
  /\ fs' = EscribirBloques(fs, [i \in 0 .. n - 1 |-> d], ByteInicial(f, ptr))
  /\ desvios' = desvios \cup (IF EnArchivo(f, ptr, n) THEN {} ELSE {"vuelta"})
  /\ Responder("ok")
  /\ UNCHANGED <<meta, lista, activo>>

EscribirFuera(f, ptr, n) ==
  /\ f \in ToSet(lista)
  /\ ~Admite(f, ptr, n)
  /\ Contestar("M_EXIT")

LeerArchivo(f, ptr, n) ==
  /\ f \in ToSet(lista)
  /\ EnArchivo(f, ptr, n)
  /\ Contestar("ok")

(* A read past the end of the file ends the interface.  Its position and   *)
(* size are int: one below 0 is refused, or no buffer of that size is had, *)
(* and a sum past the last int reads outside the map, which ends it too.   *)
LeerFuera(f, ptr, n) ==
  /\ f \in ToSet(lista)
  /\ ~EnArchivo(f, ptr, n)
  /\ lista' = <<>>
  /\ activo' = FALSE
  /\ Responder("M_EXIT")
  /\ UNCHANGED <<fs, meta, desvios>>

-----------------------------------------------------------------------------
(* The program ends between two requests, and starts from the files: the   *)
(* list in the order readdir gives, the counter at BLOCK_COUNT.            *)
Caer ==
  /\ lista' = <<>>
  /\ activo' = FALSE
  /\ Responder("nada")
  /\ UNCHANGED <<fs, meta, desvios>>

Existentes == {f \in Nombres : meta[f] \notin {NADA, VACIO}}

EnDisco(e) == [e EXCEPT
  !.bits = @ \cap 0 .. MaxBit - 1,
  !.libres = BLOCK_COUNT,
  !.disco = [x \in DOMAIN @ |-> IF x < BLOCK_COUNT * BLOCK_SIZE THEN @[x] ELSE 0]]

(* buscar_directorio passes over the names that do not end in .txt, and an *)
(* empty metadata file makes it read a NULL: the program cannot start.     *)
Iniciar ==
  /\ ~activo
  /\ \A f \in ConExtension : meta[f] # VACIO
  /\ lista' \in SetToSeqs(Existentes \cap ConExtension)
  /\ fs' = EnDisco(fs)
  /\ activo' = TRUE
  /\ desvios' = desvios
       \cup (IF fs'.bits = {} /\ Existentes = {} THEN {} ELSE {"reinicio"})
       \cup (IF Existentes \subseteq ConExtension THEN {} ELSE {"olvido"})
  /\ Responder("nada")
  /\ UNCHANGED meta

Init ==
  /\ fs = [bits |-> {}, libres |-> BLOCK_COUNT, disco |-> [x \in Posiciones |-> 0]]
  /\ meta = [f \in Nombres |-> NADA]
  /\ lista = <<>>
  /\ activo = TRUE
  /\ respuesta = "nada"
  /\ desvios = {}

Truncar(f, tam) ==
  \/ NoEntraEnDisco(f, tam) \/ MismosBloques(f, tam) \/ DisminuirArchivo(f, tam)
  \/ AumentarRechazado(f, tam) \/ AmpliarAlLado(f, tam) \/ AmpliarMoviendo(f, tam)
  \/ AmpliarCompactando(f, tam)

TruncarYCaer(f, tam) ==
  \/ MismosYCaer(f, tam) \/ DisminuirYCaer(f, tam)
  \/ AmpliarYCaer(f, tam) \/ MoverYCaer(f, tam) \/ CompactarYCaer(f, tam)

LeerOEscribir(f, ptr, n) ==
  \/ \E d \in Datos : EscribirArchivo(f, ptr, n, d)
  \/ EscribirFuera(f, ptr, n) \/ LeerArchivo(f, ptr, n) \/ LeerFuera(f, ptr, n)

Pedido(f) ==
  \/ CrearDuplicado(f) \/ CrearSinBloques(f) \/ Crear(f) \/ CrearYCaer(f)
  \/ Borrar(f) \/ BorrarYCaer(f) \/ NoEsta(f)
  \/ \E tam \in Tamanios : Truncar(f, tam) \/ TruncarYCaer(f, tam)
  \/ \E ptr \in Punteros, n \in Tamanios : LeerOEscribir(f, ptr, n)

Acotado ==
  /\ fs'.libres \in -COTA_LIBRES .. COTA_LIBRES
  /\ \E D \in DESVIOS : desvios' \subseteq D

Next ==
  /\ \/ activo /\ (Caer \/ \E f \in Nombres : Pedido(f))
     \/ Iniciar
  /\ Acotado

Spec == Init /\ [][Next]_vars
=============================================================================
