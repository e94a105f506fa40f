-------------------------- MODULE PropiedadesDialFS --------------------------
(***************************************************************************)
(* What has to be true of the file system modelled in DialFS, and after    *)
(* which detours it is not:                                                *)
(*   achicar            blocks freed by a truncate are not the file's      *)
(*   mover              the growth is allocated twice                      *)
(*   compactar          every block is counted as freed                    *)
(*   fuera              a file goes on past the last block                 *)
(*   reinicio           the program starts over files or taken blocks      *)
(*   fuga               the program ends with blocks taken for no file     *)
(*   caida              it ends with the blocks of a file freed or moved   *)
(*   caida_compactando  it ends between the metadata and the blocks        *)
(*   rechazo            a growth is refused when its compaction is done    *)
(*   vuelta             a write passes the end of the word, and its check  *)
(*   olvido             it starts and leaves out a file not ending in .txt *)
(*   vaciada            it ends in the writing of a metadata file          *)
(***************************************************************************)
EXTENDS DialFS

Bytes == Datos \cup {0}

ASSUME SinArchivoAssumption == NADA \notin Seq(Bytes)

(* Types of every variable, and no file twice in the list.                 *)
TypeOK ==
  /\ fs.bits \subseteq 0 .. Cola - 1
  /\ fs.libres \in Int
  /\ fs.disco \in [Posiciones -> Bytes]
  /\ \A f \in Nombres :
       meta[f] \in {NADA, VACIO} \/ meta[f] \in [base : 0 .. MaxBit - 1, tam : Nat]
  /\ lista \in Seq(Nombres)
  /\ IsInjective(lista)
  /\ activo \in BOOLEAN
  /\ respuesta \in {"nada", "ok", "M_EXIT"}
  /\ desvios \subseteq Desvios

(* The detours that lose more than the count of free blocks.               *)
Danios == {"achicar", "fuera", "caida", "caida_compactando", "rechazo", "vuelta", "olvido",
           "vaciada"}
Sano   == desvios \cap Danios = {}

(* FREE_BLOCK_COUNT is the number of clean bits.                           *)
EspacioLibre == fs.libres = BLOCK_COUNT - Cardinality(fs.bits)

(* It is, through creations, deletions, refusals and growths in place, and *)
(* truncates that free what they should.                                   *)
LibresExacto == desvios = {} => EspacioLibre

(* No block belongs to two files.                                          *)
Disjuntos ==
  \A f, g \in Existentes : f # g => Bloques(f) \cap Bloques(g) = {}

(* The blocks of every file are set in the bitmap, so no other can take    *)
(* them.                                                                   *)
Marcados == \A f \in Existentes : Bloques(f) \subseteq fs.bits

(* A clean block has nothing: a file never grows over what another had.    *)
LibresEnCero ==
  \A x \in Posiciones : x \div BLOCK_SIZE \notin fs.bits => fs.disco[x] = 0

(* The blocks are their file's own, also after files are moved, compacted, *)
(* refused for a wrong count, or left half created by a program that ends, *)
(* as long as no detour of Danios is taken: among them a write whose       *)
(* position and size pass the end of the word, and a start with a file     *)
(* whose name does not end in .txt.  With the types, no file is twice in   *)
(* the list and no bit past the tail.                                      *)
DiscoCoherente == TypeOK /\ (Sano => Disjuntos /\ Marcados /\ LibresEnCero)

(* The bytes of each file, wherever its blocks are.                        *)
Contenidos == [f \in Nombres |->
  IF f \in Existentes
  THEN [i \in 1 .. meta[f].tam |-> fs.disco[meta[f].base * BLOCK_SIZE + i - 1]]
  ELSE NADA]

Promesa == INSTANCE Archivos WITH archivos <- Contenidos

(* Seen by its contents the disc is a set of independent files: whatever   *)
(* is moved, compacted or restarted, a request changes its file only, as   *)
(* long as no detour of Danios is taken (a write that passes the end of    *)
(* the word does change another's).                                        *)
ArchivosCumplidos ==
  Promesa!Init /\ [][Sano' => Contenidos' = Contenidos \/ Promesa!Next]_Contenidos

(* A program that ends in the middle of a request, after any of its blocks *)
(* or in the writing of its metadata, damages the file of that request and *)
(* no other, unless it was compacting or it freed blocks that are not the  *)
(* file's.                                                                 *)
AjenosIntactos ==
  [][ Sano /\ activo /\ ~activo' /\ desvios' \cap {"caida_compactando", "achicar"} = {} =>
        Cardinality({f \in Nombres : Contenidos'[f] # Contenidos[f]}) <= 1 ]_vars

=============================================================================
