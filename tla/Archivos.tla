------------------------------- MODULE Archivos -------------------------------
(***************************************************************************)
(* What the DialFS interface promises to the processes: files, each with   *)
(* its own bytes.  A request changes one file and no other; truncating     *)
(* keeps the bytes both sizes have.                                        *)
(***************************************************************************)
EXTENDS Naturals, Sequences

CONSTANTS Nombres, Bytes, NADA

VARIABLE archivos           \* archivos[f]: the bytes of f, or NADA

Existe(f) == archivos[f] # NADA

Menor(m, n) == IF m < n THEN m ELSE n

Init == archivos = [f \in Nombres |-> NADA]

Crear(f) == ~Existe(f) /\ archivos' = [archivos EXCEPT ![f] = <<>>]

Borrar(f) == Existe(f) /\ archivos' = [archivos EXCEPT ![f] = NADA]

(* What is beyond the old size is whatever the blocks have.                *)
Truncar(f) ==
  /\ Existe(f)
  /\ archivos'[f] # NADA
  /\ archivos' = [archivos EXCEPT ![f] = archivos'[f]]
  /\ LET n == Menor(Len(archivos[f]), Len(archivos'[f]))
     IN  SubSeq(archivos'[f], 1, n) = SubSeq(archivos[f], 1, n)

Escribir(f) ==
  /\ Existe(f)
  /\ \E i \in 1 .. Len(archivos[f]), j \in 0 .. Len(archivos[f]), b \in Bytes :
       archivos' = [archivos EXCEPT ![f] =
         [k \in DOMAIN @ |-> IF k \in i .. j THEN b ELSE @[k]]]

Next == \E f \in Nombres : Crear(f) \/ Borrar(f) \/ Truncar(f) \/ Escribir(f)

Spec == Init /\ [][Next]_archivos
=============================================================================
