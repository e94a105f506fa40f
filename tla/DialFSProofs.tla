----------------------------- MODULE DialFSProofs -----------------------------
(***************************************************************************)
(* Proofs, for a disc of any size and any files, about the file system.    *)
(* While no path that loses the count has been taken, the counter of free  *)
(* blocks is the number of clean bits.  While no file has been damaged,    *)
(* the blocks of each file are its own, set in the bitmap, and what is not *)
(* set is clean; and the disc implements Archivos.  And a program that     *)
(* ends damages one file at most.                                          *)
(***************************************************************************)
EXTENDS PropiedadesDialFS, ListasProofs

(* A file of the list has metadata, its blocks are set, and no other file  *)
(* has any of them.                                                        *)
Anotado(f) == meta[f] \in [base : Nat, tam : Nat] /\ Bloques(f) \subseteq fs.bits

Aparte(f) == \A g \in ToSet(lista) \ {f} : Bloques(f) \cap Bloques(g) = {}

Dentro == /\ DOMAIN fs = {"bits", "libres", "disco"}
          /\ fs.bits \subseteq 0 .. BLOCK_COUNT - 1

Listados == /\ DOMAIN meta = Nombres
            /\ lista \in Seq(Nombres)
            /\ \A f \in Nombres : Ocurrencias(f, lista) <= 1

Cuentas == /\ Dentro /\ EspacioLibre /\ Listados
           /\ \A f \in ToSet(lista) : Anotado(f) /\ Aparte(f)

CuentasInv == desvios = {} => Cuentas

-----------------------------------------------------------------------------
(* Blocks and sets of blocks.                                              *)

LEMMA TechoDivCotas ==
  ASSUME NEW n \in Nat, NEW d \in Nat \ {0}
  PROVE  TechoDiv(n, d) \in Nat /\ (n = 0 => TechoDiv(n, d) = 0)
<1>1. PICK x \in Nat : x = n + d - 1
  OBVIOUS
<1>2. x \div d \in Nat
  OBVIOUS
<1>3. n = 0 => x \div d = 0
  <2>1. ASSUME n = 0
        PROVE  x \div d = 0
    <3>1. x = d - 1
      BY <1>1, <2>1
    <3>2. PICK q \in Nat : q = x \div d
      BY <1>2
    <3>3. q * d <= x
      BY <3>2
    <3>4. q >= 1 => q * d >= d
      OBVIOUS
    <3>5. QED
      BY <3>1, <3>2, <3>3, <3>4
  <2>2. QED
    BY <2>1
<1>4. QED
  BY <1>1, <1>2, <1>3 DEF TechoDiv

(* Every file has a block, also an empty one.                              *)
LEMMA BloquesDeArchivo ==
  ASSUME NEW tam \in Nat
  PROVE  /\ CalcularBloques(tam) \in Nat \ {0}
         /\ tam = 0 => CalcularBloques(tam) = 1
<1>1. PICK a \in Nat : a = TechoDiv(tam, BLOCK_SIZE) /\ (tam = 0 => a = 0)
  BY TechoDivCotas, ConstantesAssumption
<1> DEFINE T == {a, 1}
           m == Max(T)
<1>2. \E x \in T : \A y \in T : x >= y
  OBVIOUS
<1>3. m \in T /\ \A y \in T : m >= y
  <2>1. m = CHOOSE x \in T : \A y \in T : x >= y
    BY DEF Max
  <2> HIDE DEF m, T
  <2>2. QED
    BY <1>2, <2>1
<1>4. m \in Nat \ {0} /\ (a = 0 => m = 1)
  <2> HIDE DEF m
  <2>1. QED
    BY <1>3
<1>5. CalcularBloques(tam) = m
  BY <1>1 DEF CalcularBloques
<1>6. QED
  BY <1>1, <1>4, <1>5

(* A set of bits of the disc, and what taking or giving back n blocks does *)
(* to how many they are.                                                   *)
LEMMA TomarTramo ==
  ASSUME NEW B, NEW M \in Nat, B \subseteq 0 .. M - 1, NEW b \in Int, NEW n \in Nat,
         Tramo(b, n) \cap B = {}
  PROVE  /\ IsFiniteSet(B) /\ Cardinality(B) \in Nat
         /\ Cardinality(B \cup Tramo(b, n)) = Cardinality(B) + n
<1> DEFINE R == Tramo(b, n)
<1>1. IsFiniteSet(0 .. M - 1)
  BY FS_Interval
<1>2. IsFiniteSet(B) /\ Cardinality(B) \in Nat
  BY <1>1, FS_Subset, FS_CardinalityType
<1>3. IsFiniteSet(R) /\ Cardinality(R) = n
  <2>1. PICK c \in Int : c = b + n - 1
    OBVIOUS
  <2>2. IsFiniteSet(b .. c) /\ Cardinality(b .. c) = IF b > c THEN 0 ELSE c - b + 1
    BY FS_Interval
  <2>3. R = b .. c
    BY <2>1 DEF Tramo
  <2> HIDE DEF R
  <2>4. QED
    BY <2>1, <2>2, <2>3
<1> HIDE DEF R
<1>4. B \cap R = {}
  BY DEF R
<1>5. Cardinality(B \cup R) = Cardinality(B) + Cardinality(R) - Cardinality(B \cap R)
  BY <1>2, <1>3, FS_Union
<1>6. Cardinality(B \cap R) = 0
  BY <1>4, FS_EmptySet
<1>7. Cardinality(B \cup R) = Cardinality(B) + n
  BY <1>2, <1>3, <1>5, <1>6
<1>8. QED
  BY <1>2, <1>7 DEF R

LEMMA SoltarTramo ==
  ASSUME NEW B, NEW M \in Nat, B \subseteq 0 .. M - 1, NEW b \in Int, NEW n \in Nat,
         Tramo(b, n) \subseteq B
  PROVE  /\ IsFiniteSet(B) /\ Cardinality(B) \in Nat
         /\ Cardinality(B \ Tramo(b, n)) = Cardinality(B) - n
<1>1. PICK R, D : R = Tramo(b, n) /\ D = B \ R
  OBVIOUS
<1>2. D \subseteq 0 .. M - 1 /\ R \cap D = {} /\ D \cup R = B
  BY <1>1
<1>3. Cardinality(D) \in Nat /\ Cardinality(D \cup R) = Cardinality(D) + n
  BY <1>1, <1>2, TomarTramo
<1>4. IsFiniteSet(0 .. M - 1)
  BY FS_Interval
<1>5. IsFiniteSet(B) /\ Cardinality(B) \in Nat
  BY <1>4, FS_Subset, FS_CardinalityType
<1>6. Cardinality(D) = Cardinality(B) - n
  BY <1>2, <1>3, <1>5
<1>7. QED
  BY <1>1, <1>5, <1>6

-----------------------------------------------------------------------------
(* The list of files.                                                      *)

LEMMA EnLista ==
  ASSUME NEW S, NEW s \in Seq(S), NEW f
  PROVE  f \in ToSet(s) <=> Ocurrencias(f, s) # 0
BY OcurrenciasNat DEF ToSet

LEMMA ListaConOtro ==
  ASSUME NEW S, NEW s \in Seq(S), NEW f \in S, f \notin ToSet(s),
         \A g \in S : Ocurrencias(g, s) <= 1
  PROVE  /\ Append(s, f) \in Seq(S)
         /\ ToSet(Append(s, f)) = ToSet(s) \cup {f}
         /\ \A g \in S : Ocurrencias(g, Append(s, f)) <= 1
<1>1. PICK t : t = Append(s, f)
  OBVIOUS
<1>2. t \in Seq(S)
  BY <1>1
<1>3. \A g : Ocurrencias(g, t) = Ocurrencias(g, s) + Cuenta(f = g) /\ Ocurrencias(g, s) \in Nat
  <2>1. TAKE g
  <2>2. Ocurrencias(g, Append(s, f)) = Ocurrencias(g, s) + Cuenta(f = g)
    BY OcurrenciasAppend
  <2>3. Ocurrencias(g, s) \in Nat
    BY OcurrenciasNat
  <2>4. QED
    BY <1>1, <2>2, <2>3
<1>4. Ocurrencias(f, s) = 0
  BY EnLista
<1>5. \A g \in S : Ocurrencias(g, t) <= 1
  BY <1>3, <1>4 DEF Cuenta
<1>6. ASSUME NEW g \in ToSet(t), g # f
      PROVE  g \in ToSet(s)
  <2>1. Ocurrencias(g, t) # 0
    BY <1>2, <1>6, EnLista
  <2>2. Ocurrencias(g, s) # 0
    BY <1>3, <1>6, <2>1 DEF Cuenta
  <2>3. QED
    BY <2>2, EnLista
<1>7. ASSUME NEW g \in ToSet(s) \cup {f}
      PROVE  g \in ToSet(t)
  <2>1. g = f \/ Ocurrencias(g, s) # 0
    BY <1>7, EnLista
  <2>2. Ocurrencias(g, t) # 0
    BY <1>3, <2>1 DEF Cuenta
  <2>3. QED
    BY <1>2, <2>2, EnLista
<1>8. QED
  BY <1>1, <1>2, <1>5, <1>6, <1>7

LEMMA ListaSinUno ==
  ASSUME NEW S, NEW s \in Seq(S), NEW f \in S, f \in ToSet(s),
         \A g \in S : Ocurrencias(g, s) <= 1
  PROVE  /\ RemoveFirst(s, f) \in Seq(S)
         /\ ToSet(RemoveFirst(s, f)) = ToSet(s) \ {f}
         /\ \A g \in S : Ocurrencias(g, RemoveFirst(s, f)) <= 1
<1>1. PICK t : t = RemoveFirst(s, f)
  OBVIOUS
<1>2. t \in Seq(S)
  BY <1>1, RemoveFirstTipo
<1>3. \A g : Ocurrencias(g, t) = Ocurrencias(g, s) - Cuenta(g = f /\ f \in ToSet(s))
  BY <1>1, OcurrenciasRemoveFirst
<1>4. \A g : Ocurrencias(g, s) \in Nat
  BY OcurrenciasNat
<1>5. \A g \in S : Ocurrencias(g, t) <= 1
  BY <1>3, <1>4 DEF Cuenta
<1>6. ASSUME NEW g \in ToSet(t)
      PROVE  g \in ToSet(s) /\ g # f
  <2>1. Ocurrencias(g, t) # 0
    BY <1>2, <1>6, EnLista
  <2>2. Ocurrencias(f, t) = Ocurrencias(f, s) - 1 /\ Ocurrencias(f, s) \in Nat /\ Ocurrencias(f, s) <= 1
    BY <1>3, <1>4 DEF Cuenta
  <2>3. Ocurrencias(f, s) # 0
    BY EnLista
  <2>4. g # f
    BY <2>1, <2>2, <2>3
  <2>5. Ocurrencias(g, s) # 0
    BY <1>3, <1>4, <2>1, <2>4 DEF Cuenta
  <2>6. QED
    BY <2>4, <2>5, EnLista
<1>7. ASSUME NEW g \in ToSet(s) \ {f}
      PROVE  g \in ToSet(t)
  <2>1. Ocurrencias(g, s) # 0
    BY <1>7, EnLista
  <2>2. Ocurrencias(g, t) # 0
    BY <1>3, <1>4, <1>7, <2>1 DEF Cuenta
  <2>3. QED
    BY <1>2, <2>2, EnLista
<1>8. QED
  BY <1>1, <1>2, <1>5, <1>6, <1>7

-----------------------------------------------------------------------------
(* What is said of one file by its metadata alone.                         *)

LEMMA FcbDe ==
  ASSUME NEW f, Anotado(f)
  PROVE  /\ meta[f].base \in Nat /\ meta[f].tam \in Nat
         /\ Cantidad(f) \in Nat \ {0}
         /\ Final(f) = meta[f].base + Cantidad(f)
         /\ Bloques(f) = Tramo(meta[f].base, Cantidad(f))
BY BloquesDeArchivo DEF Anotado, Cantidad, Final, Bloques

(* A file whose metadata and bits are let alone.                           *)
LEMMA AnotadoIgual ==
  ASSUME NEW g, Anotado(g), meta'[g] = meta[g], Bloques(g) \subseteq fs'.bits
  PROVE  Anotado(g)' /\ Bloques(g)' = Bloques(g)
<1>1. Bloques(g)' = Bloques(g)
  BY DEF Bloques, Cantidad
<1>2. QED
  BY <1>1 DEF Anotado

(* A step that changes the metadata of f at most.                          *)
LEMMA CambiaUno ==
  ASSUME Cuentas, Dentro', EspacioLibre', Listados', NEW f,
         ToSet(lista') \subseteq ToSet(lista) \cup {f},
         \A g \in ToSet(lista) \ {f} : meta'[g] = meta[g] /\ Bloques(g) \subseteq fs'.bits,
         f \in ToSet(lista') =>
           /\ meta'[f] \in [base : Nat, tam : Nat]
           /\ Bloques(f)' \subseteq fs'.bits
           /\ \A g \in ToSet(lista) \ {f} : Bloques(f)' \cap Bloques(g) = {}
  PROVE  Cuentas'
<1>1. \A g \in ToSet(lista) \ {f} : Anotado(g)' /\ Bloques(g)' = Bloques(g)
  BY AnotadoIgual DEF Cuentas
<1>2. ASSUME NEW g \in ToSet(lista')
      PROVE  Anotado(g)' /\ Aparte(g)'
  <2>1. CASE g = f
    <3>1. Anotado(f)'
      BY <1>2, <2>1 DEF Anotado
    <3>2. Aparte(f)'
      BY <1>1, <1>2, <2>1 DEF Aparte
    <3>3. QED
      BY <2>1, <3>1, <3>2
  <2>2. CASE g # f
    <3>1. g \in ToSet(lista) \ {f}
      BY <2>2
    <3>2. Aparte(g)
      BY <3>1 DEF Cuentas
    <3>3. Aparte(g)'
      <4>1. SUFFICES ASSUME NEW h \in ToSet(lista') \ {g}
                     PROVE  Bloques(g)' \cap Bloques(h)' = {}
        BY DEF Aparte
      <4>2. CASE h = f
        BY <1>1, <3>1, <4>1, <4>2
      <4>3. CASE h # f
        BY <1>1, <3>1, <3>2, <4>1, <4>3 DEF Aparte
      <4>4. QED
        BY <4>2, <4>3
    <3>4. QED
      BY <1>1, <3>1, <3>3
  <2>3. QED
    BY <2>1, <2>2
<1>3. QED
  BY <1>2 DEF Cuentas

-----------------------------------------------------------------------------
(* The operations.                                                         *)

LEMMA CrearCuentas ==
  ASSUME Cuentas, NEW f \in Nombres, Crear(f), desvios' = {}
  PROVE  Cuentas'
<1> DEFINE b == PrimeroLibre
<1>1. /\ f \notin ToSet(lista) /\ fs' = AllocateBlocks(fs, b, 1)
      /\ meta' = [meta EXCEPT ![f] = [base |-> b, tam |-> 0]]
      /\ lista' = Append(lista, f) /\ Fuera(fs') = {}
  BY DEF Crear, PuedeCrear, ConBloqueBase
<1>2. b \in Nat /\ b \notin fs.bits
  <2> DEFINE L == (0 .. MaxBit - 1) \ fs.bits
  <2>1. L # {} /\ L \subseteq Nat
    BY DEF Crear, PuedeCrear
  <2>2. \E x \in L : \A y \in L : x <= y
    BY <2>1, Minimo
  <2>3. b = CHOOSE x \in L : \A y \in L : x =< y
    BY DEF PrimeroLibre, Min
  <2> HIDE DEF b
  <2>4. b \in L
    <3> HIDE DEF L
    <3>1. QED
      BY <2>2, <2>3
  <2>5. QED
    BY <2>1, <2>4
<1> HIDE DEF b
<1>3. /\ DOMAIN fs' = {"bits", "libres", "disco"}
      /\ fs'.bits = fs.bits \cup Tramo(b, 1) /\ fs'.libres = fs.libres - 1
  BY <1>1 DEF AllocateBlocks, Cuentas, Dentro
<1>4. Tramo(b, 1) = {b}
  BY <1>2 DEF Tramo
<1>5. Dentro'
  <2>1. \A x \in fs'.bits : x < BLOCK_COUNT
    <3>1. ~ \E x \in fs'.bits : x >= BLOCK_COUNT
      BY <1>1 DEF Fuera
    <3>2. \A x \in fs'.bits : x \in Int
      BY <1>2, <1>3, <1>4 DEF Cuentas, Dentro
    <3>3. QED
      BY <3>1, <3>2, ConstantesAssumption
  <2>2. \A x \in fs'.bits : x \in Nat
    BY <1>2, <1>3, <1>4 DEF Cuentas, Dentro
  <2>3. \A x \in fs'.bits : x \in 0 .. BLOCK_COUNT - 1
    BY <2>1, <2>2, ConstantesAssumption
  <2>4. QED
    BY <1>3, <2>3 DEF Dentro
<1>6. EspacioLibre'
  <2>1. PICK B : B = fs.bits
    OBVIOUS
  <2>2. Tramo(b, 1) \cap B = {} /\ B \subseteq 0 .. BLOCK_COUNT - 1
    BY <1>2, <1>4, <2>1 DEF Cuentas, Dentro
  <2>3. Cardinality(B) \in Nat /\ Cardinality(B \cup Tramo(b, 1)) = Cardinality(B) + 1
    <3>1. PICK n \in Nat, M \in Nat, c \in Int : n = 1 /\ M = BLOCK_COUNT /\ c = b
      BY <1>2, ConstantesAssumption
    <3>2. Tramo(c, n) \cap B = {} /\ B \subseteq 0 .. M - 1
      BY <2>2, <3>1
    <3>3. Cardinality(B) \in Nat /\ Cardinality(B \cup Tramo(c, n)) = Cardinality(B) + n
      BY <3>2, TomarTramo
    <3>4. QED
      BY <3>1, <3>3
  <2>4. QED
    BY <1>3, <2>1, <2>3, ConstantesAssumption DEF Cuentas, EspacioLibre
<1>7. Listados' /\ ToSet(lista') \subseteq ToSet(lista) \cup {f}
  BY <1>1, ListaConOtro DEF Cuentas, Listados
<1>8. /\ meta'[f] = [base |-> b, tam |-> 0]
      /\ \A g \in ToSet(lista) \ {f} : meta'[g] = meta[g] /\ Bloques(g) \subseteq fs'.bits
  <2>1. \A g \in ToSet(lista) : g \in Nombres
    BY ElementOfSeq, LenProperties DEF Cuentas, Listados, ToSet
  <2>2. QED
    BY <1>1, <1>3, <2>1 DEF Cuentas, Listados, Anotado
<1>9. Bloques(f)' = {b}
  <2>1. CalcularBloques(0) = 1
    BY BloquesDeArchivo
  <2>2. QED
    BY <1>4, <1>8, <2>1 DEF Bloques, Cantidad
<1>10. \A g \in ToSet(lista) \ {f} : {b} \cap Bloques(g) = {}
  BY <1>2 DEF Cuentas, Anotado
<1>11. meta'[f] \in [base : Nat, tam : Nat] /\ Bloques(f)' \subseteq fs'.bits
  BY <1>2, <1>3, <1>4, <1>8, <1>9
<1>12. QED
  BY <1>5, <1>6, <1>7, <1>8, <1>9, <1>10, <1>11, CambiaUno

(* Blocks of f that are given back, all of them or the last ones.          *)
LEMMA SoltarCuentas ==
  ASSUME Cuentas, NEW f \in ToSet(lista), NEW b \in Int, NEW n \in Nat,
         Tramo(b, n) \subseteq Bloques(f), fs' = DeallocateBlocks(fs, b, n)
  PROVE  /\ Dentro' /\ EspacioLibre'
         /\ fs'.bits = fs.bits \ Tramo(b, n)
         /\ \A g \in ToSet(lista) \ {f} : Bloques(g) \subseteq fs'.bits
<1>1. /\ DOMAIN fs' = {"bits", "libres", "disco"}
      /\ fs'.bits = fs.bits \ Tramo(b, n) /\ fs'.libres = fs.libres + n
  BY DEF DeallocateBlocks, Cuentas, Dentro
<1>2. Dentro'
  BY <1>1 DEF Cuentas, Dentro
<1>3. EspacioLibre'
  <2>1. PICK B : B = fs.bits
    OBVIOUS
  <2>2. Tramo(b, n) \subseteq B /\ B \subseteq 0 .. BLOCK_COUNT - 1
    BY <2>1 DEF Cuentas, Dentro, Anotado
  <2>3. Cardinality(B) \in Nat /\ Cardinality(B \ Tramo(b, n)) = Cardinality(B) - n
    BY <2>2, SoltarTramo, ConstantesAssumption
  <2>4. QED
    BY <1>1, <2>1, <2>3, ConstantesAssumption DEF Cuentas, EspacioLibre
<1>4. \A g \in ToSet(lista) \ {f} : Bloques(g) \subseteq fs'.bits
  <2>1. SUFFICES ASSUME NEW g \in ToSet(lista) \ {f}
                 PROVE  Bloques(g) \subseteq fs.bits \ Tramo(b, n)
    BY <1>1
  <2>2. Bloques(g) \subseteq fs.bits /\ Bloques(g) \cap Bloques(f) = {}
    BY DEF Cuentas, Anotado, Aparte
  <2>3. QED
    BY <2>2
<1>5. QED
  BY <1>1, <1>2, <1>3, <1>4

LEMMA BorrarCuentas ==
  ASSUME Cuentas, NEW f \in Nombres, Borrar(f)
  PROVE  Cuentas'
<1>1. /\ f \in ToSet(lista) /\ fs' = DeallocateBlocks(fs, meta[f].base, Cantidad(f))
      /\ meta' = [meta EXCEPT ![f] = NADA] /\ lista' = RemoveFirst(lista, f)
  BY DEF Borrar, SinSusBloques, SinPrimeros
<1>2. Anotado(f) /\ meta[f].base \in Int /\ Cantidad(f) \in Nat
  BY <1>1, FcbDe DEF Cuentas
<1>3. Tramo(meta[f].base, Cantidad(f)) \subseteq Bloques(f)
  BY <1>2, FcbDe
<1>4. /\ Dentro' /\ EspacioLibre'
      /\ \A g \in ToSet(lista) \ {f} : Bloques(g) \subseteq fs'.bits
  BY <1>1, <1>2, <1>3, SoltarCuentas
<1>5. Listados' /\ ToSet(lista') \subseteq ToSet(lista) \ {f}
  BY <1>1, ListaSinUno DEF Cuentas, Listados
<1>6. \A g \in ToSet(lista) \ {f} : meta'[g] = meta[g]
  <2>1. \A g \in ToSet(lista) : g \in Nombres
    BY ElementOfSeq, LenProperties DEF Cuentas, Listados, ToSet
  <2>2. QED
    BY <1>1, <2>1 DEF Cuentas, Listados
<1>7. f \notin ToSet(lista')
  BY <1>5
<1>8. QED
  BY <1>4, <1>5, <1>6, <1>7, CambiaUno

(* A truncate writes the new size: the file keeps its base and has the     *)
(* blocks of that size.                                                    *)
LEMMA TruncarCuentas ==
  ASSUME Cuentas, NEW f \in ToSet(lista), NEW tam \in Nat, NEW e, NEW d,
         Completar(e, f, meta[f].base, tam, d), Dentro', EspacioLibre',
         \A g \in ToSet(lista) \ {f} :
           /\ Bloques(g) \subseteq fs'.bits
           /\ Tramo(meta[f].base, Nuevos(tam)) \cap Bloques(g) = {},
         Tramo(meta[f].base, Nuevos(tam)) \subseteq fs'.bits
  PROVE  Cuentas'
<1>1. /\ meta' = [meta EXCEPT ![f] = [base |-> meta[f].base, tam |-> tam]]
      /\ lista' = lista
  BY DEF Completar
<1>2. \A g \in ToSet(lista) : g \in Nombres
  BY ElementOfSeq, LenProperties DEF Cuentas, Listados, ToSet
<1>3. /\ meta'[f] = [base |-> meta[f].base, tam |-> tam]
      /\ \A g \in ToSet(lista) \ {f} : meta'[g] = meta[g]
  BY <1>1, <1>2 DEF Cuentas, Listados
<1>4. meta[f].base \in Nat
  BY FcbDe DEF Cuentas
<1>5. Bloques(f)' = Tramo(meta[f].base, Nuevos(tam))
  BY <1>3 DEF Bloques, Cantidad, Nuevos
<1>6. Listados'
  BY <1>1 DEF Cuentas, Listados
<1>7. meta'[f] \in [base : Nat, tam : Nat]
  BY <1>3, <1>4
<1>8. /\ \A g \in ToSet(lista) \ {f} : meta'[g] = meta[g] /\ Bloques(g) \subseteq fs'.bits
      /\ \A g \in ToSet(lista) \ {f} : Bloques(f)' \cap Bloques(g) = {}
  BY <1>3, <1>5
<1>9. ToSet(lista') \subseteq ToSet(lista) \cup {f} /\ Bloques(f)' \subseteq fs'.bits
  BY <1>1, <1>5
<1>10. QED
  BY <1>6, <1>7, <1>8, <1>9, CambiaUno

LEMMA MismosBloquesCuentas ==
  ASSUME Cuentas, NEW f \in Nombres, NEW tam \in Tamanios, MismosBloques(f, tam)
  PROVE  Cuentas'
<1>1. /\ f \in ToSet(lista) /\ Nuevos(tam) = Cantidad(f) /\ tam \in Nat
      /\ Completar(fs, f, meta[f].base, tam, {}) /\ fs' = fs
  BY ConstantesAssumption DEF MismosBloques, Completar
<1>2. Anotado(f) /\ Aparte(f) /\ Tramo(meta[f].base, Nuevos(tam)) = Bloques(f)
  BY <1>1, FcbDe DEF Cuentas
<1>3. Dentro' /\ EspacioLibre'
  BY <1>1 DEF Cuentas, Dentro, EspacioLibre
<1>4. \A g \in ToSet(lista) \ {f} :
        /\ Bloques(g) \subseteq fs'.bits
        /\ Tramo(meta[f].base, Nuevos(tam)) \cap Bloques(g) = {}
  BY <1>1, <1>2 DEF Cuentas, Anotado, Aparte
<1>5. Tramo(meta[f].base, Nuevos(tam)) \subseteq fs'.bits
  BY <1>1, <1>2 DEF Anotado
<1>6. QED
  BY <1>1, <1>3, <1>4, <1>5, TruncarCuentas

(* What the first blocks of a file and the next ones are.                  *)
LEMMA TramoParte ==
  ASSUME NEW b \in Int, NEW n \in Nat, NEW m \in Nat, m <= n
  PROVE  /\ Tramo(b, n) = Tramo(b, m) \cup Tramo(b + m, n - m)
         /\ Tramo(b, m) \cap Tramo(b + m, n - m) = {}
BY DEF Tramo

(* disminuir_archivo, of a file that begins at block 0: of any other it is *)
(* a detour.                                                               *)
LEMMA DisminuirCuentas ==
  ASSUME Cuentas, NEW f \in Nombres, NEW tam \in Tamanios, DisminuirArchivo(f, tam),
         desvios' = {}
  PROVE  Cuentas'
<1>1. /\ f \in ToSet(lista) /\ Nuevos(tam) < Cantidad(f) /\ tam \in Nat
      /\ Completar(SinUltimos(tam, Sobran(f, tam)), f, meta[f].base, tam, Ajenos(f))
      /\ fs' = DeallocateBlocks(fs, Nuevos(tam), Cantidad(f) - Nuevos(tam))
  BY ConstantesAssumption DEF DisminuirArchivo, Completar, SinUltimos, Sobran
<1>2. meta[f].base = 0
  BY <1>1 DEF Completar, Ajenos
<1>3. PICK n, m \in Nat : n = Cantidad(f) /\ m = Nuevos(tam)
  BY <1>1, FcbDe, BloquesDeArchivo DEF Cuentas, Nuevos
<1>4. /\ Bloques(f) = Tramo(0, n) /\ Anotado(f) /\ Aparte(f)
  BY <1>1, <1>2, <1>3, FcbDe DEF Cuentas
<1>5. PICK k \in Nat : k = n - m
  BY <1>1, <1>3
<1>6. Tramo(0, n) = Tramo(0, m) \cup Tramo(m, k) /\ Tramo(0, m) \cap Tramo(m, k) = {}
  <2>1. m <= n /\ 0 \in Int /\ 0 + m = m
    BY <1>1, <1>3
  <2>2. /\ Tramo(0, n) = Tramo(0, m) \cup Tramo(0 + m, n - m)
        /\ Tramo(0, m) \cap Tramo(0 + m, n - m) = {}
    BY <2>1, TramoParte
  <2>3. QED
    BY <1>5, <2>1, <2>2
<1>7. fs' = DeallocateBlocks(fs, m, k)
  BY <1>1, <1>3, <1>5
<1>8. /\ Dentro' /\ EspacioLibre' /\ fs'.bits = fs.bits \ Tramo(m, k)
      /\ \A g \in ToSet(lista) \ {f} : Bloques(g) \subseteq fs'.bits
  <2>1. Tramo(m, k) \subseteq Bloques(f)
    BY <1>4, <1>6
  <2>2. QED
    BY <1>1, <1>7, <2>1, SoltarCuentas
<1>9. Tramo(0, m) \subseteq fs'.bits
  BY <1>4, <1>6, <1>8 DEF Anotado
<1>10. \A g \in ToSet(lista) \ {f} : Tramo(0, m) \cap Bloques(g) = {}
  BY <1>4, <1>6 DEF Aparte
<1>11. QED
  BY <1>1, <1>2, <1>3, <1>8, <1>9, <1>10, TruncarCuentas

LEMMA AmpliarCuentas ==
  ASSUME Cuentas, NEW f \in Nombres, NEW tam \in Tamanios, AmpliarAlLado(f, tam),
         desvios' = {}
  PROVE  Cuentas'
<1>1. /\ f \in ToSet(lista) /\ tam \in Nat
      /\ Nuevos(tam) \in Cantidad(f) + 1 .. BLOCK_COUNT
      /\ Tramo(Final(f), Agregados(f, tam)) \cap fs.bits = {}
      /\ Completar(Ampliado(f, tam), f, meta[f].base, tam, {})
      /\ fs' = AllocateBlocks(fs, Final(f), Agregados(f, tam))
      /\ Fuera(fs') = {}
  BY ConstantesAssumption DEF AmpliarAlLado, Aumenta, Crece, EspacioAdy, Completar, Ampliado, ConOtros
<1>2. Anotado(f) /\ Aparte(f)
  BY <1>1 DEF Cuentas
<1>3. PICK b, n, m \in Nat : b = meta[f].base /\ n = Cantidad(f) /\ m = Nuevos(tam)
  BY <1>1, <1>2, FcbDe, BloquesDeArchivo DEF Nuevos
<1>4. PICK k \in Nat : k = m - n
  BY <1>1, <1>3
<1>5. /\ Final(f) = b + n /\ Agregados(f, tam) = k /\ Bloques(f) = Tramo(b, n)
  BY <1>2, <1>3, <1>4, FcbDe DEF Agregados
<1>6. Tramo(b, m) = Tramo(b, n) \cup Tramo(b + n, k)
  BY <1>1, <1>3, <1>4, TramoParte
<1>7. /\ DOMAIN fs' = {"bits", "libres", "disco"}
      /\ fs'.bits = fs.bits \cup Tramo(b + n, k) /\ fs'.libres = fs.libres - k
  BY <1>1, <1>5 DEF AllocateBlocks, Cuentas, Dentro
<1>8. Tramo(b + n, k) \cap fs.bits = {}
  BY <1>1, <1>5
<1>9. Dentro'
  <2>1. \A x \in Tramo(b + n, k) : x \in Nat
    BY DEF Tramo
  <2>2. \A x \in fs'.bits : x \in Nat
    BY <1>7, <2>1 DEF Cuentas, Dentro
  <2>3. ~ \E x \in fs'.bits : x >= BLOCK_COUNT
    BY <1>1 DEF Fuera
  <2>4. \A x \in fs'.bits : x \in 0 .. BLOCK_COUNT - 1
    BY <2>2, <2>3, ConstantesAssumption
  <2>5. QED
    BY <1>7, <2>4 DEF Dentro
<1>10. EspacioLibre'
  <2>1. PICK B, c, M : B = fs.bits /\ c = b + n /\ M = BLOCK_COUNT
    OBVIOUS
  <2>2. Tramo(c, k) \cap B = {} /\ B \subseteq 0 .. M - 1 /\ c \in Int /\ M \in Nat
    BY <1>8, <2>1, ConstantesAssumption DEF Cuentas, Dentro
  <2>3. Cardinality(B) \in Nat /\ Cardinality(B \cup Tramo(c, k)) = Cardinality(B) + k
    BY <2>2, TomarTramo
  <2>4. QED
    BY <1>7, <2>1, <2>3, ConstantesAssumption DEF Cuentas, EspacioLibre
<1>11. \A g \in ToSet(lista) \ {f} : Bloques(g) \subseteq fs'.bits /\ Tramo(b, m) \cap Bloques(g) = {}
  <2>1. SUFFICES ASSUME NEW g \in ToSet(lista) \ {f}
                 PROVE  Bloques(g) \subseteq fs'.bits /\ Tramo(b, m) \cap Bloques(g) = {}
    OBVIOUS
  <2>2. Bloques(g) \subseteq fs.bits /\ Bloques(f) \cap Bloques(g) = {}
    BY <1>2 DEF Cuentas, Anotado, Aparte
  <2>3. QED
    BY <1>5, <1>6, <1>7, <1>8, <2>2
<1>12. Tramo(b, m) \subseteq fs'.bits
  BY <1>2, <1>5, <1>6, <1>7 DEF Anotado
<1>13. QED
  BY <1>1, <1>3, <1>9, <1>10, <1>11, <1>12, TruncarCuentas

(* A step that leaves the bitmap, the counter and the metadata.            *)
LEMMA CuentasIgual ==
  ASSUME Cuentas, DOMAIN fs' = DOMAIN fs, fs'.bits = fs.bits, fs'.libres = fs.libres,
         UNCHANGED <<meta, lista>>
  PROVE  Cuentas'
<1>1. \A g : Bloques(g)' = Bloques(g)
  BY DEF Bloques, Cantidad
<1>2. QED
  BY <1>1 DEF Cuentas, Dentro, EspacioLibre, Listados, Anotado, Aparte

LEMMA CuentasVacia ==
  ASSUME Dentro', EspacioLibre', DOMAIN meta' = Nombres, lista' = <<>>
  PROVE  Cuentas'
<1>1. <<>> \in Seq(Nombres) /\ ToSet(<<>>) = {}
  BY DEF ToSet
<1>2. \A f : Ocurrencias(f, <<>>) = 0
  BY <1>1, EnLista
<1>3. Listados'
  BY <1>1, <1>2 DEF Listados
<1>4. QED
  BY <1>1, <1>3 DEF Cuentas

(* Starting again is no detour only on an empty disc.                      *)
LEMMA IniciarCuentas ==
  ASSUME Cuentas, Iniciar, desvios' = {}
  PROVE  Cuentas'
<1>1. /\ lista' \in SetToSeqs(Existentes \cap ConExtension) /\ fs' = EnDisco(fs) /\ meta' = meta
      /\ fs'.bits = {} /\ Existentes = {}
  BY DEF Iniciar
<1>2. DOMAIN fs' = {"bits", "libres", "disco"} /\ fs'.libres = BLOCK_COUNT
  BY <1>1 DEF EnDisco, Cuentas, Dentro
<1>3. Dentro' /\ EspacioLibre'
  BY <1>1, <1>2, FS_EmptySet, ConstantesAssumption DEF Dentro, EspacioLibre
<1>4. lista' = <<>>
  <2>1. PICK E : E = Existentes \cap ConExtension
    OBVIOUS
  <2>2. IsFiniteSet(E) /\ Cardinality(E) = 0 /\ lista' \in SetToSeqs(E)
    BY <1>1, <2>1, FS_EmptySet
  <2>3. PICK s : s = lista'
    OBVIOUS
  <2>4. s \in Seq(E) /\ Len(s) = 0
    BY <2>2, <2>3, SetToSeqsOcurrencias
  <2>5. QED
    BY <2>3, <2>4, EmptySeq
<1>5. QED
  BY <1>1, <1>3, <1>4, CuentasVacia DEF Cuentas, Listados

LEMMA CuentasInit == Init => CuentasInv
<1> SUFFICES ASSUME Init PROVE Cuentas
  BY DEF CuentasInv
<1>1. DOMAIN fs = {"bits", "libres", "disco"} /\ fs.bits = {} /\ fs.libres = BLOCK_COUNT
  BY DEF Init
<1>2. Dentro /\ EspacioLibre
  BY <1>1, FS_EmptySet, ConstantesAssumption DEF Dentro, EspacioLibre
<1>3. lista \in Seq(Nombres) /\ ToSet(lista) = {}
  BY DEF Init, ToSet
<1>4. Listados
  <2>1. PICK s : s = lista
    OBVIOUS
  <2>2. \A f : Ocurrencias(f, s) = 0
    BY <1>3, <2>1, EnLista
  <2>3. QED
    BY <1>3, <2>1, <2>2 DEF Init, Listados
<1>5. QED
  BY <1>2, <1>3, <1>4 DEF Cuentas

(* The requests about one file.                                            *)
LEMMA PedidoCuentas ==
  ASSUME Cuentas, NEW f \in Nombres, Pedido(f), desvios' = {}
  PROVE  Cuentas'
<1>1. ASSUME NEW r, Contestar(r)
      PROVE  Cuentas'
  BY <1>1, CuentasIgual DEF Contestar
<1>2. CASE CrearDuplicado(f) \/ CrearSinBloques(f) \/ NoEsta(f)
  BY <1>1, <1>2 DEF CrearDuplicado, CrearSinBloques, NoEsta
<1>3. CASE Crear(f)
  BY <1>3, CrearCuentas
<1>4. CASE Borrar(f)
  BY <1>4, BorrarCuentas
<1>5. CASE CrearYCaer(f) \/ BorrarYCaer(f)
  BY <1>5 DEF CrearYCaer, BorrarYCaer, CaerCon, CaerEnMetadata, Terminar
<1>6. ASSUME NEW tam \in Tamanios, Truncar(f, tam)
      PROVE  Cuentas'
  <2>1. CASE NoEntraEnDisco(f, tam) \/ AumentarRechazado(f, tam)
    BY <1>1, <2>1 DEF NoEntraEnDisco, AumentarRechazado
  <2>2. CASE MismosBloques(f, tam)
    BY <2>2, MismosBloquesCuentas
  <2>3. CASE DisminuirArchivo(f, tam)
    BY <2>3, DisminuirCuentas
  <2>4. CASE AmpliarAlLado(f, tam)
    BY <2>4, AmpliarCuentas
  <2>5. CASE AmpliarMoviendo(f, tam)
    BY <2>5 DEF AmpliarMoviendo, Completar
  <2>6. CASE AmpliarCompactando(f, tam)
    BY <2>6 DEF AmpliarCompactando
  <2>7. QED
    BY <1>6, <2>1, <2>2, <2>3, <2>4, <2>5, <2>6 DEF Truncar
<1>7. ASSUME NEW tam \in Tamanios, TruncarYCaer(f, tam)
      PROVE  Cuentas'
  <2>1. CASE DisminuirYCaer(f, tam) \/ AmpliarYCaer(f, tam) \/ MoverYCaer(f, tam)
    BY <2>1 DEF DisminuirYCaer, AmpliarYCaer, MoverYCaer, CaerCon, CaerEnMetadata, Terminar
  <2>2. CASE CompactarYCaer(f, tam) \/ MismosYCaer(f, tam)
    BY <2>2 DEF CompactarYCaer, MismosYCaer, CaerEnMetadata, Terminar
  <2>3. QED
    BY <1>7, <2>1, <2>2 DEF TruncarYCaer
<1>8. ASSUME NEW ptr, NEW n, LeerOEscribir(f, ptr, n)
      PROVE  Cuentas'
  <2>1. ASSUME NEW d, EscribirArchivo(f, ptr, n, d)
        PROVE  Cuentas'
    <3>1. DOMAIN fs' = DOMAIN fs /\ fs'.bits = fs.bits /\ fs'.libres = fs.libres
      BY <2>1 DEF EscribirArchivo, EscribirBloques
    <3>2. QED
      BY <2>1, <3>1, CuentasIgual DEF EscribirArchivo
  <2>2. CASE EscribirFuera(f, ptr, n) \/ LeerArchivo(f, ptr, n)
    BY <1>1, <2>2 DEF EscribirFuera, LeerArchivo
  <2>3. CASE LeerFuera(f, ptr, n)
    <3>1. fs' = fs /\ meta' = meta /\ lista' = <<>>
      BY <2>3 DEF LeerFuera
    <3>2. Dentro' /\ EspacioLibre' /\ DOMAIN meta' = Nombres
      BY <3>1 DEF Cuentas, Dentro, EspacioLibre, Listados
    <3>3. QED
      BY <3>1, <3>2, CuentasVacia
  <2>4. QED
    BY <1>8, <2>1, <2>2, <2>3 DEF LeerOEscribir
<1>9. QED
  BY <1>2, <1>3, <1>4, <1>5, <1>6, <1>7, <1>8 DEF Pedido

(* A detour is never forgotten.                                            *)
LEMMA DesviosCrecen == [Next]_vars => desvios \subseteq desvios'
<1> SUFFICES ASSUME [Next]_vars PROVE desvios \subseteq desvios'
  OBVIOUS
<1>1. CASE Caer \/ Iniciar \/ UNCHANGED vars
  BY <1>1 DEF Caer, Iniciar, vars
<1>2. ASSUME NEW f \in Nombres, Pedido(f)
      PROVE  desvios \subseteq desvios'
  <2>1. CASE \/ CrearDuplicado(f) \/ CrearSinBloques(f) \/ Crear(f) \/ CrearYCaer(f)
             \/ Borrar(f) \/ BorrarYCaer(f) \/ NoEsta(f)
    BY <2>1 DEF CrearDuplicado, CrearSinBloques, Crear, CrearYCaer, Borrar, BorrarYCaer, NoEsta,
       Contestar, CaerCon, CaerEnMetadata, Terminar
  <2>2. ASSUME NEW tam \in Tamanios, Truncar(f, tam)
        PROVE  desvios \subseteq desvios'
    BY <2>2 DEF Truncar, NoEntraEnDisco, MismosBloques, DisminuirArchivo, AumentarRechazado,
       AmpliarAlLado, AmpliarMoviendo, AmpliarCompactando, Contestar, Completar
  <2>3. ASSUME NEW tam \in Tamanios, TruncarYCaer(f, tam)
        PROVE  desvios \subseteq desvios'
    BY <2>3 DEF TruncarYCaer, MismosYCaer, DisminuirYCaer, AmpliarYCaer, MoverYCaer,
       CompactarYCaer, CaerCon, CaerEnMetadata, Terminar
  <2>4. ASSUME NEW ptr, NEW n, LeerOEscribir(f, ptr, n)
        PROVE  desvios \subseteq desvios'
    BY <2>4 DEF LeerOEscribir, EscribirArchivo, EscribirFuera, LeerArchivo, LeerFuera, Contestar
  <2>5. QED
    BY <1>2, <2>1, <2>2, <2>3, <2>4 DEF Pedido
<1>3. QED
  BY <1>1, <1>2 DEF Next

LEMMA CuentasPaso == CuentasInv /\ [Next]_vars => CuentasInv'
<1> SUFFICES ASSUME CuentasInv, [Next]_vars, desvios' = {} PROVE Cuentas'
  BY DEF CuentasInv
<1>1. Cuentas
  BY DesviosCrecen DEF CuentasInv
<1>2. CASE \E f \in Nombres : Pedido(f)
  BY <1>1, <1>2, PedidoCuentas
<1>3. CASE Caer
  <2>1. fs' = fs /\ meta' = meta /\ lista' = <<>>
    BY <1>3 DEF Caer
  <2>2. Dentro' /\ EspacioLibre' /\ DOMAIN meta' = Nombres
    BY <1>1, <2>1 DEF Cuentas, Dentro, EspacioLibre, Listados
  <2>3. QED
    BY <2>1, <2>2, CuentasVacia
<1>4. CASE Iniciar
  BY <1>1, <1>4, IniciarCuentas
<1>5. CASE UNCHANGED vars
  BY <1>1, <1>5, CuentasIgual DEF vars
<1>6. QED
  BY <1>2, <1>3, <1>4, <1>5 DEF Next

(* FREE_BLOCK_COUNT is the number of clean bits for as long as files are   *)
(* created, deleted, refused, read, written, grown in place and shortened  *)
(* from block 0, whatever the disc, the files and the sizes.               *)
THEOREM LibresExactoSiempre == Spec => []LibresExacto
<1>1. CuentasInv => LibresExacto
  BY DEF CuentasInv, Cuentas, LibresExacto
<1>2. QED
  BY <1>1, CuentasInit, CuentasPaso, PTL DEF Spec

-----------------------------------------------------------------------------
(* While no file has been damaged.                                         *)

(* Products and quotients.                                                 *)
LEMMA Producto ==
  ASSUME NEW a \in Nat, NEW b \in Nat, a <= b, NEW d \in Nat
  PROVE  a * d \in Nat /\ b * d \in Nat /\ a * d <= b * d /\ (a + 1) * d = a * d + d
<1>1. PICK c \in Nat : b = a + c
  <2>1. b - a \in Nat /\ b = a + (b - a)
    OBVIOUS
  <2>2. QED
    BY <2>1
<1>2. b * d = a * d + c * d
  BY <1>1
<1>3. c * d \in Nat /\ a * d \in Nat /\ b * d \in Nat
  OBVIOUS
<1>4. a * d <= b * d
  <2>1. PICK x, y, z \in Nat : x = a * d /\ y = b * d /\ z = c * d
    BY <1>3
  <2>2. QED
    BY <1>2, <2>1
<1>5. (a + 1) * d = a * d + d
  OBVIOUS
<1>6. QED
  BY <1>3, <1>4, <1>5

LEMMA Cociente ==
  ASSUME NEW x \in Nat, NEW d \in Nat \ {0}
  PROVE  /\ x \div d \in Nat
         /\ (x \div d) * d <= x
         /\ x < (x \div d) * d + d
<1>1. PICK q \in Nat : q = x \div d
  OBVIOUS
<1>2. q * d <= x /\ x < q * d + d
  BY <1>1
<1>3. QED
  BY <1>1, <1>2

LEMMA TechoCubre ==
  ASSUME NEW n \in Nat, NEW d \in Nat \ {0}
  PROVE  TechoDiv(n, d) \in Nat /\ n <= TechoDiv(n, d) * d
<1>1. PICK x \in Nat : x = n + d - 1
  OBVIOUS
<1>2. PICK q \in Nat : q = x \div d /\ x < q * d + d
  BY Cociente
<1>3. PICK y \in Nat : y = q * d
  OBVIOUS
<1>4. n <= y
  BY <1>1, <1>2, <1>3
<1>5. QED
  BY <1>1, <1>2, <1>3, <1>4 DEF TechoDiv

(* A byte and the block it is in.                                          *)
LEMMA BloqueDelByte ==
  ASSUME NEW b \in Nat, NEW n \in Nat, NEW x \in Nat,
         b * BLOCK_SIZE <= x, x < (b + n) * BLOCK_SIZE
  PROVE  x \div BLOCK_SIZE \in Tramo(b, n)
<1>1. PICK d \in Nat \ {0} : d = BLOCK_SIZE
  BY ConstantesAssumption
<1>2. PICK q \in Nat : q = x \div d /\ q * d <= x /\ x < q * d + d
  BY Cociente
<1>3. q >= b
  <2>1. SUFFICES ASSUME q + 1 <= b
                 PROVE  FALSE
    BY <1>2
  <2>2. (q + 1) * d <= b * d /\ (q + 1) * d = q * d + d
    BY <2>1, Producto
  <2>3. PICK u, v, w \in Nat : u = (q + 1) * d /\ v = b * d /\ w = q * d
    OBVIOUS
  <2>4. u <= v /\ u = w + d /\ x < w + d /\ v <= x
    BY <1>1, <1>2, <2>2, <2>3
  <2>5. QED
    BY <2>4
<1>4. q < b + n
  <2>1. SUFFICES ASSUME b + n <= q
                 PROVE  FALSE
    BY <1>2
  <2>2. (b + n) * d <= q * d
    BY <2>1, Producto
  <2>3. PICK u, v \in Nat : u = (b + n) * d /\ v = q * d
    OBVIOUS
  <2>4. u <= v /\ v <= x /\ x < u
    BY <1>1, <1>2, <2>2, <2>3
  <2>5. QED
    BY <2>4
<1>5. QED
  BY <1>1, <1>2, <1>3, <1>4 DEF Tramo

(* The bytes of a file are in its blocks.                                  *)
LEMMA TamanioCabe ==
  ASSUME NEW tam \in Nat
  PROVE  /\ CalcularBloques(tam) \in Nat \ {0}
         /\ tam <= CalcularBloques(tam) * BLOCK_SIZE
<1>1. PICK d \in Nat \ {0}, a, c \in Nat : /\ d = BLOCK_SIZE /\ a = TechoDiv(tam, BLOCK_SIZE)
                                           /\ c = CalcularBloques(tam)
  BY ConstantesAssumption, TechoCubre, BloquesDeArchivo
<1>2. a <= c
  <2>1. PICK n \in Nat : n = IF a < 1 THEN 1 ELSE a
    OBVIOUS
  <2>2. {a, 1} \subseteq 0 .. n /\ {a, 1} # {}
    BY <2>1
  <2>3. a <= Max({a, 1})
    BY <2>2, MaximoDe
  <2>4. QED
    BY <1>1, <2>3 DEF CalcularBloques
<1>3. tam <= a * d /\ a * d <= c * d
  BY <1>1, <1>2, TechoCubre, Producto
<1>4. PICK u, v \in Nat : u = a * d /\ v = c * d
  OBVIOUS
<1>5. tam <= c * d
  BY <1>3, <1>4
<1>6. QED
  BY <1>1, <1>5, BloquesDeArchivo

LEMMA TamanioDelDisco ==
  /\ MaxBit \in Nat /\ BLOCK_COUNT <= MaxBit
  /\ Cola \in Nat /\ Cola = MaxBit + BLOCK_COUNT
  /\ Cola * BLOCK_SIZE \in Nat
<1>1. PICK n, d \in Nat \ {0}, s \in Nat : n = BLOCK_COUNT /\ d = BITS_BYTE /\ s = BLOCK_SIZE
  BY ConstantesAssumption
<1>2. PICK q \in Nat : q = TechoDiv(n, d) /\ n <= q * d
  BY TechoCubre
<1>3. PICK m \in Nat : m = q * d
  OBVIOUS
<1>4. MaxBit = m /\ Cola = m + n
  BY <1>1, <1>2, <1>3 DEF MaxBit, Cola
<1>5. (m + n) * s \in Nat
  OBVIOUS
<1>6. QED
  BY <1>1, <1>2, <1>3, <1>4, <1>5

(* The bytes of the blocks of the disc are positions of it.                *)
LEMMA ByteDelDisco ==
  ASSUME NEW b \in Nat, b <= BLOCK_COUNT, NEW x \in Nat, x < b * BLOCK_SIZE
  PROVE  x \in Posiciones
<1>1. PICK s, c \in Nat : s = BLOCK_SIZE /\ c = Cola
  BY TamanioDelDisco, ConstantesAssumption
<1>2. b <= c
  BY <1>1, TamanioDelDisco, ConstantesAssumption
<1>3. b * s <= c * s
  BY <1>2, Producto
<1>4. PICK u, v \in Nat : u = b * s /\ v = c * s
  OBVIOUS
<1>5. x < v
  BY <1>1, <1>3, <1>4
<1>6. QED
  BY <1>1, <1>4, <1>5 DEF Posiciones

TipoFs(e) ==
  /\ DOMAIN e = {"bits", "libres", "disco"}
  /\ e.bits \subseteq Nat
  /\ e.libres \in Int
  /\ e.disco \in [Posiciones -> Bytes]

EnCero(e) == \A x \in Posiciones : x \div BLOCK_SIZE \notin e.bits => e.disco[x] = 0

(* A disc with the blocks of B set, and the others clean.                  *)
Entero(e, B) == TipoFs(e) /\ EnCero(e) /\ e.bits = B

(* The disc, the files of the disc, and the list of the program.           *)
Hechos == TipoFs(fs) /\ EnCero(fs) /\ fs.bits \subseteq 0 .. BLOCK_COUNT - 1

Catalogo ==
  /\ DOMAIN meta = Nombres
  /\ \A f \in Nombres : meta[f] = NADA \/ meta[f] \in [base : Nat, tam : Nat]
  /\ IsFiniteSet(Existentes)
  /\ Disjuntos
  /\ Marcados

Vigente ==
  /\ Listados
  /\ activo \in BOOLEAN
  /\ ToSet(lista) = IF activo THEN Existentes ELSE {}

Nombrado == respuesta \in {"nada", "ok", "M_EXIT"} /\ desvios \subseteq Desvios

Disco    == Hechos /\ Catalogo /\ Vigente /\ Nombrado
DiscoInv == Sano => Disco

-----------------------------------------------------------------------------
(* What each function on blocks returns.                                   *)

LEMMA AllocateBlocksDa ==
  ASSUME NEW e, NEW B, Entero(e, B), NEW b \in Nat, NEW n \in Nat
  PROVE  Entero(AllocateBlocks(e, b, n), B \cup Tramo(b, n))
<1>1. PICK r : r = AllocateBlocks(e, b, n)
  OBVIOUS
<1>2. TipoFs(e) /\ EnCero(e) /\ e.bits = B
  BY DEF Entero
<1>3. /\ DOMAIN r = {"bits", "libres", "disco"}
      /\ r.bits = B \cup Tramo(b, n) /\ r.libres = e.libres - n /\ r.disco = e.disco
  BY <1>1, <1>2 DEF AllocateBlocks, TipoFs
<1>4. \A x \in Tramo(b, n) : x \in Nat
  BY DEF Tramo
<1>5. TipoFs(r)
  BY <1>2, <1>3, <1>4 DEF TipoFs
<1>6. EnCero(r)
  BY <1>2, <1>3 DEF EnCero
<1>7. QED
  BY <1>1, <1>3, <1>5, <1>6 DEF Entero

LEMMA DeallocateBlocksDa ==
  ASSUME NEW e, NEW B, Entero(e, B), NEW b \in Nat, NEW n \in Nat
  PROVE  Entero(DeallocateBlocks(e, b, n), B \ Tramo(b, n))
<1>1. PICK r : r = DeallocateBlocks(e, b, n)
  OBVIOUS
<1>2. TipoFs(e) /\ EnCero(e) /\ e.bits = B
  BY DEF Entero
<1>3. /\ DOMAIN r = {"bits", "libres", "disco"}
      /\ r.bits = B \ Tramo(b, n) /\ r.libres = e.libres + n
      /\ r.disco = [x \in DOMAIN e.disco |->
                     IF x \div BLOCK_SIZE \in Tramo(b, n) THEN 0 ELSE e.disco[x]]
  BY <1>1, <1>2 DEF DeallocateBlocks, TipoFs
<1>4. DOMAIN e.disco = Posiciones /\ \A x \in Posiciones : e.disco[x] \in Bytes
  BY <1>2 DEF TipoFs
<1>5. r.disco \in [Posiciones -> Bytes]
  BY <1>3, <1>4 DEF Bytes
<1>6. TipoFs(r)
  BY <1>2, <1>3, <1>5 DEF TipoFs
<1>7. \A x \in Posiciones :
        r.disco[x] = IF x \div BLOCK_SIZE \in Tramo(b, n) THEN 0 ELSE e.disco[x]
  BY <1>3, <1>4
<1>8. EnCero(r)
  BY <1>2, <1>3, <1>7 DEF EnCero
<1>9. QED
  BY <1>1, <1>3, <1>6, <1>8 DEF Entero

LEMMA EscribirBloquesDa ==
  ASSUME NEW e, NEW B, Entero(e, B), NEW dato, NEW byte \in Int,
         \A x \in Posiciones : x - byte \in DOMAIN dato =>
           dato[x - byte] \in Bytes /\ (x \div BLOCK_SIZE \in B \/ dato[x - byte] = 0)
  PROVE  Entero(EscribirBloques(e, dato, byte), B)
<1>1. PICK r : r = EscribirBloques(e, dato, byte)
  OBVIOUS
<1>2. TipoFs(e) /\ EnCero(e) /\ e.bits = B
  BY DEF Entero
<1>3. /\ DOMAIN r = {"bits", "libres", "disco"} /\ r.bits = B /\ r.libres = e.libres
      /\ r.disco = [x \in DOMAIN e.disco |->
                     IF x - byte \in DOMAIN dato THEN dato[x - byte] ELSE e.disco[x]]
  BY <1>1, <1>2 DEF EscribirBloques, TipoFs
<1>4. DOMAIN e.disco = Posiciones /\ \A x \in Posiciones : e.disco[x] \in Bytes
  BY <1>2 DEF TipoFs
<1>5. r.disco \in [Posiciones -> Bytes]
  BY <1>3, <1>4
<1>6. TipoFs(r)
  BY <1>2, <1>3, <1>5 DEF TipoFs
<1>7. \A x \in Posiciones :
        r.disco[x] = IF x - byte \in DOMAIN dato THEN dato[x - byte] ELSE e.disco[x]
  BY <1>3, <1>4
<1>8. EnCero(r)
  BY <1>2, <1>3, <1>7 DEF EnCero
<1>9. QED
  BY <1>1, <1>3, <1>6, <1>8 DEF Entero

-----------------------------------------------------------------------------
(* The disc of a state, and a file of it.                                  *)
LEMMA DiscoEntero ==
  ASSUME Disco
  PROVE  Entero(fs, fs.bits)
BY DEF Disco, Hechos, Entero

LEMMA FcbExiste ==
  ASSUME Catalogo, NEW f \in Existentes
  PROVE  /\ f \in Nombres /\ Anotado(f)
         /\ meta[f].base \in Nat /\ meta[f].tam \in Nat /\ Cantidad(f) \in Nat \ {0}
         /\ Final(f) = meta[f].base + Cantidad(f)
         /\ Bloques(f) = Tramo(meta[f].base, Cantidad(f))
         /\ Bloques(f) \subseteq fs.bits
         /\ \A g \in Existentes \ {f} : Bloques(f) \cap Bloques(g) = {}
<1>1. Anotado(f)
  BY DEF Catalogo, Marcados, Anotado, Existentes
<1>2. QED
  BY <1>1, FcbDe DEF Catalogo, Disjuntos, Existentes, Anotado

(* A step that changes the metadata of f only.                             *)
LEMMA CambiaFcb ==
  ASSUME Catalogo, NEW f \in Nombres, NEW r, meta' = [meta EXCEPT ![f] = r],
         \A g \in Existentes \ {f} : Bloques(g) \subseteq fs'.bits,
         r = NADA \/
           /\ r \in [base : Nat, tam : Nat]
           /\ Tramo(r.base, CalcularBloques(r.tam)) \subseteq fs'.bits
           /\ \A g \in Existentes \ {f} :
                Tramo(r.base, CalcularBloques(r.tam)) \cap Bloques(g) = {}
  PROVE  /\ Catalogo'
         /\ Existentes' = IF r = NADA THEN Existentes \ {f} ELSE Existentes \cup {f}
<1>1. /\ DOMAIN meta' = Nombres /\ meta'[f] = r
      /\ \A g \in Nombres \ {f} : meta'[g] = meta[g]
  BY DEF Catalogo
<1>2. r \in [base : Nat, tam : Nat] => r # NADA /\ r # VACIO
  BY ConstantesAssumption
<1>3. Existentes' = IF r = NADA THEN Existentes \ {f} ELSE Existentes \cup {f}
  BY <1>1, <1>2 DEF Existentes
<1>4. \A g \in Existentes \ {f} : Bloques(g)' = Bloques(g)
  BY <1>1 DEF Bloques, Cantidad, Existentes
<1>5. ASSUME r # NADA
      PROVE  Bloques(f)' = Tramo(r.base, CalcularBloques(r.tam))
  BY <1>1 DEF Bloques, Cantidad
<1>6. IsFiniteSet(Existentes')
  <2>1. PICK E : E = Existentes
    OBVIOUS
  <2>2. IsFiniteSet(E)
    BY <2>1 DEF Catalogo
  <2>3. IsFiniteSet(E \ {f}) /\ IsFiniteSet(E \cup {f})
    BY <2>2, FS_AddElement, FS_RemoveElement
  <2>4. QED
    BY <1>3, <2>1, <2>3
<1>7. Marcados'
  <2>1. \A g \in Existentes' : Bloques(g)' \subseteq fs'.bits
    BY <1>3, <1>4, <1>5
  <2>2. QED
    BY <2>1 DEF Marcados
<1>8. Disjuntos'
  <2>1. SUFFICES ASSUME NEW g \in Existentes', NEW h \in Existentes', g # h
                 PROVE  Bloques(g)' \cap Bloques(h)' = {}
    BY DEF Disjuntos
  <2>2. CASE g = f
    <3>1. r # NADA /\ h \in Existentes \ {f}
      BY <1>3, <2>1, <2>2
    <3>2. QED
      BY <1>4, <1>5, <2>2, <3>1
  <2>3. CASE h = f
    <3>1. r # NADA /\ g \in Existentes \ {f}
      BY <1>3, <2>1, <2>3
    <3>2. QED
      BY <1>4, <1>5, <2>3, <3>1
  <2>4. CASE g # f /\ h # f
    <3>1. g \in Existentes \ {f} /\ h \in Existentes \ {f}
      BY <1>3, <2>4
    <3>2. Bloques(g) \cap Bloques(h) = {}
      BY <2>1, <3>1 DEF Catalogo, Disjuntos
    <3>3. QED
      BY <1>4, <3>1, <3>2
  <2>5. QED
    BY <2>2, <2>3, <2>4
<1>9. \A g \in Nombres : meta'[g] = NADA \/ meta'[g] \in [base : Nat, tam : Nat]
  BY <1>1 DEF Catalogo
<1>10. QED
  BY <1>1, <1>3, <1>6, <1>7, <1>8, <1>9 DEF Catalogo

(* A step that changes no metadata and clears no bit of a file.            *)
LEMMA CatalogoIgual ==
  ASSUME Catalogo, meta' = meta, \A g \in Existentes : Bloques(g) \subseteq fs'.bits
  PROVE  Catalogo' /\ Existentes' = Existentes
<1>1. Existentes' = Existentes
  BY DEF Existentes
<1>2. \A g : Bloques(g)' = Bloques(g)
  BY DEF Bloques, Cantidad
<1>3. QED
  BY <1>1, <1>2 DEF Catalogo, Disjuntos, Marcados

(* The disc after a step without damage.                                   *)
LEMMA HechosDe ==
  ASSUME TipoFs(fs'), EnCero(fs'), Fuera(fs') = {}
  PROVE  Hechos'
<1>1. ~ \E b \in fs'.bits : b >= BLOCK_COUNT
  BY DEF Fuera
<1>2. \A b \in fs'.bits : b \in 0 .. BLOCK_COUNT - 1
  BY <1>1, ConstantesAssumption DEF TipoFs
<1>3. TipoFs(fs)' /\ EnCero(fs)'
  BY DEF TipoFs, EnCero
<1>4. QED
  BY <1>2, <1>3 DEF Hechos

LEMMA FueraSano ==
  ASSUME Sano', NEW e, Fuera(e) \subseteq desvios'
  PROVE  Fuera(e) = {}
BY DEF Sano, Danios, Fuera

(* A list with no file, of a program that has ended.                       *)
LEMMA VigenteVacia ==
  ASSUME Catalogo', lista' = <<>>, activo' = FALSE
  PROVE  Vigente'
<1>1. <<>> \in Seq(Nombres) /\ ToSet(<<>>) = {}
  BY DEF ToSet
<1>2. \A f : Ocurrencias(f, <<>>) = 0
  BY <1>1, EnLista
<1>3. Listados'
  BY <1>1, <1>2 DEF Listados, Catalogo
<1>4. QED
  BY <1>1, <1>3 DEF Vigente

(* A file of the list exists.                                              *)
LEMMA DeLaLista ==
  ASSUME Disco, NEW f \in ToSet(lista)
  PROVE  f \in Existentes /\ f \in Nombres /\ activo = TRUE
BY DEF Disco, Vigente, Existentes

(* A request that ends with the file f of tam bytes at block b.            *)
LEMMA CompletarDisco ==
  ASSUME Disco, Sano', NEW f \in ToSet(lista), NEW b \in Nat, NEW tam \in Nat,
         NEW e, TipoFs(e), EnCero(e), NEW d \in SUBSET Desvios, Completar(e, f, b, tam, d),
         Tramo(b, Nuevos(tam)) \subseteq e.bits,
         \A g \in Existentes \ {f} :
           Bloques(g) \subseteq e.bits /\ Tramo(b, Nuevos(tam)) \cap Bloques(g) = {}
  PROVE  Disco'
<1>1. f \in Existentes /\ f \in Nombres /\ activo = TRUE
  BY DeLaLista
<1>2. PICK r : r = [base |-> b, tam |-> tam]
  OBVIOUS
<1>3. /\ fs' = e /\ meta' = [meta EXCEPT ![f] = r]
      /\ desvios' = desvios \cup d \cup Fuera(e) /\ respuesta' = "ok"
      /\ lista' = lista /\ activo' = activo
  BY <1>2 DEF Completar, Responder
<1>4. Hechos'
  <2>1. Fuera(e) = {}
    BY <1>3, FueraSano
  <2>2. QED
    BY <1>3, <2>1, HechosDe
<1>5. /\ r \in [base : Nat, tam : Nat] /\ r # NADA
      /\ Tramo(r.base, CalcularBloques(r.tam)) = Tramo(b, Nuevos(tam))
  BY <1>2, ConstantesAssumption DEF Nuevos
<1>6. Catalogo' /\ Existentes' = Existentes
  <2>1. Catalogo' /\ Existentes' = Existentes \cup {f}
    BY <1>1, <1>3, <1>5, CambiaFcb DEF Disco
  <2>2. QED
    BY <1>1, <2>1
<1>7. Vigente'
  BY <1>3, <1>6 DEF Disco, Vigente, Listados, Catalogo
<1>8. Nombrado'
  BY <1>3 DEF Disco, Nombrado, Fuera, Desvios
<1>9. QED
  BY <1>4, <1>6, <1>7, <1>8 DEF Disco

(* One that ends in the writing of metadata loses it.                      *)
LEMMA VaciadaDania ==
  ASSUME NEW f, NEW e, CaerEnMetadata(f, e)
  PROVE  ~Sano'
BY DEF CaerEnMetadata, Terminar, Sano, Danios

(* A program that ends with no bit of a file cleared.                      *)
LEMMA CaerConDisco ==
  ASSUME Disco, Sano', NEW e, TipoFs(e), EnCero(e), fs.bits \subseteq e.bits,
         NEW d \in SUBSET Desvios, CaerCon(e, d)
  PROVE  Disco'
<1>1. /\ fs' = e /\ meta' = meta /\ lista' = <<>> /\ activo' = FALSE
      /\ desvios' = desvios \cup d \cup Fuera(e) /\ respuesta' = "nada"
  BY DEF CaerCon, Terminar, Responder
<1>2. Hechos'
  <2>1. Fuera(e) = {}
    BY <1>1, FueraSano
  <2>2. QED
    BY <1>1, <2>1, HechosDe
<1>3. Catalogo'
  <2>1. \A g \in Existentes : Bloques(g) \subseteq fs'.bits
    BY <1>1, FcbExiste DEF Disco
  <2>2. QED
    BY <1>1, <2>1, CatalogoIgual DEF Disco
<1>4. Vigente'
  BY <1>1, <1>3, VigenteVacia
<1>5. Nombrado'
  BY <1>1 DEF Disco, Nombrado, Fuera, Desvios
<1>6. QED
  BY <1>2, <1>3, <1>4, <1>5 DEF Disco

LEMMA ContestarDisco ==
  ASSUME Disco, NEW r \in {"ok", "M_EXIT"}, Contestar(r)
  PROVE  Disco'
<1>1. /\ UNCHANGED <<fs, meta, lista, activo, desvios>> /\ respuesta' = r
  BY DEF Contestar, Responder
<1>2. Catalogo' /\ Existentes' = Existentes
  <2>1. \A g \in Existentes : Bloques(g) \subseteq fs'.bits
    BY <1>1, FcbExiste DEF Disco
  <2>2. QED
    BY <1>1, <2>1, CatalogoIgual DEF Disco
<1>3. Hechos' /\ Vigente' /\ Nombrado'
  BY <1>1, <1>2 DEF Disco, Hechos, TipoFs, EnCero, Vigente, Listados, Nombrado
<1>4. QED
  BY <1>2, <1>3 DEF Disco

(* The first block that is free.                                           *)
LEMMA PrimeroLibreDa ==
  ASSUME Disco, NEW f \in Nombres, PuedeCrear(f), NEW e, e = ConBloqueBase
  PROVE  /\ PrimeroLibre \in Nat /\ PrimeroLibre \notin fs.bits
         /\ TipoFs(e) /\ EnCero(e) /\ e.bits = fs.bits \cup {PrimeroLibre}
<1> DEFINE L == (0 .. MaxBit - 1) \ fs.bits
<1>1. L # {} /\ L \subseteq Nat
  BY DEF PuedeCrear
<1>2. \E x \in L : \A y \in L : x <= y
  BY <1>1, Minimo
<1>3. PrimeroLibre = CHOOSE x \in L : \A y \in L : x =< y
  BY DEF PrimeroLibre, Min
<1>4. PrimeroLibre \in L
  <2> HIDE DEF L
  <2>1. QED
    BY <1>2, <1>3
<1>5. PICK b \in Nat : b = PrimeroLibre /\ b \notin fs.bits
  BY <1>1, <1>4
<1>6. PICK n, B : n = 1 /\ B = fs.bits
  OBVIOUS
<1>7. Entero(fs, B) /\ n \in Nat
  BY <1>6, DiscoEntero
<1>8. Entero(AllocateBlocks(fs, b, n), B \cup Tramo(b, n))
  BY <1>7, AllocateBlocksDa
<1>9. TipoFs(e) /\ EnCero(e) /\ e.bits = fs.bits \cup Tramo(b, 1)
  BY <1>5, <1>6, <1>8 DEF ConBloqueBase, Entero
<1>10. Tramo(b, 1) = {b}
  BY DEF Tramo
<1>11. QED
  BY <1>5, <1>9, <1>10

LEMMA CrearDisco ==
  ASSUME Disco, Sano', NEW f \in Nombres, Crear(f), activo
  PROVE  Disco'
<1>1. PICK e, b, r : /\ e = ConBloqueBase /\ b = PrimeroLibre /\ r = [base |-> b, tam |-> 0]
  OBVIOUS
<1>2. /\ PuedeCrear(f) /\ f \notin ToSet(lista)
      /\ fs' = e /\ meta' = [meta EXCEPT ![f] = r]
      /\ lista' = Append(lista, f) /\ desvios' = desvios \cup Fuera(e)
      /\ respuesta' = "ok" /\ activo' = activo
  BY <1>1 DEF Crear, PuedeCrear, Responder
<1>3. b \in Nat /\ b \notin fs.bits /\ TipoFs(e) /\ EnCero(e) /\ e.bits = fs.bits \cup {b}
  BY <1>1, <1>2, PrimeroLibreDa
<1>4. Hechos'
  <2>1. Fuera(e) = {}
    BY <1>2, FueraSano
  <2>2. QED
    BY <1>2, <1>3, <2>1, HechosDe
<1>5. /\ r \in [base : Nat, tam : Nat] /\ r # NADA
      /\ Tramo(r.base, CalcularBloques(r.tam)) = {b}
  <2>1. CalcularBloques(0) = 1
    BY BloquesDeArchivo
  <2>2. QED
    BY <1>1, <1>3, <2>1, ConstantesAssumption DEF Tramo
<1>6. \A g \in Existentes \ {f} : Bloques(g) \subseteq fs'.bits /\ {b} \cap Bloques(g) = {}
  <2>1. SUFFICES ASSUME NEW g \in Existentes \ {f}
                 PROVE  Bloques(g) \subseteq fs'.bits /\ {b} \cap Bloques(g) = {}
    OBVIOUS
  <2>2. Bloques(g) \subseteq fs.bits
    BY FcbExiste DEF Disco
  <2>3. QED
    BY <1>2, <1>3, <2>2
<1>7. Catalogo' /\ Existentes' = Existentes \cup {f}
  BY <1>2, <1>3, <1>5, <1>6, CambiaFcb DEF Disco
<1>8. Vigente'
  <2>1. /\ lista' \in Seq(Nombres) /\ ToSet(lista') = ToSet(lista) \cup {f}
        /\ \A g \in Nombres : Ocurrencias(g, lista') <= 1
    <3>1. lista \in Seq(Nombres) /\ \A g \in Nombres : Ocurrencias(g, lista) <= 1
      BY DEF Disco, Vigente, Listados
    <3>2. QED
      BY <1>2, <3>1, ListaConOtro
  <2>2. ToSet(lista) = Existentes
    BY DEF Disco, Vigente
  <2>3. QED
    BY <1>2, <1>7, <2>1, <2>2 DEF Vigente, Listados, Catalogo
<1>9. Nombrado'
  BY <1>2 DEF Disco, Nombrado, Fuera, Desvios
<1>10. QED
  BY <1>4, <1>7, <1>8, <1>9 DEF Disco

LEMMA BorrarDisco ==
  ASSUME Disco, NEW f \in Nombres, Borrar(f)
  PROVE  Disco'
<1>1. PICK r : r = NADA
  OBVIOUS
<1>2. /\ f \in ToSet(lista) /\ fs' = DeallocateBlocks(fs, meta[f].base, Cantidad(f))
      /\ meta' = [meta EXCEPT ![f] = r] /\ lista' = RemoveFirst(lista, f)
      /\ respuesta' = "ok" /\ activo' = activo /\ desvios' = desvios
  BY <1>1 DEF Borrar, SinSusBloques, SinPrimeros, Responder
<1>3. PICK b, n \in Nat : b = meta[f].base /\ n = Cantidad(f) /\ Tramo(b, n) = Bloques(f)
  BY <1>2, DeLaLista, FcbExiste DEF Disco
<1>4. TipoFs(fs') /\ EnCero(fs') /\ fs'.bits = fs.bits \ Bloques(f)
  <2>1. PICK e, B : e = fs' /\ B = fs.bits
    OBVIOUS
  <2>2. Entero(fs, B)
    BY <2>1, DiscoEntero
  <2>3. Entero(DeallocateBlocks(fs, b, n), B \ Tramo(b, n))
    BY <2>2, DeallocateBlocksDa
  <2>4. TipoFs(e) /\ EnCero(e) /\ e.bits = B \ Tramo(b, n)
    BY <1>2, <1>3, <2>1, <2>3 DEF Entero
  <2>5. QED
    BY <1>3, <2>1, <2>4
<1>5. Hechos'
  <2>1. fs'.bits \subseteq 0 .. BLOCK_COUNT - 1
    BY <1>4 DEF Disco, Hechos
  <2>2. QED
    BY <1>4, <2>1 DEF Hechos, TipoFs, EnCero
<1>6. Catalogo' /\ Existentes' = Existentes \ {f}
  <2>1. \A g \in Existentes \ {f} : Bloques(g) \subseteq fs'.bits
    <3>1. TAKE g \in Existentes \ {f}
    <3>2. Bloques(g) \subseteq fs.bits /\ Bloques(g) \cap Bloques(f) = {}
      BY <1>2, DeLaLista, FcbExiste DEF Disco
    <3>3. QED
      BY <1>4, <3>2
  <2>2. QED
    BY <1>1, <1>2, <2>1, CambiaFcb DEF Disco
<1>7. Vigente'
  <2>1. /\ lista' \in Seq(Nombres) /\ ToSet(lista') = ToSet(lista) \ {f}
        /\ \A g \in Nombres : Ocurrencias(g, lista') <= 1
    <3>1. lista \in Seq(Nombres) /\ \A g \in Nombres : Ocurrencias(g, lista) <= 1
      BY DEF Disco, Vigente, Listados
    <3>2. QED
      BY <1>2, <3>1, ListaSinUno
  <2>2. ToSet(lista) = Existentes /\ activo = TRUE
    BY <1>2, DeLaLista DEF Disco, Vigente
  <2>3. QED
    BY <1>2, <1>6, <2>1, <2>2 DEF Vigente, Listados, Catalogo
<1>8. Nombrado'
  BY <1>2 DEF Disco, Nombrado
<1>9. QED
  BY <1>5, <1>6, <1>7, <1>8 DEF Disco

LEMMA MismosBloquesDisco ==
  ASSUME Disco, Sano', NEW f \in Nombres, NEW tam \in Tamanios, MismosBloques(f, tam)
  PROVE  Disco'
<1>1. /\ f \in ToSet(lista) /\ Nuevos(tam) = Cantidad(f) /\ tam \in Nat
      /\ Completar(fs, f, meta[f].base, tam, {})
  BY ConstantesAssumption DEF MismosBloques
<1>2. PICK b \in Nat : b = meta[f].base /\ Tramo(b, Nuevos(tam)) = Bloques(f)
  BY <1>1, DeLaLista, FcbExiste DEF Disco
<1>3. PICK e, d : e = fs /\ d = {}
  OBVIOUS
<1>4. TipoFs(e) /\ EnCero(e) /\ Bloques(f) \subseteq e.bits /\ d \in SUBSET Desvios
  BY <1>1, <1>3, DeLaLista, FcbExiste DEF Disco, Hechos
<1>5. \A g \in Existentes \ {f} : Bloques(g) \subseteq e.bits /\ Bloques(f) \cap Bloques(g) = {}
  BY <1>1, <1>3, DeLaLista, FcbExiste DEF Disco
<1>6. Completar(e, f, b, tam, d)
  BY <1>1, <1>2, <1>3
<1>7. QED
  BY <1>1, <1>2, <1>4, <1>5, <1>6, CompletarDisco

(* The blocks of a file that gets shorter, and those of one that grows.    *)
LEMMA DisminuirDisco ==
  ASSUME Disco, Sano', NEW f \in Nombres, NEW tam \in Tamanios, DisminuirArchivo(f, tam)
  PROVE  Disco'
<1>1. /\ f \in ToSet(lista) /\ Nuevos(tam) < Cantidad(f) /\ tam \in Nat
      /\ Completar(SinUltimos(tam, Sobran(f, tam)), f, meta[f].base, tam, Ajenos(f))
      /\ Ajenos(f) \subseteq desvios'
  BY ConstantesAssumption DEF DisminuirArchivo, Completar
<1>2. meta[f].base = 0 /\ Ajenos(f) = {}
  BY <1>1 DEF Ajenos, Sano, Danios
<1>3. PICK n, m \in Nat : n = Cantidad(f) /\ m = Nuevos(tam)
  BY <1>1, DeLaLista, FcbExiste, BloquesDeArchivo DEF Disco, Nuevos
<1>4. PICK k \in Nat : k = n - m
  BY <1>1, <1>3
<1>5. /\ Bloques(f) = Tramo(0, n) /\ Bloques(f) \subseteq fs.bits
      /\ \A g \in Existentes \ {f} : Bloques(f) \cap Bloques(g) = {} /\ Bloques(g) \subseteq fs.bits
  BY <1>1, <1>2, <1>3, DeLaLista, FcbExiste DEF Disco
<1>6. Tramo(0, n) = Tramo(0, m) \cup Tramo(m, k) /\ Tramo(0, m) \cap Tramo(m, k) = {}
  BY <1>1, <1>3, <1>4 DEF Tramo
<1>7. PICK e, b : e = SinUltimos(tam, Sobran(f, tam)) /\ b = 0
  OBVIOUS
<1>8. TipoFs(e) /\ EnCero(e) /\ e.bits = fs.bits \ Tramo(m, k)
  <2>1. PICK B : B = fs.bits
    OBVIOUS
  <2>2. Entero(fs, B)
    BY <2>1, DiscoEntero
  <2>3. Entero(DeallocateBlocks(fs, m, k), B \ Tramo(m, k))
    BY <2>2, DeallocateBlocksDa
  <2>4. QED
    BY <1>3, <1>4, <1>7, <2>1, <2>3 DEF SinUltimos, Sobran, Entero
<1>9. b \in Nat /\ Tramo(b, Nuevos(tam)) \subseteq e.bits
  BY <1>3, <1>5, <1>6, <1>7, <1>8
<1>10. \A g \in Existentes \ {f} :
         Bloques(g) \subseteq e.bits /\ Tramo(b, Nuevos(tam)) \cap Bloques(g) = {}
  BY <1>3, <1>5, <1>6, <1>7, <1>8
<1>11. Completar(e, f, b, tam, {})
  BY <1>1, <1>2, <1>7
<1>12. QED
  BY <1>1, <1>8, <1>9, <1>10, <1>11, CompletarDisco

(* What is known of a growth.                                              *)
LEMMA CreceDa ==
  ASSUME Disco, NEW f \in Nombres, NEW tam \in Tamanios, Crece(f, tam)
  PROVE  /\ f \in ToSet(lista) /\ f \in Existentes /\ tam \in Nat
         /\ \E b \in Nat, n, k \in Nat \ {0} :
              /\ b = meta[f].base /\ n = Cantidad(f) /\ k = Agregados(f, tam)
              /\ Nuevos(tam) = n + k /\ n + k <= BLOCK_COUNT
              /\ Final(f) = b + n /\ Bloques(f) = Tramo(b, n)
              /\ Tramo(b, n + k) = Tramo(b, n) \cup Tramo(b + n, k)
<1>1. /\ f \in ToSet(lista) /\ tam \in Nat
      /\ Nuevos(tam) \in Cantidad(f) + 1 .. BLOCK_COUNT
  BY ConstantesAssumption DEF Crece
<1>2. f \in Existentes
  BY <1>1, DeLaLista
<1>3. PICK b \in Nat, n \in Nat \ {0} :
        b = meta[f].base /\ n = Cantidad(f) /\ Final(f) = b + n /\ Bloques(f) = Tramo(b, n)
  BY <1>2, FcbExiste DEF Disco
<1>4. PICK m \in Nat : m = Nuevos(tam) /\ m >= n + 1 /\ m <= BLOCK_COUNT
  BY <1>1, <1>3, BloquesDeArchivo, ConstantesAssumption DEF Nuevos
<1>5. PICK k \in Nat \ {0} : k = m - n /\ m = n + k
  BY <1>3, <1>4
<1>6. Agregados(f, tam) = k
  BY <1>3, <1>4, <1>5 DEF Agregados
<1>7. Tramo(b, n + k) = Tramo(b, n) \cup Tramo(b + n, k)
  BY DEF Tramo
<1>8. Nuevos(tam) = n + k /\ n + k <= BLOCK_COUNT
  BY <1>4, <1>5
<1>9. QED
  BY <1>1, <1>2, <1>3, <1>6, <1>7, <1>8

LEMMA AmpliadoDa ==
  ASSUME Disco, NEW f \in Nombres, NEW tam \in Tamanios, Crece(f, tam),
         EspacioAdy(f, Agregados(f, tam)), NEW e, e = Ampliado(f, tam)
  PROVE  /\ TipoFs(e) /\ EnCero(e) /\ fs.bits \subseteq e.bits
         /\ meta[f].base \in Nat /\ Tramo(meta[f].base, Nuevos(tam)) \subseteq e.bits
         /\ \A g \in Existentes \ {f} : /\ Bloques(g) \subseteq e.bits
                                        /\ Tramo(meta[f].base, Nuevos(tam)) \cap Bloques(g) = {}
<1>1. f \in Existentes
  BY CreceDa
<1>2. PICK b \in Nat, n, k \in Nat \ {0} :
        /\ b = meta[f].base /\ n = Cantidad(f) /\ k = Agregados(f, tam)
        /\ Nuevos(tam) = n + k /\ n + k <= BLOCK_COUNT
        /\ Final(f) = b + n /\ Bloques(f) = Tramo(b, n)
        /\ Tramo(b, n + k) = Tramo(b, n) \cup Tramo(b + n, k)
  BY CreceDa
<1>3. PICK c \in Nat : c = b + n
  OBVIOUS
<1>4. TipoFs(e) /\ EnCero(e) /\ e.bits = fs.bits \cup Tramo(c, k)
  <2>1. PICK B, j : B = fs.bits /\ j = k /\ j \in Nat
    OBVIOUS
  <2>2. Entero(fs, B)
    BY <2>1, DiscoEntero
  <2>3. Entero(AllocateBlocks(fs, c, j), B \cup Tramo(c, j))
    BY <2>1, <2>2, AllocateBlocksDa
  <2>4. QED
    BY <1>2, <1>3, <2>1, <2>3 DEF Ampliado, ConOtros, Entero
<1>5. Tramo(c, k) \cap fs.bits = {}
  BY <1>2, <1>3 DEF EspacioAdy
<1>6. /\ Bloques(f) \subseteq fs.bits
      /\ \A g \in Existentes \ {f} : Bloques(g) \subseteq fs.bits /\ Bloques(f) \cap Bloques(g) = {}
  BY <1>1, FcbExiste DEF Disco
<1>7. PICK T : T = Tramo(b, n + k) /\ T = Bloques(f) \cup Tramo(c, k)
  BY <1>2, <1>3
<1>8. /\ T \subseteq e.bits
      /\ \A g \in Existentes \ {f} : Bloques(g) \subseteq e.bits /\ T \cap Bloques(g) = {}
  BY <1>4, <1>5, <1>6, <1>7
<1>9. QED
  BY <1>2, <1>4, <1>7, <1>8

LEMMA AmpliarAlLadoDisco ==
  ASSUME Disco, Sano', NEW f \in Nombres, NEW tam \in Tamanios, AmpliarAlLado(f, tam)
  PROVE  Disco'
<1>1. PICK e : e = Ampliado(f, tam)
  OBVIOUS
<1>2. /\ Crece(f, tam) /\ EspacioAdy(f, Agregados(f, tam))
      /\ Completar(e, f, meta[f].base, tam, {})
  BY <1>1 DEF AmpliarAlLado, Aumenta
<1>3. f \in ToSet(lista) /\ tam \in Nat
  BY <1>2, CreceDa
<1>4. PICK b : b = meta[f].base
  OBVIOUS
<1>5. /\ TipoFs(e) /\ EnCero(e) /\ b \in Nat /\ Tramo(b, Nuevos(tam)) \subseteq e.bits
      /\ \A g \in Existentes \ {f} :
           Bloques(g) \subseteq e.bits /\ Tramo(b, Nuevos(tam)) \cap Bloques(g) = {}
  BY <1>1, <1>2, <1>4, AmpliadoDa
<1>6. QED
  BY <1>2, <1>3, <1>4, <1>5, CompletarDisco

(* The blocks of the first n files of a list.                              *)
LEMMA BloquesDeSuma ==
  ASSUME NEW S, NEW q \in Seq(S), NEW c, c = [i \in 1 .. Len(q) |-> Cantidad(q[i])],
         NEW s, EsSuma(s, c, Len(q)), NEW n \in 0 .. Len(q)
  PROVE  BloquesDe(SubSeq(q, 1, n)) = s[n]
<1>1. PICK t : t = SubSeq(q, 1, n)
  OBVIOUS
<1>2. PICK N \in Nat : N = Len(q)
  BY LenProperties
<1>3. t \in Seq(S) /\ Len(t) = n /\ DOMAIN t = 1 .. n /\ \A i \in 1 .. n : t[i] = q[i]
  BY <1>1, <1>2, SubSeqProperties, LenProperties
<1>4. ASSUME NEW z \in SUBSET (1 .. n), z # {}
      PROVE  Cantidad(t[Max(z)]) = c[Max(z)]
  <2>1. z \subseteq 0 .. n /\ n \in Nat
    OBVIOUS
  <2>2. Max(z) \in 1 .. n
    BY <1>4, <2>1, MaximoDe
  <2>3. PICK m \in 1 .. n : m = Max(z)
    BY <2>2
  <2>4. m \in 1 .. Len(q) /\ t[m] = q[m]
    BY <1>2, <1>3
  <2>5. c[m] = Cantidad(q[m])
    BY <2>4
  <2>6. QED
    BY <2>3, <2>4, <2>5
<1>5. \A g : EsPliegue(g, c, n) <=>
               g = [z \in SUBSET (DOMAIN t) |->
                     IF z = {} THEN 0 ELSE g[z \ {Max(z)}] + Cantidad(t[Max(z)])]
  <2>1. TAKE g
  <2>2. [z \in SUBSET (DOMAIN t) |-> IF z = {} THEN 0 ELSE g[z \ {Max(z)}] + Cantidad(t[Max(z)])]
          = [z \in SUBSET (1 .. n) |-> IF z = {} THEN 0 ELSE g[z \ {Max(z)}] + c[Max(z)]]
    BY <1>3, <1>4
  <2>3. QED
    BY <2>2 DEF EsPliegue
<1>6. BloquesDe(t) =
        (CHOOSE g : g = [z \in SUBSET (DOMAIN t) |->
           IF z = {} THEN 0 ELSE g[z \ {Max(z)}] + Cantidad(t[Max(z)])])[DOMAIN t]
  BY DEF BloquesDe, FoldLeft, MapThenFoldSet
<1>7. PICK g : /\ EsPliegue(g, c, n)
               /\ g = CHOOSE h : h = [z \in SUBSET (DOMAIN t) |->
                        IF z = {} THEN 0 ELSE h[z \ {Max(z)}] + Cantidad(t[Max(z)])]
  <2>1. \E g : EsPliegue(g, c, n)
    <3>1. n \in Nat
      BY <1>2
    <3>2. QED
      BY <3>1, PliegueExiste
  <2>2. \E h : h = [z \in SUBSET (DOMAIN t) |->
                IF z = {} THEN 0 ELSE h[z \ {Max(z)}] + Cantidad(t[Max(z)])]
    BY <1>5, <2>1
  <2>3. PICK g : g = CHOOSE h : h = [z \in SUBSET (DOMAIN t) |->
                        IF z = {} THEN 0 ELSE h[z \ {Max(z)}] + Cantidad(t[Max(z)])]
    OBVIOUS
  <2>4. g = [z \in SUBSET (DOMAIN t) |->
                IF z = {} THEN 0 ELSE g[z \ {Max(z)}] + Cantidad(t[Max(z)])]
    BY <2>2, <2>3
  <2>5. EsPliegue(g, c, n)
    BY <1>5, <2>4, Zenon
  <2>6. QED
    BY <2>3, <2>5
<1>8. BloquesDe(t) = g[1 .. n]
  BY <1>3, <1>6, <1>7
<1>9. g[1 .. n] = s[n]
  BY <1>2, <1>7, PliegueSuma
<1>10. QED
  BY <1>1, <1>8, <1>9

(* The files of the disc end in it, and their bytes are positions of it.   *)
LEMMA CabeEnDisco ==
  ASSUME Disco, NEW f \in Existentes
  PROVE  meta[f].base + Cantidad(f) <= BLOCK_COUNT
<1>1. PICK b \in Nat, n \in Nat \ {0}, m \in Nat :
        b = meta[f].base /\ n = Cantidad(f) /\ m = BLOCK_COUNT /\ Bloques(f) = Tramo(b, n)
  BY FcbExiste, ConstantesAssumption DEF Disco
<1>2. Tramo(b, n) \subseteq 0 .. m - 1
  BY <1>1, FcbExiste DEF Disco, Hechos
<1>3. b + n - 1 \in Tramo(b, n)
  BY DEF Tramo
<1>4. b + n <= m
  BY <1>2, <1>3
<1>5. QED
  BY <1>1, <1>4

LEMMA ByteDeArchivo ==
  ASSUME Disco, NEW f \in Existentes, NEW i \in Nat, i < Cantidad(f) * BLOCK_SIZE
  PROVE  /\ meta[f].base * BLOCK_SIZE + i \in Posiciones
         /\ fs.disco[meta[f].base * BLOCK_SIZE + i] \in Bytes
<1>1. PICK b \in Nat, n \in Nat, d \in Nat :
        /\ b = meta[f].base /\ n = Cantidad(f) /\ d = BLOCK_SIZE
        /\ b + n <= BLOCK_COUNT
  BY FcbExiste, CabeEnDisco, ConstantesAssumption DEF Disco
<1>2. PICK u, v \in Nat : u = b * d /\ v = n * d
  OBVIOUS
<1>3. (b + n) * d = u + v
  BY <1>2
<1>4. PICK x \in Nat : x = u + i
  OBVIOUS
<1>5. x < (b + n) * d
  BY <1>1, <1>2, <1>3, <1>4
<1>6. x \in Posiciones
  BY <1>1, <1>5, ByteDelDisco
<1>7. fs.disco[x] \in Bytes
  BY <1>6 DEF Disco, Hechos, TipoFs
<1>8. QED
  BY <1>1, <1>2, <1>4, <1>6, <1>7

(* A byte written i bytes after the start of block b is in the n blocks    *)
(* from it on.                                                             *)
LEMMA ByteEscrito ==
  ASSUME NEW b \in Nat, NEW n \in Nat, NEW i \in Nat, i < n * BLOCK_SIZE,
         NEW x \in Nat, x = b * BLOCK_SIZE + i
  PROVE  x \div BLOCK_SIZE \in Tramo(b, n)
<1>1. PICK d, u, v \in Nat : d = BLOCK_SIZE /\ u = b * d /\ v = n * d
  BY ConstantesAssumption
<1>2. (b + n) * d = u + v
  BY <1>1
<1>3. u <= x /\ x < u + v
  BY <1>1
<1>4. b * BLOCK_SIZE <= x /\ x < (b + n) * BLOCK_SIZE
  BY <1>1, <1>2, <1>3
<1>5. QED
  BY <1>4, BloqueDelByte

(* copiar_archivo to the first gap.                                        *)
LEMMA HuecoDa ==
  ASSUME NEW n \in Nat, EspacioDisp(n)
  PROVE  /\ Min(Huecos(n)) \in Nat /\ Min(Huecos(n)) + n <= BLOCK_COUNT
         /\ Tramo(Min(Huecos(n)), n) \cap fs.bits = {}
<1>1. Huecos(n) \subseteq Nat /\ Huecos(n) # {}
  BY DEF EspacioDisp, Huecos
<1>2. \E x \in Huecos(n) : \A y \in Huecos(n) : x <= y
  BY <1>1, Minimo
<1>3. Min(Huecos(n)) \in Huecos(n)
  BY <1>2 DEF Min
<1>4. PICK m, h \in Nat : m = BLOCK_COUNT /\ h = Min(Huecos(n)) /\ h \in 0 .. m - n
  BY <1>1, <1>3, ConstantesAssumption DEF Huecos
<1>5. h + n <= m
  BY <1>4
<1>6. QED
  BY <1>1, <1>3, <1>4, <1>5 DEF Huecos

LEMMA MovidoDa ==
  ASSUME Disco, NEW f \in Nombres, NEW tam \in Tamanios, Crece(f, tam),
         EspacioDisp(Nuevos(tam)), NEW e, e = Movido(f, tam), NEW c, c = Min(Huecos(Nuevos(tam)))
  PROVE  /\ TipoFs(e) /\ EnCero(e) /\ c \in Nat
         /\ Tramo(c, Nuevos(tam)) \cap fs.bits = {}
         /\ e.bits = (fs.bits \ Bloques(f)) \cup Tramo(c, Nuevos(tam))
<1>1. f \in Existentes
  BY CreceDa
<1>2. PICK b \in Nat, n, k \in Nat \ {0} :
        /\ b = meta[f].base /\ n = Cantidad(f) /\ k = Agregados(f, tam)
        /\ Nuevos(tam) = n + k /\ n + k <= BLOCK_COUNT
        /\ Final(f) = b + n /\ Bloques(f) = Tramo(b, n)
        /\ Tramo(b, n + k) = Tramo(b, n) \cup Tramo(b + n, k)
  BY CreceDa
<1>3. PICK m, d \in Nat : m = n + k /\ m = Nuevos(tam) /\ d = BLOCK_SIZE
  BY <1>2, ConstantesAssumption
<1>4. c \in Nat /\ Tramo(c, m) \cap fs.bits = {}
  BY <1>3, HuecoDa
<1>5. Tramo(c, m) = Tramo(c, n) \cup Tramo(c + n, k)
  BY <1>3, <1>4 DEF Tramo
<1>6. PICK s, t, u, w, copia, j :
        /\ s = fs /\ t = AllocateBlocks(s, c, m) /\ u = DeallocateBlocks(t, b, n)
        /\ copia = LeerBloques(b * d, n * d)
        /\ w = EscribirBloques(u, copia, c * d) /\ j = c + n
  OBVIOUS
<1>7. e = AllocateBlocks(w, j, k)
  BY <1>2, <1>3, <1>6 DEF Movido, Copiado, Soltado, Tomado, Hueco
<1>8. PICK B : B = fs.bits /\ Entero(s, B)
  BY <1>6, DiscoEntero
<1>9. PICK C, D, y : /\ C = B \cup Tramo(c, m) /\ Entero(t, C)
                     /\ D = C \ Tramo(b, n) /\ Entero(u, D) /\ y = n
  <2>1. Entero(AllocateBlocks(s, c, m), B \cup Tramo(c, m))
    BY <1>4, <1>8, AllocateBlocksDa
  <2>2. PICK C, z : C = B \cup Tramo(c, m) /\ Entero(t, C) /\ z = n /\ z \in Nat
    BY <1>6, <2>1
  <2>3. Entero(DeallocateBlocks(t, b, z), C \ Tramo(b, z))
    BY <2>2, DeallocateBlocksDa
  <2>4. QED
    BY <1>6, <2>2, <2>3
<1>10. Bloques(f) \subseteq fs.bits /\ Bloques(f) \cap Tramo(c, m) = {}
  BY <1>1, <1>4, FcbExiste DEF Disco
<1>11. D = (fs.bits \ Bloques(f)) \cup Tramo(c, m)
  BY <1>2, <1>8, <1>9, <1>10
<1>12. c * d \in Int /\ c * d \in Nat /\ n * d \in Nat /\ b * d \in Nat
  BY <1>4
<1>13. ASSUME NEW x \in Posiciones, x - c * d \in DOMAIN copia
       PROVE  /\ copia[x - c * d] \in Bytes
              /\ x \div BLOCK_SIZE \in D \/ copia[x - c * d] = 0
  <2>1. PICK p, q, r \in Nat : p = c * d /\ q = n * d /\ r = b * d
    BY <1>12
  <2>2. copia = [i \in 0 .. q - 1 |-> fs.disco[r + i]]
    BY <1>6, <2>1 DEF LeerBloques
  <2>3. x \in Nat
    BY DEF Posiciones
  <2>4. PICK i \in Nat : i = x - p /\ i < q /\ i \in 0 .. q - 1
    BY <1>13, <2>1, <2>2, <2>3
  <2>5. copia[i] = fs.disco[r + i]
    BY <2>2, <2>4
  <2>6. fs.disco[r + i] \in Bytes
    <3>1. i < Cantidad(f) * BLOCK_SIZE
      BY <1>2, <1>3, <2>1, <2>4
    <3>2. fs.disco[meta[f].base * BLOCK_SIZE + i] \in Bytes
      BY <1>1, <3>1, ByteDeArchivo
    <3>3. QED
      BY <1>2, <1>3, <2>1, <3>2
  <2>7. x \div BLOCK_SIZE \in Tramo(c, n)
    <3>1. x = p + i
      BY <2>3, <2>4
    <3>2. x = c * BLOCK_SIZE + i /\ i < n * BLOCK_SIZE /\ n \in Nat /\ c \in Nat
      BY <1>3, <1>4, <2>1, <2>4, <3>1
    <3>3. QED
      BY <2>3, <3>2, ByteEscrito
  <2>8. QED
    BY <1>5, <1>11, <2>1, <2>4, <2>5, <2>6, <2>7
<1>14. Entero(w, D)
  <2>1. PICK p \in Int : p = c * d
    BY <1>12
  <2>2. \A x \in Posiciones : x - p \in DOMAIN copia =>
          copia[x - p] \in Bytes /\ (x \div BLOCK_SIZE \in D \/ copia[x - p] = 0)
    BY <1>13, <2>1
  <2>3. Entero(EscribirBloques(u, copia, p), D)
    BY <1>9, <2>2, EscribirBloquesDa
  <2>4. QED
    BY <1>6, <2>1, <2>3
<1>15. Entero(e, D \cup Tramo(j, k))
  <2>1. PICK z : z = k /\ z \in Nat /\ j \in Nat
    BY <1>4, <1>6
  <2>2. Entero(AllocateBlocks(w, j, z), D \cup Tramo(j, z))
    BY <1>14, <2>1, AllocateBlocksDa
  <2>3. QED
    BY <1>7, <2>1, <2>2
<1>16. D \cup Tramo(j, k) = (fs.bits \ Bloques(f)) \cup Tramo(c, m)
  BY <1>5, <1>6, <1>11
<1>17. QED
  BY <1>3, <1>4, <1>15, <1>16 DEF Entero

LEMMA AmpliarMoviendoDisco ==
  ASSUME Disco, Sano', NEW f \in Nombres, NEW tam \in Tamanios, AmpliarMoviendo(f, tam)
  PROVE  Disco'
<1>1. PICK e, b, d : e = Movido(f, tam) /\ b = Min(Huecos(Nuevos(tam))) /\ d = {"mover"}
  OBVIOUS
<1>2. /\ Crece(f, tam) /\ EspacioDisp(Nuevos(tam)) /\ Completar(e, f, b, tam, d)
      /\ d \in SUBSET Desvios
  BY <1>1 DEF AmpliarMoviendo, Mueve, Aumenta, Desvios, Hueco
<1>3. f \in ToSet(lista) /\ f \in Existentes /\ tam \in Nat
  BY <1>2, CreceDa
<1>4. /\ TipoFs(e) /\ EnCero(e) /\ b \in Nat
      /\ Tramo(b, Nuevos(tam)) \cap fs.bits = {}
      /\ e.bits = (fs.bits \ Bloques(f)) \cup Tramo(b, Nuevos(tam))
  BY <1>1, <1>2, MovidoDa
<1>5. \A g \in Existentes \ {f} : Bloques(f) \cap Bloques(g) = {} /\ Bloques(g) \subseteq fs.bits
  BY <1>3, FcbExiste DEF Disco
<1>6. /\ Tramo(b, Nuevos(tam)) \subseteq e.bits
      /\ \A g \in Existentes \ {f} :
           Bloques(g) \subseteq e.bits /\ Tramo(b, Nuevos(tam)) \cap Bloques(g) = {}
  BY <1>4, <1>5
<1>7. QED
  BY <1>2, <1>3, <1>4, <1>6, CompletarDisco

(* Where compactar_fs puts the files: one after the other, in the order of *)
(* the list.                                                               *)
LEMMA OtrosDa ==
  ASSUME Disco, NEW f \in ToSet(lista)
  PROVE  /\ Otros(f) \in Seq(Nombres) /\ IsInjective(Otros(f))
         /\ ToSet(Otros(f)) = Existentes \ {f}
<1>1. f \in Nombres /\ ToSet(lista) = Existentes
  BY DeLaLista DEF Disco, Vigente
<1>2. lista \in Seq(Nombres) /\ \A g \in Nombres : Ocurrencias(g, lista) <= 1
  BY DEF Disco, Vigente, Listados
<1>3. PICK q : q = Otros(f)
  OBVIOUS
<1>4. /\ q \in Seq(Nombres) /\ ToSet(q) = ToSet(lista) \ {f}
      /\ \A g \in Nombres : Ocurrencias(g, q) <= 1
  BY <1>1, <1>2, <1>3, ListaSinUno DEF Otros
<1>5. IsInjective(q)
  BY <1>4, SinRepetir
<1>6. QED
  BY <1>1, <1>3, <1>4, <1>5

(* s[j] is the first block behind the first j of the N files to move.      *)
Reparto(f, N, q, s) ==
  /\ DOMAIN q = 1 .. N /\ \A j \in 1 .. N : q[j] \in Existentes \ {f}
  /\ \A g \in Existentes \ {f} : \E j \in 1 .. N : q[j] = g
  /\ \A j \in 0 .. N : s[j] \in Nat
  /\ \A j \in 1 .. N : NuevaBase(f, q[j]) = s[j - 1] /\ s[j] = s[j - 1] + Cantidad(q[j])
  /\ \A i, j \in 0 .. N : i <= j => s[i] <= s[j]
  /\ Offset(f) = s[N]

LEMMA NuevaBaseDa ==
  ASSUME Disco, NEW f \in ToSet(lista)
  PROVE  \E N \in Nat : \E q, s : Reparto(f, N, q, s)
<1>1. PICK q : q = Otros(f)
  OBVIOUS
<1>2. q \in Seq(Nombres) /\ IsInjective(q) /\ ToSet(q) = Existentes \ {f}
  BY <1>1, OtrosDa
<1>3. PICK N \in Nat : N = Len(q) /\ DOMAIN q = 1 .. N
  BY <1>2, LenProperties
<1>4. PICK c : c = [i \in 1 .. Len(q) |-> Cantidad(q[i])]
  OBVIOUS
<1>5. PICK s : EsSuma(s, c, N)
  BY SumaExiste
<1>6. /\ \A j \in 1 .. N : q[j] \in Existentes \ {f}
      /\ \A g \in Existentes \ {f} : \E j \in 1 .. N : q[j] = g
  BY <1>2, <1>3 DEF ToSet
<1>7. \A j \in 1 .. N : c[j] = Cantidad(q[j]) /\ c[j] \in Nat
  <2>1. TAKE j \in 1 .. N
  <2>2. q[j] \in Existentes
    BY <1>6
  <2>3. Cantidad(q[j]) \in Nat
    BY <2>2, FcbExiste DEF Disco
  <2>4. QED
    BY <1>3, <1>4, <2>3
<1>8. /\ \A j \in 0 .. N : s[j] \in Nat
      /\ \A j \in 1 .. N : s[j] = s[j - 1] + c[j]
      /\ \A i, j \in 0 .. N : i <= j => s[i] <= s[j]
  BY <1>5, <1>7, SumaCrece
<1>9. \A n \in 0 .. N : BloquesDe(SubSeq(q, 1, n)) = s[n]
  <2>1. TAKE n \in 0 .. N
  <2>2. n \in 0 .. Len(q) /\ EsSuma(s, c, Len(q))
    BY <1>3, <1>5
  <2>3. QED
    BY <1>2, <1>4, <2>2, BloquesDeSuma
<1>10. Offset(f) = s[N]
  <2>1. SubSeq(q, 1, N) = q
    <3>1. PICK t : t = SubSeq(q, 1, N)
      OBVIOUS
    <3>2. t \in Seq(Nombres) /\ Len(t) = N /\ \A i \in 1 .. N : t[i] = q[i]
      BY <1>2, <1>3, <3>1, SubSeqProperties
    <3>3. t = q
      BY <1>2, <1>3, <3>2, SeqEqual
    <3>4. QED
      BY <3>1, <3>3
  <2>2. BloquesDe(SubSeq(q, 1, N)) = s[N]
    BY <1>9
  <2>3. QED
    BY <1>1, <2>1, <2>2 DEF Offset
<1>11. ASSUME NEW j \in 1 .. N
       PROVE  NuevaBase(f, q[j]) = s[j - 1]
  <2>1. PICK I : I = {i \in DOMAIN q : q[i] = q[j]}
    OBVIOUS
  <2>2. I = {j}
    BY <1>2, <1>3, <2>1 DEF IsInjective
  <2>3. Min({j}) = j
    BY DEF Min
  <2>4. BloquesDe(SubSeq(q, 1, j - 1)) = s[j - 1]
    <3>1. j - 1 \in 0 .. N
      OBVIOUS
    <3>2. QED
      BY <1>9, <3>1
  <2>5. NuevaBase(f, q[j]) = BloquesDe(SubSeq(q, 1, Min(I) - 1))
    BY <1>1, <2>1 DEF NuevaBase
  <2>6. QED
    BY <2>2, <2>3, <2>4, <2>5
<1>12. \A j \in 1 .. N : NuevaBase(f, q[j]) = s[j - 1] /\ s[j] = s[j - 1] + Cantidad(q[j])
  BY <1>7, <1>8, <1>11
<1>13. Reparto(f, N, q, s)
  BY <1>3, <1>6, <1>8, <1>10, <1>12 DEF Reparto
<1>14. QED
  BY <1>13

LEMMA BasesCompactas ==
  ASSUME Disco, NEW f \in ToSet(lista)
  PROVE  /\ Offset(f) \in Nat
         /\ \A g \in Existentes \ {f} :
              NuevaBase(f, g) \in Nat /\ NuevaBase(f, g) + Cantidad(g) <= Offset(f)
         /\ \A g, h \in Existentes \ {f} : g # h =>
              \/ NuevaBase(f, g) + Cantidad(g) <= NuevaBase(f, h)
              \/ NuevaBase(f, h) + Cantidad(h) <= NuevaBase(f, g)
<1>a. PICK N \in Nat : \E q, s : Reparto(f, N, q, s)
  BY NuevaBaseDa
<1>b. PICK q, s : Reparto(f, N, q, s)
  BY <1>a
<1>1. /\ DOMAIN q = 1 .. N /\ \A j \in 1 .. N : q[j] \in Existentes \ {f}
      /\ \A g \in Existentes \ {f} : \E j \in 1 .. N : q[j] = g
      /\ \A j \in 0 .. N : s[j] \in Nat
      /\ \A j \in 1 .. N : NuevaBase(f, q[j]) = s[j - 1] /\ s[j] = s[j - 1] + Cantidad(q[j])
      /\ \A i, j \in 0 .. N : i <= j => s[i] <= s[j]
      /\ Offset(f) = s[N]
  BY <1>b DEF Reparto
<1>2. Offset(f) \in Nat
  BY <1>1
<1>3. ASSUME NEW j \in 1 .. N
      PROVE  /\ NuevaBase(f, q[j]) \in Nat /\ NuevaBase(f, q[j]) = s[j - 1]
             /\ NuevaBase(f, q[j]) + Cantidad(q[j]) = s[j] /\ s[j] <= s[N]
  <2>1. j - 1 \in 0 .. N /\ j \in 0 .. N /\ N \in 0 .. N /\ j <= N
    OBVIOUS
  <2>2. QED
    BY <1>1, <2>1
<1>4. ASSUME NEW i \in 1 .. N, NEW j \in 1 .. N, i < j
      PROVE  NuevaBase(f, q[i]) + Cantidad(q[i]) <= NuevaBase(f, q[j])
  <2>1. i \in 0 .. N /\ j - 1 \in 0 .. N /\ i <= j - 1
    BY <1>4
  <2>2. s[i] <= s[j - 1]
    BY <1>1, <2>1
  <2>3. QED
    BY <1>3, <2>2
<1>5. \A g \in Existentes \ {f} :
        NuevaBase(f, g) \in Nat /\ NuevaBase(f, g) + Cantidad(g) <= Offset(f)
  <2>1. TAKE g \in Existentes \ {f}
  <2>2. PICK j \in 1 .. N : q[j] = g
    BY <1>1
  <2>3. QED
    BY <1>1, <1>3, <2>2
<1>6. ASSUME NEW g \in Existentes \ {f}, NEW h \in Existentes \ {f}, g # h
      PROVE  \/ NuevaBase(f, g) + Cantidad(g) <= NuevaBase(f, h)
             \/ NuevaBase(f, h) + Cantidad(h) <= NuevaBase(f, g)
  <2>1. PICK i \in 1 .. N, j \in 1 .. N : q[i] = g /\ q[j] = h
    BY <1>1
  <2>2. i < j \/ j < i
    BY <1>6, <2>1
  <2>3. QED
    BY <1>4, <2>1, <2>2
<1>7. QED
  BY <1>2, <1>5, <1>6

(* The buffer has the bytes of the files, and zeros.                       *)
LEMMA BufferDa ==
  ASSUME Disco, NEW f \in ToSet(lista), NEW x \in DOMAIN BufferGeneral(f)
  PROVE  \/ BufferGeneral(f)[x] = 0
         \/ \E h \in Existentes \ {f} :
              /\ x - NuevaBase(f, h) * BLOCK_SIZE \in 0 .. meta[h].tam - 1
              /\ BufferGeneral(f)[x] =
                   fs.disco[meta[h].base * BLOCK_SIZE + (x - NuevaBase(f, h) * BLOCK_SIZE)]
<1> DEFINE De(y, g) == y - NuevaBase(f, g) * BLOCK_SIZE
           T == {h \in ToSet(Otros(f)) : De(x, h) \in 0 .. meta[h].tam - 1}
           h0 == CHOOSE h \in T : TRUE
<1>1. ToSet(Otros(f)) = Existentes \ {f}
  BY OtrosDa
<1>2. BufferGeneral(f)[x] =
        IF T = {} THEN 0 ELSE fs.disco[meta[h0].base * BLOCK_SIZE + De(x, h0)]
  BY DEF BufferGeneral
<1>3. T # {} => h0 \in T
  BY DEF h0
<1>4. QED
  BY <1>1, <1>2, <1>3

(* What compactar_fs leaves on the blocks.                                 *)
LEMMA BufferBien ==
  ASSUME Disco, NEW f \in ToSet(lista), NEW x \in Posiciones, x \in DOMAIN BufferGeneral(f)
  PROVE  /\ BufferGeneral(f)[x] \in Bytes
         /\ x \div BLOCK_SIZE \in Tramo(0, Offset(f)) \/ BufferGeneral(f)[x] = 0
<1>1. CASE BufferGeneral(f)[x] = 0
  BY <1>1 DEF Bytes
<1>2. ASSUME NEW h \in Existentes \ {f},
             x - NuevaBase(f, h) * BLOCK_SIZE \in 0 .. meta[h].tam - 1,
             BufferGeneral(f)[x] =
               fs.disco[meta[h].base * BLOCK_SIZE + (x - NuevaBase(f, h) * BLOCK_SIZE)]
      PROVE  BufferGeneral(f)[x] \in Bytes /\ x \div BLOCK_SIZE \in Tramo(0, Offset(f))
  <2>1. PICK d, b, n, o, tam \in Nat :
          /\ d = BLOCK_SIZE /\ b = NuevaBase(f, h) /\ n = Cantidad(h) /\ o = Offset(f)
          /\ b + n <= o /\ tam = meta[h].tam
    BY <1>2, BasesCompactas, FcbExiste, ConstantesAssumption DEF Disco
  <2>2. PICK u, v \in Nat : u = b * d /\ v = n * d
    OBVIOUS
  <2>3. tam <= v
    <3>1. n = CalcularBloques(tam)
      BY <2>1 DEF Cantidad
    <3>2. tam <= CalcularBloques(tam) * BLOCK_SIZE
      BY TamanioCabe
    <3>3. QED
      BY <2>1, <2>2, <3>1, <3>2
  <2>4. x \in Nat
    BY DEF Posiciones
  <2>5. PICK i \in Nat : i = x - u /\ i < tam
    BY <1>2, <2>1, <2>2, <2>4
  <2>6. i < Cantidad(h) * BLOCK_SIZE /\ i < n * BLOCK_SIZE /\ x = b * BLOCK_SIZE + i
    <3>1. i < v /\ x = u + i
      BY <2>3, <2>4, <2>5
    <3>2. QED
      BY <2>1, <2>2, <3>1
  <2>7. fs.disco[meta[h].base * BLOCK_SIZE + i] \in Bytes
    BY <2>6, ByteDeArchivo
  <2>8. BufferGeneral(f)[x] \in Bytes
    BY <1>2, <2>1, <2>2, <2>5, <2>7
  <2>9. x \div BLOCK_SIZE \in Tramo(b, n)
    BY <2>4, <2>6, ByteEscrito
  <2>10. Tramo(b, n) \subseteq Tramo(0, o)
    BY <2>1 DEF Tramo
  <2>11. QED
    BY <2>1, <2>8, <2>9, <2>10
<1>3. QED
  BY <1>1, <1>2, BufferDa

LEMMA CompactadoDa ==
  ASSUME Disco, NEW f \in ToSet(lista), NEW e, e = Compactado(f), e.libres # 0
  PROVE  TipoFs(e) /\ EnCero(e) /\ e.bits = Tramo(0, Offset(f) + Cantidad(f))
<1>1. PICK z, o, n, d, B, M \in Nat :
        /\ z = 0 /\ o = Offset(f) /\ n = Cantidad(f) /\ d = BLOCK_SIZE /\ B = BLOCK_COUNT
        /\ M = o + n
  <2>1. Offset(f) \in Nat /\ Cantidad(f) \in Nat
    BY DeLaLista, BasesCompactas, FcbExiste DEF Disco
  <2>2. QED
    BY <2>1, ConstantesAssumption
<1>2. PICK s, limpio, t, g, w, p, q :
        /\ s = fs /\ limpio = DeallocateBlocks(s, z, B) /\ t = AllocateBlocks(limpio, z, M)
        /\ g = BufferGeneral(f) /\ w = EscribirBloques(t, g, z)
        /\ p = LeerBloques(meta[f].base * d, meta[f].tam) /\ q = o * d
  OBVIOUS
<1>3. e = EscribirBloques(w, p, q)
  <2>1. e = IF limpio.libres = 0 THEN limpio ELSE EscribirBloques(w, p, q)
    BY <1>1, <1>2 DEF Compactado, Limpio
  <2>2. QED
    BY <2>1
<1>4. Entero(limpio, {})
  <2>1. PICK C : C = fs.bits /\ Entero(s, C) /\ C \subseteq 0 .. B - 1
    BY <1>1, <1>2, DiscoEntero DEF Disco, Hechos
  <2>2. Entero(DeallocateBlocks(s, z, B), C \ Tramo(z, B))
    BY <2>1, DeallocateBlocksDa
  <2>3. C \ Tramo(z, B) = {}
    BY <1>1, <2>1 DEF Tramo
  <2>4. QED
    BY <1>2, <2>2, <2>3
<1>5. PICK T : T = Tramo(z, M) /\ Entero(t, T)
  <2>1. PICK C : C = {}
    OBVIOUS
  <2>2. Entero(AllocateBlocks(limpio, z, M), C \cup Tramo(z, M))
    BY <1>4, <2>1, AllocateBlocksDa
  <2>3. C \cup Tramo(z, M) = Tramo(z, M)
    BY <2>1
  <2>4. QED
    BY <1>2, <2>2, <2>3
<1>6. Tramo(0, o) \subseteq Tramo(z, M) /\ Tramo(o, n) \subseteq Tramo(z, M)
  BY <1>1 DEF Tramo
<1>7. ASSUME NEW x \in Posiciones, x - z \in DOMAIN g
      PROVE  g[x - z] \in Bytes /\ (x \div BLOCK_SIZE \in T \/ g[x - z] = 0)
  <2>1. x - z = x
    BY <1>1 DEF Posiciones
  <2>2. x \in DOMAIN BufferGeneral(f)
    BY <1>2, <1>7, <2>1
  <2>3. /\ BufferGeneral(f)[x] \in Bytes
        /\ x \div BLOCK_SIZE \in Tramo(0, Offset(f)) \/ BufferGeneral(f)[x] = 0
    BY <2>2, BufferBien
  <2>4. QED
    BY <1>1, <1>2, <1>5, <1>6, <2>1, <2>3
<1>8. Entero(w, T)
  <2>1. PICK y \in Int : y = z
    OBVIOUS
  <2>2. \A x \in Posiciones : x - y \in DOMAIN g =>
          g[x - y] \in Bytes /\ (x \div BLOCK_SIZE \in T \/ g[x - y] = 0)
    BY <1>7, <2>1
  <2>3. Entero(EscribirBloques(t, g, y), T)
    BY <1>5, <2>2, EscribirBloquesDa
  <2>4. QED
    BY <1>2, <2>1, <2>3
<1>9. ASSUME NEW x \in Posiciones, x - q \in DOMAIN p
      PROVE  p[x - q] \in Bytes /\ (x \div BLOCK_SIZE \in T \/ p[x - q] = 0)
  <2>1. PICK u, tam, v, r \in Nat : u = n * d /\ tam = meta[f].tam /\ v = meta[f].base * d /\ r = q
    <3>1. meta[f].tam \in Nat /\ meta[f].base \in Nat
      BY DeLaLista, FcbExiste DEF Disco
    <3>2. meta[f].base * d \in Nat /\ n * d \in Nat /\ q \in Nat
      BY <1>2, <3>1
    <3>3. QED
      BY <3>1, <3>2
  <2>2. tam <= u
    <3>1. n = CalcularBloques(tam)
      BY <1>1, <2>1 DEF Cantidad
    <3>2. tam <= CalcularBloques(tam) * BLOCK_SIZE
      BY TamanioCabe
    <3>3. QED
      BY <1>1, <2>1, <3>1, <3>2
  <2>3. p = [i \in 0 .. tam - 1 |-> fs.disco[v + i]]
    BY <1>2, <2>1 DEF LeerBloques
  <2>4. x \in Nat
    BY DEF Posiciones
  <2>5. PICK i \in Nat : i = x - q /\ i < tam /\ i \in 0 .. tam - 1
    BY <1>9, <2>1, <2>3, <2>4
  <2>6. p[i] = fs.disco[v + i]
    BY <2>3, <2>5
  <2>7. i < u
    BY <2>2, <2>5
  <2>8. fs.disco[v + i] \in Bytes
    <3>1. i < Cantidad(f) * BLOCK_SIZE /\ f \in Existentes
      BY <1>1, <2>1, <2>7, DeLaLista
    <3>2. fs.disco[meta[f].base * BLOCK_SIZE + i] \in Bytes
      BY <3>1, ByteDeArchivo
    <3>3. QED
      BY <1>1, <2>1, <3>2
  <2>9. x \div BLOCK_SIZE \in Tramo(o, n)
    <3>1. x = r + i
      BY <2>1, <2>4, <2>5
    <3>2. x = o * BLOCK_SIZE + i /\ i < n * BLOCK_SIZE
      BY <1>1, <1>2, <2>1, <2>7, <3>1
    <3>3. QED
      BY <2>4, <3>2, ByteEscrito
  <2>10. QED
    BY <1>5, <1>6, <1>8, <2>5, <2>6, <2>8, <2>9
<1>10. Entero(e, T)
  <2>1. PICK y \in Int : y = q
    BY <1>2
  <2>2. \A x \in Posiciones : x - y \in DOMAIN p =>
          p[x - y] \in Bytes /\ (x \div BLOCK_SIZE \in T \/ p[x - y] = 0)
    BY <1>9, <2>1
  <2>3. Entero(EscribirBloques(w, p, y), T)
    BY <1>8, <2>2, EscribirBloquesDa
  <2>4. QED
    BY <1>3, <2>1, <2>3
<1>11. QED
  BY <1>1, <1>5, <1>10 DEF Entero

(* The metadata that compactar_fs writes.                                  *)
LEMMA MetaCompactaDa ==
  ASSUME Disco, NEW f \in ToSet(lista)
  PROVE  /\ DOMAIN MetaCompacta(f) = Nombres
         /\ \A g \in Existentes \ {f} :
              MetaCompacta(f)[g] = [base |-> NuevaBase(f, g), tam |-> meta[g].tam]
         /\ \A g \in Nombres \ {f} : g \notin Existentes => MetaCompacta(f)[g] = NADA
<1>1. f \in Nombres /\ ToSet(Otros(f)) = Existentes \ {f}
  BY DeLaLista, OtrosDa
<1>2. /\ DOMAIN MetaCompacta(f) = Nombres
      /\ \A g \in Nombres : MetaCompacta(f)[g] =
           IF g \in Existentes \ {f} THEN [meta[g] EXCEPT !.base = NuevaBase(f, g)] ELSE meta[g]
  BY <1>1 DEF MetaCompacta
<1>3. ASSUME NEW g \in Existentes \ {f}
      PROVE  MetaCompacta(f)[g] = [base |-> NuevaBase(f, g), tam |-> meta[g].tam]
  <2>1. g \in Nombres /\ meta[g] \in [base : Nat, tam : Nat]
    BY FcbExiste DEF Disco, Anotado
  <2>2. [meta[g] EXCEPT !.base = NuevaBase(f, g)]
          = [base |-> NuevaBase(f, g), tam |-> meta[g].tam]
    BY <2>1
  <2>3. QED
    BY <1>2, <2>1, <2>2
<1>4. \A g \in Nombres \ {f} : g \notin Existentes => MetaCompacta(f)[g] = NADA
  <2>1. ASSUME NEW g \in Nombres \ {f}, g \notin Existentes
        PROVE  MetaCompacta(f)[g] = NADA
    <3>1. meta[g] = NADA
      BY <2>1, ConstantesAssumption DEF Existentes, Disco, Catalogo
    <3>2. QED
      BY <1>2, <2>1, <3>1
  <2>2. QED
    BY <2>1
<1>5. QED
  BY <1>2, <1>3, <1>4

LEMMA TramosAparte ==
  ASSUME NEW a \in Nat, NEW n \in Nat, NEW b \in Nat, NEW m \in Nat, a + n <= b \/ b + m <= a
  PROVE  Tramo(a, n) \cap Tramo(b, m) = {}
BY DEF Tramo

LEMMA CatalogoCompacto ==
  ASSUME Disco, NEW f \in ToSet(lista), NEW o \in Nat, o = Offset(f), NEW tam \in Nat,
         NEW r, r = [base |-> o, tam |-> tam],
         meta' = [MetaCompacta(f) EXCEPT ![f] = r],
         Tramo(0, o + Nuevos(tam)) \subseteq fs'.bits
  PROVE  Catalogo' /\ Existentes' = Existentes
<1>1. f \in Existentes /\ f \in Nombres
  BY DeLaLista
<1>2. /\ DOMAIN meta' = Nombres /\ meta'[f] = r
      /\ \A g \in Existentes \ {f} : meta'[g] = [base |-> NuevaBase(f, g), tam |-> meta[g].tam]
      /\ \A g \in Nombres \ {f} : g \notin Existentes => meta'[g] = NADA
  <2>1. /\ DOMAIN MetaCompacta(f) = Nombres
        /\ \A g \in Existentes \ {f} :
             MetaCompacta(f)[g] = [base |-> NuevaBase(f, g), tam |-> meta[g].tam]
        /\ \A g \in Nombres \ {f} : g \notin Existentes => MetaCompacta(f)[g] = NADA
    BY MetaCompactaDa
  <2>2. \A g \in Existentes : g \in Nombres
    BY DEF Existentes
  <2>3. QED
    BY <1>1, <2>1, <2>2
<1>3. PICK n \in Nat : n = Nuevos(tam)
  BY BloquesDeArchivo DEF Nuevos
<1>4. \A g \in Existentes \ {f} :
        /\ NuevaBase(f, g) \in Nat /\ meta[g].tam \in Nat /\ Cantidad(g) \in Nat
        /\ NuevaBase(f, g) + Cantidad(g) <= o
        /\ g \in Nombres
  BY BasesCompactas, FcbExiste DEF Disco
<1>5. /\ r \in [base : Nat, tam : Nat]
      /\ \A g \in Existentes \ {f} : meta'[g] \in [base : Nat, tam : Nat]
  <2>1. r \in [base : Nat, tam : Nat]
    OBVIOUS
  <2>2. ASSUME NEW g \in Existentes \ {f}
        PROVE  meta'[g] \in [base : Nat, tam : Nat]
    <3>1. PICK a, t \in Nat : a = NuevaBase(f, g) /\ t = meta[g].tam
      BY <1>4
    <3>2. meta'[g] = [base |-> a, tam |-> t]
      BY <1>2, <3>1
    <3>3. QED
      BY <3>2
  <2>3. QED
    BY <2>1, <2>2
<1>6. Existentes' = Existentes
  <2>1. ASSUME NEW g \in Nombres
        PROVE  meta'[g] \notin {NADA, VACIO} <=> g \in Existentes
    <3>1. CASE g \in Existentes
      <4>1. meta'[g] \in [base : Nat, tam : Nat]
        BY <1>2, <1>5, <3>1
      <4>2. QED
        BY <3>1, <4>1, ConstantesAssumption
    <3>2. CASE g \notin Existentes
      BY <1>1, <1>2, <3>2
    <3>3. QED
      BY <3>1, <3>2
  <2>2. QED
    BY <2>1 DEF Existentes
<1>7. /\ Bloques(f)' = Tramo(o, n)
      /\ \A g \in Existentes \ {f} : Bloques(g)' = Tramo(NuevaBase(f, g), Cantidad(g))
  <2>1. meta'[f].base = o /\ meta'[f].tam = tam
    BY <1>2
  <2>2. Bloques(f)' = Tramo(o, n)
    BY <1>3, <2>1 DEF Bloques, Cantidad, Nuevos
  <2>3. ASSUME NEW g \in Existentes \ {f}
        PROVE  Bloques(g)' = Tramo(NuevaBase(f, g), Cantidad(g))
    <3>1. PICK a, t : a = NuevaBase(f, g) /\ t = meta[g].tam
      OBVIOUS
    <3>2. meta'[g] = [base |-> a, tam |-> t]
      BY <1>2, <3>1
    <3>3. meta'[g].base = a /\ meta'[g].tam = t
      BY <3>2
    <3>4. Bloques(g)' = Tramo(a, CalcularBloques(t))
      BY <3>3 DEF Bloques, Cantidad
    <3>5. QED
      BY <3>1, <3>4 DEF Cantidad
  <2>4. QED
    BY <2>2, <2>3
<1>8. Marcados'
  <2>1. Tramo(o, n) \subseteq Tramo(0, o + n)
    BY DEF Tramo
  <2>2. ASSUME NEW g \in Existentes \ {f}
        PROVE  Tramo(NuevaBase(f, g), Cantidad(g)) \subseteq Tramo(0, o + n)
    <3>1. PICK a, k \in Nat : a = NuevaBase(f, g) /\ k = Cantidad(g) /\ a + k <= o
      BY <1>4
    <3>2. Tramo(a, k) \subseteq Tramo(0, o + n)
      BY <3>1 DEF Tramo
    <3>3. QED
      BY <3>1, <3>2
  <2>3. \A g \in Existentes' : Bloques(g)' \subseteq fs'.bits
    BY <1>3, <1>6, <1>7, <2>1, <2>2
  <2>4. QED
    BY <2>3 DEF Marcados
<1>9. ASSUME NEW g \in Existentes \ {f}
      PROVE  Bloques(g)' \cap Bloques(f)' = {}
  <2>1. PICK a, k \in Nat : a = NuevaBase(f, g) /\ k = Cantidad(g) /\ a + k <= o
    BY <1>4
  <2>2. Tramo(a, k) \cap Tramo(o, n) = {}
    BY <2>1, TramosAparte
  <2>3. QED
    BY <1>7, <2>1, <2>2
<1>10. ASSUME NEW g \in Existentes \ {f}, NEW h \in Existentes \ {f}, g # h
       PROVE  Bloques(g)' \cap Bloques(h)' = {}
  <2>1. PICK a, k, b, j \in Nat : /\ a = NuevaBase(f, g) /\ k = Cantidad(g)
                                  /\ b = NuevaBase(f, h) /\ j = Cantidad(h)
    BY <1>4
  <2>2. a + k <= b \/ b + j <= a
    BY <1>10, <2>1, BasesCompactas
  <2>3. Tramo(a, k) \cap Tramo(b, j) = {}
    BY <2>2, TramosAparte
  <2>4. QED
    BY <1>7, <2>1, <2>3
<1>11. Disjuntos'
  <2>1. \A g, h \in Existentes' : g # h => Bloques(g)' \cap Bloques(h)' = {}
    BY <1>6, <1>9, <1>10
  <2>2. QED
    BY <2>1 DEF Disjuntos
<1>12. IsFiniteSet(Existentes')
  BY <1>6 DEF Disco, Catalogo
<1>13. \A g \in Nombres : meta'[g] = NADA \/ meta'[g] \in [base : Nat, tam : Nat]
  BY <1>2, <1>5
<1>14. QED
  BY <1>2, <1>6, <1>8, <1>11, <1>12, <1>13 DEF Catalogo

LEMMA AmpliarCompactandoDisco ==
  ASSUME Disco, Sano', NEW f \in Nombres, NEW tam \in Tamanios, AmpliarCompactando(f, tam)
  PROVE  Disco'
<1>1. PICK e, a, r :
        /\ e = Compactado(f)
        /\ a = AllocateBlocks(e, Offset(f) + Cantidad(f), Agregados(f, tam))
        /\ r = [base |-> Offset(f), tam |-> tam]
  OBVIOUS
<1>2. Crece(f, tam) /\ lista' = lista /\ activo' = activo
  BY DEF AmpliarCompactando, Compacta, Aumenta
<1>3. /\ e.libres # 0 /\ fs' = a /\ meta' = [MetaCompacta(f) EXCEPT ![f] = r]
      /\ desvios' = desvios \cup {"compactar"} \cup Fuera(a) /\ respuesta' = "ok"
  <2>1. CASE e.libres = 0
    <3>1. "rechazo" \in desvios'
      BY <1>1, <2>1 DEF AmpliarCompactando
    <3>2. QED
      BY <3>1 DEF Sano, Danios
  <2>2. CASE e.libres # 0
    BY <1>1, <2>2 DEF AmpliarCompactando, Responder
  <2>3. QED
    BY <2>1, <2>2
<1>4. f \in ToSet(lista) /\ f \in Existentes /\ tam \in Nat
  BY <1>2, CreceDa
<1>5. PICK o, n, k, j, z \in Nat :
        /\ o = Offset(f) /\ n = Cantidad(f) /\ k = Agregados(f, tam) /\ j = o + n /\ z = 0
        /\ Nuevos(tam) = n + k
  <2>1. Offset(f) \in Nat
    BY <1>4, BasesCompactas
  <2>2. /\ Cantidad(f) \in Nat /\ Agregados(f, tam) \in Nat
        /\ Nuevos(tam) = Cantidad(f) + Agregados(f, tam)
    BY <1>2, CreceDa
  <2>3. QED
    BY <2>1, <2>2
<1>6. TipoFs(e) /\ EnCero(e) /\ e.bits = Tramo(z, j)
  BY <1>1, <1>3, <1>4, <1>5, CompactadoDa
<1>7. TipoFs(a) /\ EnCero(a) /\ a.bits = Tramo(z, j) \cup Tramo(j, k)
  <2>1. PICK B : B = Tramo(z, j) /\ Entero(e, B)
    BY <1>6 DEF Entero
  <2>2. Entero(AllocateBlocks(e, j, k), B \cup Tramo(j, k))
    BY <2>1, AllocateBlocksDa
  <2>3. QED
    BY <1>1, <1>5, <2>1, <2>2 DEF Entero
<1>8. Tramo(0, o + Nuevos(tam)) \subseteq fs'.bits
  <2>1. Tramo(0, o + (n + k)) = Tramo(z, j) \cup Tramo(j, k)
    BY <1>5 DEF Tramo
  <2>2. QED
    BY <1>3, <1>5, <1>6, <1>7, <2>1
<1>9. Hechos'
  <2>1. Fuera(a) = {}
    BY <1>3, FueraSano
  <2>2. QED
    BY <1>3, <1>7, <2>1, HechosDe
<1>10. Catalogo' /\ Existentes' = Existentes
  <2>1. r = [base |-> o, tam |-> tam]
    BY <1>1, <1>5
  <2>2. QED
    BY <1>3, <1>4, <1>5, <1>8, <2>1, CatalogoCompacto
<1>11. Vigente'
  BY <1>2, <1>10 DEF Disco, Vigente, Listados, Catalogo
<1>12. Nombrado'
  BY <1>3 DEF Disco, Nombrado, Fuera, Desvios
<1>13. QED
  BY <1>9, <1>10, <1>11, <1>12 DEF Disco

(* A write that does not pass the end of the word goes inside the file.    *)
LEMMA EscribeDentro ==
  ASSUME Disco, Sano', NEW f \in Nombres, NEW ptr \in Nat, NEW n \in Nat, NEW d \in Datos,
         EscribirArchivo(f, ptr, n, d)
  PROVE  /\ f \in ToSet(lista) /\ ptr + n <= meta[f].tam
         /\ fs' = EscribirBloques(fs, [i \in 0 .. n - 1 |-> d], meta[f].base * BLOCK_SIZE + ptr)
         /\ UNCHANGED <<meta, lista, activo, desvios>> /\ respuesta' = "ok"
<1>1. f \in ToSet(lista) /\ f \in Existentes
  BY DeLaLista DEF EscribirArchivo
<1>2. "vuelta" \notin desvios'
  BY DEF Sano, Danios
<1>3. ptr + n <= meta[f].tam
  BY <1>2 DEF EscribirArchivo, EnArchivo
<1>4. PICK b, m, t, c, d1, w \in Nat :
        /\ b = meta[f].base /\ m = Cantidad(f) /\ t = meta[f].tam /\ c = BLOCK_COUNT
        /\ d1 = BLOCK_SIZE /\ w = PALABRA /\ b + m <= c
  BY <1>1, FcbExiste, CabeEnDisco, ConstantesAssumption DEF Disco
<1>5. PICK u, v, x \in Nat : u = b * d1 /\ v = m * d1 /\ x = c * d1
  OBVIOUS
<1>6. t <= v
  <2>1. m = CalcularBloques(t)
    BY <1>4 DEF Cantidad
  <2>2. QED
    BY <1>4, <1>5, <2>1, TamanioCabe
<1>7. u + v <= x
  <2>1. PICK h \in Nat : h = b + m
    OBVIOUS
  <2>2. h * d1 <= c * d1
    BY <1>4, <2>1, Producto
  <2>3. h * d1 = u + v
    BY <1>5, <2>1
  <2>4. QED
    BY <1>5, <2>2, <2>3
<1>8. 2 * x < w
  BY <1>4, <1>5, ConstantesAssumption
<1>9. PICK y \in Nat : y = u + ptr /\ 2 * y < w
  BY <1>3, <1>4, <1>6, <1>7, <1>8
<1>10. y % w = y
  BY <1>9
<1>11. ByteInicial(f, ptr) = y
  BY <1>4, <1>5, <1>9, <1>10 DEF ByteInicial, ComoInt
<1>12. desvios' = desvios
  BY <1>3 DEF EscribirArchivo, EnArchivo
<1>13. QED
  BY <1>1, <1>3, <1>4, <1>5, <1>9, <1>11, <1>12 DEF EscribirArchivo, Responder

(* A write inside a file.                                                  *)
LEMMA EscribirArchivoDisco ==
  ASSUME Disco, Sano', NEW f \in Nombres, NEW ptr \in Nat, NEW n \in Nat, NEW d \in Datos,
         EscribirArchivo(f, ptr, n, d)
  PROVE  Disco'
<1>1. PICK dato, e : /\ dato = [i \in 0 .. n - 1 |-> d] /\ e = fs'
  OBVIOUS
<1>2. /\ f \in ToSet(lista) /\ f \in Existentes /\ ptr + n <= meta[f].tam
      /\ e = EscribirBloques(fs, dato, meta[f].base * BLOCK_SIZE + ptr)
      /\ UNCHANGED <<meta, lista, activo, desvios>> /\ respuesta' = "ok"
  BY <1>1, EscribeDentro, DeLaLista
<1>3. PICK b, m, tam, u, v \in Nat :
        /\ b = meta[f].base /\ m = Cantidad(f) /\ tam = meta[f].tam
        /\ u = b * BLOCK_SIZE /\ v = m * BLOCK_SIZE /\ tam <= v
  <2>1. PICK b, m, tam \in Nat : b = meta[f].base /\ m = Cantidad(f) /\ tam = meta[f].tam
    BY <1>2, FcbExiste DEF Disco
  <2>2. tam <= m * BLOCK_SIZE
    BY <2>1, TamanioCabe DEF Cantidad
  <2>3. b * BLOCK_SIZE \in Nat /\ m * BLOCK_SIZE \in Nat
    BY ConstantesAssumption
  <2>4. QED
    BY <2>1, <2>2, <2>3
<1>4. PICK byte \in Int : byte = u + ptr
  OBVIOUS
<1>5. ASSUME NEW x \in Posiciones, x - byte \in DOMAIN dato
      PROVE  dato[x - byte] \in Bytes /\ (x \div BLOCK_SIZE \in fs.bits \/ dato[x - byte] = 0)
  <2>1. x \in Nat
    BY DEF Posiciones
  <2>2. PICK i \in Nat : i = x - byte /\ i < n /\ i \in 0 .. n - 1
    BY <1>1, <1>5, <2>1
  <2>3. dato[i] = d
    BY <1>1, <2>2
  <2>4. PICK k \in Nat : k = ptr + i
    OBVIOUS
  <2>5. k < m * BLOCK_SIZE /\ x = b * BLOCK_SIZE + k
    <3>1. k < v /\ x = u + k
      BY <1>2, <1>3, <1>4, <2>1, <2>2, <2>4
    <3>2. QED
      BY <1>3, <3>1
  <2>6. x \div BLOCK_SIZE \in Tramo(b, m)
    BY <2>1, <2>5, ByteEscrito
  <2>7. Tramo(b, m) \subseteq fs.bits
    BY <1>2, <1>3, FcbExiste DEF Disco
  <2>8. QED
    BY <2>2, <2>3, <2>6, <2>7 DEF Bytes
<1>6. TipoFs(e) /\ EnCero(e) /\ e.bits = fs.bits
  <2>1. PICK B : B = fs.bits /\ Entero(fs, B)
    BY DiscoEntero
  <2>2. \A x \in Posiciones : x - byte \in DOMAIN dato =>
          dato[x - byte] \in Bytes /\ (x \div BLOCK_SIZE \in B \/ dato[x - byte] = 0)
    BY <1>5, <2>1
  <2>3. Entero(EscribirBloques(fs, dato, byte), B)
    BY <2>1, <2>2, EscribirBloquesDa
  <2>4. QED
    BY <1>2, <1>3, <1>4, <2>1, <2>3 DEF Entero
<1>7. Hechos'
  BY <1>1, <1>6 DEF Disco, Hechos, TipoFs, EnCero
<1>8. Catalogo' /\ Existentes' = Existentes
  <2>1. \A g \in Existentes : Bloques(g) \subseteq fs'.bits
    BY <1>1, <1>6, FcbExiste DEF Disco
  <2>2. QED
    BY <1>2, <2>1, CatalogoIgual DEF Disco
<1>9. Vigente' /\ Nombrado'
  BY <1>2, <1>8 DEF Disco, Vigente, Listados, Nombrado
<1>10. QED
  BY <1>7, <1>8, <1>9 DEF Disco

(* The program ends between two requests, or by a read past a file's end.  *)
LEMMA TerminarDisco ==
  ASSUME Disco, UNCHANGED <<fs, meta, desvios>>, lista' = <<>>, activo' = FALSE,
         respuesta' \in {"nada", "M_EXIT"}
  PROVE  Disco'
<1>1. Catalogo'
  <2>1. \A g \in Existentes : Bloques(g) \subseteq fs'.bits
    BY FcbExiste DEF Disco
  <2>2. QED
    BY <2>1, CatalogoIgual DEF Disco
<1>2. Vigente'
  BY <1>1, VigenteVacia
<1>3. Hechos' /\ Nombrado'
  BY DEF Disco, Hechos, TipoFs, EnCero, Nombrado
<1>4. QED
  BY <1>1, <1>2, <1>3 DEF Disco

(* The program starts from the files.                                      *)
LEMMA IniciarDisco ==
  ASSUME Disco, Sano', Iniciar
  PROVE  Disco'
<1>1. PICK e : e = fs'
  OBVIOUS
<1>2. /\ lista' \in SetToSeqs(Existentes) /\ e = EnDisco(fs) /\ meta' = meta /\ activo' = TRUE
      /\ respuesta' = "nada" /\ desvios' \subseteq desvios \cup {"reinicio"}
  <2>1. "olvido" \notin desvios'
    BY DEF Sano, Danios
  <2>2. Existentes \subseteq ConExtension
    BY <2>1 DEF Iniciar
  <2>3. Existentes \cap ConExtension = Existentes
    BY <2>2
  <2>4. QED
    BY <1>1, <2>2, <2>3 DEF Iniciar, Responder
<1>3. /\ DOMAIN e = {"bits", "libres", "disco"}
      /\ e.bits = fs.bits \cap 0 .. MaxBit - 1 /\ e.libres = BLOCK_COUNT
      /\ e.disco = [x \in DOMAIN fs.disco |->
                     IF x < BLOCK_COUNT * BLOCK_SIZE THEN fs.disco[x] ELSE 0]
  BY <1>2 DEF EnDisco, Disco, Hechos, TipoFs
<1>4. e.bits = fs.bits
  <2>1. PICK m, c \in Int : m = MaxBit /\ c = BLOCK_COUNT /\ c <= m
    BY TamanioDelDisco, ConstantesAssumption
  <2>2. fs.bits \subseteq 0 .. c - 1
    BY <2>1 DEF Disco, Hechos
  <2>3. QED
    BY <1>3, <2>1, <2>2
<1>5. /\ DOMAIN fs.disco = Posiciones /\ \A x \in Posiciones : fs.disco[x] \in Bytes
      /\ EnCero(fs) /\ fs.bits \subseteq 0 .. BLOCK_COUNT - 1 /\ fs.bits \subseteq Nat
  BY DEF Disco, Hechos, TipoFs
<1>6. \A x \in Posiciones : e.disco[x] \in {0, fs.disco[x]}
  BY <1>3, <1>5
<1>7. e.disco \in [Posiciones -> Bytes]
  BY <1>3, <1>5, <1>6 DEF Bytes
<1>8. EnCero(e)
  BY <1>4, <1>5, <1>6 DEF EnCero
<1>9. TipoFs(e)
  BY <1>3, <1>4, <1>5, <1>7, ConstantesAssumption DEF TipoFs
<1>10. Hechos'
  BY <1>1, <1>4, <1>5, <1>8, <1>9 DEF Hechos, TipoFs, EnCero
<1>11. Catalogo' /\ Existentes' = Existentes
  <2>1. \A g \in Existentes : Bloques(g) \subseteq fs'.bits
    BY <1>1, <1>4, FcbExiste DEF Disco
  <2>2. QED
    BY <1>2, <2>1, CatalogoIgual DEF Disco
<1>12. Vigente'
  <2>1. PICK E, s : E = Existentes /\ s = lista'
    OBVIOUS
  <2>2. IsFiniteSet(E) /\ s \in SetToSeqs(E) /\ E \subseteq Nombres
    BY <1>2, <2>1 DEF Disco, Catalogo, Existentes
  <2>3. s \in Seq(E) /\ \A p \in E : Ocurrencias(p, s) = 1
    BY <2>2, SetToSeqsOcurrencias
  <2>4. \A p : p \in ToSet(s) <=> Ocurrencias(p, s) # 0
    BY <2>3, EnLista
  <2>5. \A p \in ToSet(s) : p \in E
    BY <2>3, ElementOfSeq, LenProperties DEF ToSet
  <2>6. ToSet(s) = E
    <3>1. ASSUME NEW p \in E
          PROVE  p \in ToSet(s)
      <4>1. Ocurrencias(p, s) # 0
        BY <2>3
      <4>2. QED
        BY <2>4, <4>1
    <3>2. QED
      BY <2>5, <3>1
  <2>7. s \in Seq(Nombres)
    BY <2>2, <2>3
  <2>8. \A p \in Nombres : Ocurrencias(p, s) <= 1
    <3>1. TAKE p \in Nombres
    <3>2. CASE p \in E
      BY <2>3, <3>2
    <3>3. CASE p \notin E
      <4>1. Ocurrencias(p, s) = 0
        BY <2>4, <2>6, <3>3
      <4>2. QED
        BY <4>1
    <3>4. QED
      BY <3>2, <3>3
  <2>9. QED
    BY <1>2, <1>11, <2>1, <2>6, <2>7, <2>8 DEF Vigente, Listados, Catalogo
<1>13. Nombrado'
  BY <1>2 DEF Disco, Nombrado, Desvios
<1>14. QED
  BY <1>10, <1>11, <1>12, <1>13 DEF Disco

LEMMA DiscoInicial == Init => Disco
<1> SUFFICES ASSUME Init PROVE Disco
  OBVIOUS
<1>1. /\ fs = [bits |-> {}, libres |-> BLOCK_COUNT, disco |-> [x \in Posiciones |-> 0]]
      /\ meta = [f \in Nombres |-> NADA] /\ lista = <<>> /\ activo = TRUE
      /\ respuesta = "nada" /\ desvios = {}
  BY DEF Init
<1>2. Existentes = {}
  BY <1>1 DEF Existentes
<1>3. Hechos
  BY <1>1, ConstantesAssumption DEF Hechos, TipoFs, EnCero, Bytes
<1>4. Catalogo
  BY <1>1, <1>2, FS_EmptySet DEF Catalogo, Disjuntos, Marcados
<1>5. Vigente
  <2>1. PICK s : s = lista
    OBVIOUS
  <2>2. s \in Seq(Nombres) /\ ToSet(s) = {}
    BY <1>1, <2>1 DEF ToSet
  <2>3. \A f : Ocurrencias(f, s) = 0
    BY <2>2, EnLista
  <2>4. QED
    BY <1>1, <1>2, <2>1, <2>2, <2>3 DEF Vigente, Listados
<1>6. Nombrado
  BY <1>1 DEF Nombrado
<1>7. QED
  BY <1>3, <1>4, <1>5, <1>6 DEF Disco

-----------------------------------------------------------------------------
LEMMA CrearYCaerDisco ==
  ASSUME Disco, Sano', NEW f \in Nombres, CrearYCaer(f)
  PROVE  Disco'
<1>1. PICK e, d : e = ConBloqueBase /\ d = {"fuga"}
  OBVIOUS
<1>2. PuedeCrear(f) /\ CaerCon(e, d) /\ d \in SUBSET Desvios
  BY <1>1, VaciadaDania DEF CrearYCaer, Desvios
<1>3. TipoFs(e) /\ EnCero(e) /\ fs.bits \subseteq e.bits
  BY <1>1, <1>2, PrimeroLibreDa
<1>4. QED
  BY <1>2, <1>3, CaerConDisco

LEMMA AmpliarYCaerDisco ==
  ASSUME Disco, Sano', NEW f \in Nombres, NEW tam \in Tamanios, AmpliarYCaer(f, tam)
  PROVE  Disco'
<1>1. Crece(f, tam)
  BY DEF AmpliarYCaer, Aumenta
<1>2. PICK d, k : d = {"fuga"} /\ k \in 1 .. Agregados(f, tam) /\ CaerCon(ConOtros(f, k), d)
  BY VaciadaDania DEF AmpliarYCaer
<1>3. k \in Nat /\ d \in SUBSET Desvios
  BY <1>2 DEF Desvios
<1>4. PICK c \in Nat : c = Final(f)
  BY <1>1, CreceDa
<1>5. PICK e, B : e = AllocateBlocks(fs, c, k) /\ B = fs.bits /\ e = ConOtros(f, k)
  BY <1>4 DEF ConOtros
<1>6. Entero(e, B \cup Tramo(c, k))
  <2>1. Entero(fs, B)
    BY <1>5, DiscoEntero
  <2>2. Entero(AllocateBlocks(fs, c, k), B \cup Tramo(c, k))
    BY <1>3, <2>1, AllocateBlocksDa
  <2>3. QED
    BY <1>5, <2>2
<1>7. TipoFs(e) /\ EnCero(e) /\ fs.bits \subseteq e.bits /\ CaerCon(e, d)
  BY <1>2, <1>5, <1>6 DEF Entero
<1>8. QED
  BY <1>3, <1>7, CaerConDisco

LEMMA PedidoDisco ==
  ASSUME Disco, Sano', activo, NEW f \in Nombres, Pedido(f)
  PROVE  Disco'
<1>1. ASSUME NEW r \in {"ok", "M_EXIT"}, Contestar(r)
      PROVE  Disco'
  BY <1>1, ContestarDisco
<1>2. CASE CrearDuplicado(f) \/ CrearSinBloques(f) \/ NoEsta(f)
  BY <1>1, <1>2 DEF CrearDuplicado, CrearSinBloques, NoEsta
<1>3. CASE Crear(f)
  BY <1>3, CrearDisco
<1>4. CASE Borrar(f)
  BY <1>4, BorrarDisco
<1>5. CASE CrearYCaer(f)
  BY <1>5, CrearYCaerDisco
<1>6. CASE BorrarYCaer(f)
  BY <1>6 DEF BorrarYCaer, CaerCon, Terminar, Sano, Danios
<1>7. ASSUME NEW tam \in Tamanios, Truncar(f, tam)
      PROVE  Disco'
  <2>1. CASE NoEntraEnDisco(f, tam) \/ AumentarRechazado(f, tam)
    BY <1>1, <2>1 DEF NoEntraEnDisco, AumentarRechazado
  <2>2. CASE MismosBloques(f, tam)
    BY <2>2, MismosBloquesDisco
  <2>3. CASE DisminuirArchivo(f, tam)
    BY <2>3, DisminuirDisco
  <2>4. CASE AmpliarAlLado(f, tam)
    BY <2>4, AmpliarAlLadoDisco
  <2>5. CASE AmpliarMoviendo(f, tam)
    BY <2>5, AmpliarMoviendoDisco
  <2>6. CASE AmpliarCompactando(f, tam)
    BY <2>6, AmpliarCompactandoDisco
  <2>7. QED
    BY <1>7, <2>1, <2>2, <2>3, <2>4, <2>5, <2>6 DEF Truncar
<1>8. ASSUME NEW tam \in Tamanios, TruncarYCaer(f, tam)
      PROVE  Disco'
  <2>1. CASE DisminuirYCaer(f, tam) \/ MoverYCaer(f, tam)
    BY <2>1, VaciadaDania DEF DisminuirYCaer, MoverYCaer, CaerCon, Terminar, Sano, Danios
  <2>2. CASE CompactarYCaer(f, tam) \/ MismosYCaer(f, tam)
    BY <2>2, VaciadaDania DEF CompactarYCaer, MismosYCaer, Terminar, Sano, Danios
  <2>3. CASE AmpliarYCaer(f, tam)
    BY <2>3, AmpliarYCaerDisco
  <2>4. QED
    BY <1>8, <2>1, <2>2, <2>3 DEF TruncarYCaer
<1>9. ASSUME NEW ptr \in Punteros, NEW n \in Tamanios, LeerOEscribir(f, ptr, n)
      PROVE  Disco'
  <2>1. ptr \in Nat /\ n \in Nat
    BY ConstantesAssumption
  <2>2. ASSUME NEW d \in Datos, EscribirArchivo(f, ptr, n, d)
        PROVE  Disco'
    BY <2>1, <2>2, EscribirArchivoDisco
  <2>3. CASE EscribirFuera(f, ptr, n) \/ LeerArchivo(f, ptr, n)
    BY <1>1, <2>3 DEF EscribirFuera, LeerArchivo
  <2>4. CASE LeerFuera(f, ptr, n)
    BY <2>4, TerminarDisco DEF LeerFuera, Responder
  <2>5. QED
    BY <1>9, <2>2, <2>3, <2>4 DEF LeerOEscribir
<1>10. QED
  BY <1>2, <1>3, <1>4, <1>5, <1>6, <1>7, <1>8, <1>9 DEF Pedido

LEMMA DiscoPaso == DiscoInv /\ [Next]_vars => DiscoInv'
<1> SUFFICES ASSUME DiscoInv, [Next]_vars, Sano' PROVE Disco'
  BY DEF DiscoInv
<1>1. Disco
  BY DesviosCrecen DEF DiscoInv, Sano
<1>2. ASSUME activo, NEW f \in Nombres, Pedido(f)
      PROVE  Disco'
  BY <1>1, <1>2, PedidoDisco
<1>3. CASE Caer
  BY <1>1, <1>3, TerminarDisco DEF Caer, Responder
<1>4. CASE Iniciar
  BY <1>1, <1>4, IniciarDisco
<1>5. CASE UNCHANGED vars
  BY <1>1, <1>5 DEF vars, Disco, Hechos, TipoFs, EnCero, Catalogo, Existentes, Disjuntos, Marcados,
     Bloques, Cantidad, Vigente, Listados, Nombrado
<1>6. QED
  BY <1>2, <1>3, <1>4, <1>5 DEF Next

LEMMA DiscoBasta == DiscoInv => (Sano => DiscoCoherente)
<1> SUFFICES ASSUME Disco PROVE DiscoCoherente
  BY DEF DiscoInv
<1>1. PICK m, c \in Nat : m = MaxBit /\ c = BLOCK_COUNT /\ c <= m /\ Cola = m + c
  BY TamanioDelDisco, ConstantesAssumption
<1>2. fs.bits \subseteq 0 .. c - 1
  BY <1>1 DEF Disco, Hechos
<1>3. fs.bits \subseteq 0 .. Cola - 1
  BY <1>1, <1>2
<1>4. ASSUME NEW f \in Existentes
      PROVE  meta[f] \in [base : 0 .. MaxBit - 1, tam : Nat]
  <2>1. PICK b \in Nat, n \in Nat \ {0} : b = meta[f].base /\ n = Cantidad(f) /\ b + n <= c
    BY <1>1, FcbExiste, CabeEnDisco DEF Disco
  <2>2. b \in 0 .. MaxBit - 1
    BY <1>1, <2>1
  <2>3. meta[f] \in [base : Nat, tam : Nat]
    BY FcbExiste DEF Disco, Anotado
  <2>4. QED
    BY <2>1, <2>2, <2>3
<1>5. IsInjective(lista)
  <2>1. PICK s : s = lista
    OBVIOUS
  <2>2. s \in Seq(Nombres) /\ \A p \in Nombres : Ocurrencias(p, s) <= 1
    BY <2>1 DEF Disco, Vigente, Listados
  <2>3. IsInjective(s)
    BY <2>2, SinRepetir
  <2>4. QED
    BY <2>1, <2>3
<1>6. TypeOK
  <2>1. \A f \in Nombres : meta[f] \in {NADA, VACIO} \/ meta[f] \in [base : 0 .. MaxBit - 1, tam : Nat]
    BY <1>4 DEF Existentes
  <2>2. QED
    BY <1>3, <1>5, <2>1 DEF TypeOK, Disco, Hechos, TipoFs, Vigente, Listados, Nombrado
<1>7. Disjuntos /\ Marcados /\ LibresEnCero
  BY DEF Disco, Catalogo, Hechos, EnCero, LibresEnCero
<1>8. QED
  BY <1>6, <1>7 DEF DiscoCoherente

(* While no file has been damaged, no block belongs to two files, the      *)
(* blocks of every file are set in the bitmap, a clean block has nothing   *)
(* and no file is twice in the list: through creations, deletions, growths *)
(* in place, moves, compactions, refusals, restarts and programs that end  *)
(* with blocks taken for no file, whatever the disc, the files and sizes.  *)
THEOREM DiscoCoherenteSiempre == Spec => [](Sano => DiscoCoherente)
<1>1. Init => DiscoInv
  BY DiscoInicial DEF DiscoInv
<1>2. QED
  BY <1>1, DiscoPaso, DiscoBasta, PTL DEF Spec

-----------------------------------------------------------------------------
(* The byte i of the file g.                                               *)
Byte(g, i) == fs.disco[meta[g].base * BLOCK_SIZE + i]

(* The disc e has every byte that is some other file's.                    *)
Respeta(f, e) ==
  \A x \in Posiciones :
    x \div BLOCK_SIZE \in fs.bits /\ (f \in Existentes => x \div BLOCK_SIZE \notin Bloques(f))
      => e.disco[x] = fs.disco[x]

(* It has from block b on the first tam bytes of f, or as many as it had.  *)
Conserva(f, e, b, tam) ==
  \A i \in Nat : i < meta[f].tam /\ i < tam => e.disco[b * BLOCK_SIZE + i] = Byte(f, i)

-----------------------------------------------------------------------------
(* What each function on blocks does to the bytes.                         *)
LEMMA BytesTomados ==
  ASSUME NEW e, TipoFs(e), NEW b, NEW n
  PROVE  AllocateBlocks(e, b, n).disco = e.disco
BY DEF AllocateBlocks, TipoFs

LEMMA BytesSoltados ==
  ASSUME NEW e, TipoFs(e), NEW b, NEW n, NEW x \in Posiciones
  PROVE  DeallocateBlocks(e, b, n).disco[x] =
           IF x \div BLOCK_SIZE \in Tramo(b, n) THEN 0 ELSE e.disco[x]
<1>1. DOMAIN e.disco = Posiciones /\ DOMAIN e = {"bits", "libres", "disco"}
  BY DEF TipoFs
<1>2. DeallocateBlocks(e, b, n).disco =
        [y \in DOMAIN e.disco |-> IF y \div BLOCK_SIZE \in Tramo(b, n) THEN 0 ELSE e.disco[y]]
  BY <1>1 DEF DeallocateBlocks
<1>3. QED
  BY <1>1, <1>2

LEMMA BytesEscritos ==
  ASSUME NEW e, TipoFs(e), NEW dato, NEW byte, NEW x \in Posiciones
  PROVE  EscribirBloques(e, dato, byte).disco[x] =
           IF x - byte \in DOMAIN dato THEN dato[x - byte] ELSE e.disco[x]
<1>1. DOMAIN e.disco = Posiciones /\ DOMAIN e = {"bits", "libres", "disco"}
  BY DEF TipoFs
<1>2. EscribirBloques(e, dato, byte).disco =
        [y \in DOMAIN e.disco |-> IF y - byte \in DOMAIN dato THEN dato[y - byte] ELSE e.disco[y]]
  BY <1>1 DEF EscribirBloques
<1>3. QED
  BY <1>1, <1>2

(* Where the byte i of a file is.                                          *)
LEMMA BytePropio ==
  ASSUME Disco, NEW g \in Existentes, NEW i \in Nat, i < meta[g].tam,
         NEW x, x = meta[g].base * BLOCK_SIZE + i
  PROVE  /\ x \in Posiciones /\ x \in Nat /\ i < Cantidad(g) * BLOCK_SIZE
         /\ x \div BLOCK_SIZE \in Bloques(g) /\ x \div BLOCK_SIZE \in fs.bits
<1>1. PICK b, n, tam, d \in Nat :
        /\ b = meta[g].base /\ n = Cantidad(g) /\ tam = meta[g].tam /\ d = BLOCK_SIZE
        /\ Bloques(g) = Tramo(b, n) /\ Bloques(g) \subseteq fs.bits
  BY FcbExiste, ConstantesAssumption DEF Disco
<1>2. PICK u, v \in Nat : u = n * d /\ v = b * d
  OBVIOUS
<1>3. tam <= u
  <2>1. n = CalcularBloques(tam)
    BY <1>1 DEF Cantidad
  <2>2. QED
    BY <1>1, <1>2, <2>1, TamanioCabe
<1>4. i < Cantidad(g) * BLOCK_SIZE
  BY <1>1, <1>2, <1>3
<1>5. x \in Posiciones /\ x \in Nat
  <2>1. x \in Posiciones
    BY <1>4, ByteDeArchivo
  <2>2. QED
    BY <2>1 DEF Posiciones
<1>6. x \div BLOCK_SIZE \in Tramo(b, n)
  <2>1. x = b * BLOCK_SIZE + i /\ i < n * BLOCK_SIZE
    BY <1>1, <1>4
  <2>2. QED
    BY <1>5, <2>1, ByteEscrito
<1>7. QED
  BY <1>1, <1>4, <1>5, <1>6

-----------------------------------------------------------------------------
(* The contents of a file, before and after a step.                        *)
LEMMA ContenidoIgual ==
  ASSUME NEW g \in Nombres,
         meta[g] = NADA \/ meta[g] \in [base : Nat, tam : Nat],
         meta'[g] = NADA \/ meta'[g] \in [base : Nat, tam : Nat],
         meta'[g] = NADA <=> meta[g] = NADA,
         meta[g] # NADA =>
           /\ meta'[g].tam = meta[g].tam
           /\ \A i \in Nat : i < meta[g].tam => Byte(g, i)' = Byte(g, i)
  PROVE  Contenidos'[g] = Contenidos[g]
<1>1. CASE meta[g] = NADA
  BY <1>1 DEF Contenidos, Existentes
<1>2. CASE meta[g] # NADA
  <2> g \in Existentes /\ g \in Existentes'
    BY <1>2, ConstantesAssumption DEF Existentes
  <2>1. PICK b, c, t \in Nat :
          b = meta[g].base /\ c = meta'[g].base /\ t = meta[g].tam /\ t = meta'[g].tam
    BY <1>2
  <2>2. PICK u, v \in Nat : u = b * BLOCK_SIZE /\ v = c * BLOCK_SIZE
    BY ConstantesAssumption
  <2>3. Contenidos[g] = [j \in 1 .. t |-> fs.disco[u + j - 1]]
    BY <1>2, <2>1, <2>2 DEF Contenidos
  <2>4. Contenidos'[g] = [j \in 1 .. t |-> fs'.disco[v + j - 1]]
    BY <1>2, <2>1, <2>2 DEF Contenidos
  <2>5. ASSUME NEW j \in 1 .. t
        PROVE  fs'.disco[v + j - 1] = fs.disco[u + j - 1]
    <3>1. PICK i \in Nat : i = j - 1 /\ i < t /\ v + j - 1 = v + i /\ u + j - 1 = u + i
      OBVIOUS
    <3>2. Byte(g, i)' = Byte(g, i)
      BY <1>2, <2>1, <3>1
    <3>3. fs'.disco[v + i] = fs.disco[u + i]
      BY <2>1, <2>2, <3>2 DEF Byte
    <3>4. QED
      BY <3>1, <3>3
  <2>6. QED
    BY <2>3, <2>4, <2>5
<1>3. QED
  BY <1>1, <1>2

(* A file that exists has as many bytes as its size.                       *)
EsTexto(g) ==
  /\ Contenidos[g] \in Seq(Bytes) /\ Contenidos[g] # NADA
  /\ Len(Contenidos[g]) = meta[g].tam
  /\ \A i \in Nat : i < meta[g].tam => Contenidos[g][i + 1] = Byte(g, i)

LEMMA ContenidoTexto ==
  ASSUME NEW g \in Nombres
  PROVE  Disco /\ meta[g] # NADA => EsTexto(g)
<1> SUFFICES ASSUME Disco, meta[g] # NADA PROVE EsTexto(g)
  OBVIOUS
<1>1. g \in Existentes
  BY ConstantesAssumption DEF Existentes, Disco, Catalogo
<1>2. PICK b, t, u \in Nat : b = meta[g].base /\ t = meta[g].tam /\ u = b * BLOCK_SIZE
  BY <1>1, FcbExiste, ConstantesAssumption DEF Disco
<1>3. PICK s : s = Contenidos[g] /\ s = [j \in 1 .. t |-> fs.disco[u + j - 1]]
  BY <1>1, <1>2 DEF Contenidos
<1>4. ASSUME NEW i \in Nat, i < t
      PROVE  i + 1 \in 1 .. t /\ s[i + 1] = fs.disco[u + i] /\ s[i + 1] \in Bytes
  <2>1. PICK j \in 1 .. t : j = i + 1 /\ u + j - 1 = u + i
    BY <1>4
  <2>2. s[j] = fs.disco[u + i]
    BY <1>3, <2>1
  <2>3. i < Cantidad(g) * BLOCK_SIZE
    BY <1>1, <1>2, <1>4, BytePropio
  <2>4. fs.disco[u + i] \in Bytes
    BY <1>1, <1>2, <2>3, ByteDeArchivo
  <2>5. QED
    BY <2>1, <2>2, <2>4
<1>5. \A j \in 1 .. t : s[j] \in Bytes
  <2>1. TAKE j \in 1 .. t
  <2>2. PICK i \in Nat : i = j - 1 /\ i < t /\ j = i + 1
    OBVIOUS
  <2>3. QED
    BY <1>4, <2>2
<1>6. s \in Seq(Bytes) /\ Len(s) = t
  BY <1>3, <1>5
<1>7. \A i \in Nat : i < t => s[i + 1] = Byte(g, i)
  BY <1>2, <1>4 DEF Byte
<1>8. QED
  BY <1>2, <1>3, <1>6, <1>7, SinArchivoAssumption DEF EsTexto

LEMMA ContenidoTextoLuego ==
  ASSUME NEW g \in Nombres
  PROVE  (Disco /\ meta[g] # NADA => EsTexto(g))'
<1>1. Disco /\ meta[g] # NADA => EsTexto(g)
  BY ContenidoTexto
<1>2. QED
  BY <1>1, PTL

(* A step that changes the metadata of f at most, and no byte of another.  *)
LEMMA OtrosIguales ==
  ASSUME Disco, NEW f \in Nombres, Respeta(f, fs'),
         \A g \in Nombres \ {f} : meta'[g] = meta[g]
  PROVE  \A g \in Nombres \ {f} : Contenidos'[g] = Contenidos[g]
<1>1. TAKE g \in Nombres \ {f}
<1>2. meta'[g] = meta[g] /\ (meta[g] = NADA \/ meta[g] \in [base : Nat, tam : Nat])
  BY DEF Disco, Catalogo
<1>3. ASSUME meta[g] # NADA, NEW i \in Nat, i < meta[g].tam
      PROVE  Byte(g, i)' = Byte(g, i)
  <2>1. g \in Existentes
    BY <1>2, <1>3, ConstantesAssumption DEF Existentes
  <2>2. PICK x : x = meta[g].base * BLOCK_SIZE + i
    OBVIOUS
  <2>3. x \in Posiciones /\ x \div BLOCK_SIZE \in Bloques(g) /\ x \div BLOCK_SIZE \in fs.bits
    BY <1>3, <2>1, <2>2, BytePropio
  <2>4. f \in Existentes => Bloques(g) \cap Bloques(f) = {}
    BY <2>1, FcbExiste DEF Disco
  <2>5. fs'.disco[x] = fs.disco[x]
    BY <2>3, <2>4 DEF Respeta
  <2>6. QED
    BY <1>2, <2>2, <2>5 DEF Byte
<1>4. QED
  BY <1>2, <1>3, ContenidoIgual

(* The discs that each action leaves.                                      *)
LEMMA MismosBytes ==
  ASSUME Disco, NEW f \in Nombres, NEW e, e.disco = fs.disco, NEW tam
  PROVE  Respeta(f, e) /\ Conserva(f, e, meta[f].base, tam)
BY DEF Respeta, Conserva, Byte

LEMMA SoltadoBytes ==
  ASSUME Disco, NEW f \in Existentes, NEW b \in Nat, NEW n \in Nat,
         Tramo(b, n) \subseteq Bloques(f)
  PROVE  Respeta(f, DeallocateBlocks(fs, b, n))
<1>1. TipoFs(fs)
  BY DEF Disco, Hechos
<1>2. QED
  BY <1>1, BytesSoltados DEF Respeta

LEMMA BorradoBytes ==
  ASSUME Disco, NEW f \in Existentes, NEW k \in Nat, k <= Cantidad(f)
  PROVE  Respeta(f, SinPrimeros(f, k))
<1>1. PICK b, n \in Nat : b = meta[f].base /\ n = Cantidad(f) /\ Bloques(f) = Tramo(b, n)
  BY FcbExiste DEF Disco
<1>2. Tramo(b, k) \subseteq Bloques(f)
  BY <1>1 DEF Tramo
<1>3. Respeta(f, DeallocateBlocks(fs, b, k))
  BY <1>1, <1>2, SoltadoBytes
<1>4. QED
  BY <1>1, <1>3 DEF SinPrimeros

LEMMA DisminuidoBytes ==
  ASSUME Disco, NEW f \in Existentes, NEW tam \in Nat, Nuevos(tam) < Cantidad(f),
         meta[f].base = 0
  PROVE  /\ \A h \in 1 .. Sobran(f, tam) : Respeta(f, SinUltimos(tam, h))
         /\ Respeta(f, SinUltimos(tam, Sobran(f, tam)))
         /\ Conserva(f, SinUltimos(tam, Sobran(f, tam)), meta[f].base, tam)
<1>1. PICK n, k, z \in Nat : /\ n = Cantidad(f) /\ Bloques(f) = Tramo(z, n) /\ z = 0
                             /\ k = Nuevos(tam)
  BY FcbExiste, BloquesDeArchivo DEF Disco, Nuevos
<1>2. PICK j \in Nat : j = n - k /\ k + j = n
  BY <1>1
<1>3. Tramo(k, j) \subseteq Bloques(f)
  <2>1. Tramo(k, j) \subseteq Tramo(z, n)
    <3>1. z = 0 /\ k + j = n
      BY <1>1, <1>2
    <3>2. QED
      BY <3>1 DEF Tramo
  <2>2. QED
    BY <1>1, <2>1
<1>4. Sobran(f, tam) = j /\ \A h : SinUltimos(tam, h) = DeallocateBlocks(fs, k, h)
  BY <1>1, <1>2 DEF SinUltimos, Sobran
<1>5. ASSUME NEW h \in Nat, h <= j
      PROVE  Respeta(f, SinUltimos(tam, h))
  <2>1. Tramo(k, h) \subseteq Tramo(k, j)
    BY <1>5 DEF Tramo
  <2>2. QED
    BY <1>3, <1>4, <2>1, SoltadoBytes
<1>6. ASSUME NEW i \in Nat, i < meta[f].tam, i < tam
      PROVE  SinUltimos(tam, j).disco[meta[f].base * BLOCK_SIZE + i] = Byte(f, i)
  <2>1. PICK x : x = meta[f].base * BLOCK_SIZE + i
    OBVIOUS
  <2>2. x \in Posiciones /\ x \in Nat
    BY <1>6, <2>1, BytePropio
  <2>3. i < k * BLOCK_SIZE
    <3>1. PICK u \in Nat : u = k * BLOCK_SIZE
      BY ConstantesAssumption
    <3>2. k = CalcularBloques(tam)
      BY <1>1 DEF Nuevos
    <3>3. tam <= u
      BY <3>1, <3>2, TamanioCabe
    <3>4. QED
      BY <1>6, <3>1, <3>3
  <2>4. x = z * BLOCK_SIZE + i
    BY <1>1, <2>1
  <2>5. x \div BLOCK_SIZE \in Tramo(z, k)
    BY <2>2, <2>3, <2>4, ByteEscrito
  <2>6. Tramo(z, k) \cap Tramo(k, j) = {}
    BY <1>1 DEF Tramo
  <2>7. DeallocateBlocks(fs, k, j).disco[x] = fs.disco[x]
    BY <2>2, <2>5, <2>6, BytesSoltados DEF Disco, Hechos
  <2>8. QED
    BY <1>4, <2>1, <2>7 DEF Byte
<1>7. QED
  <2>1. Conserva(f, SinUltimos(tam, j), meta[f].base, tam)
    BY <1>6 DEF Conserva
  <2>2. \A h \in 1 .. j : h \in Nat /\ h <= j
    OBVIOUS
  <2>3. QED
    BY <1>4, <1>5, <2>1, <2>2

LEMMA AmpliadoBytes ==
  ASSUME Disco, NEW f \in Nombres, NEW tam
  PROVE  /\ Ampliado(f, tam).disco = fs.disco
         /\ \A k : ConOtros(f, k).disco = fs.disco
BY BytesTomados DEF Disco, Hechos, Ampliado, ConOtros

LEMMA MovidoBytes ==
  ASSUME Disco, NEW f \in Nombres, NEW tam \in Tamanios, Crece(f, tam),
         EspacioDisp(Nuevos(tam)), NEW e, e = Movido(f, tam), NEW c, c = Min(Huecos(Nuevos(tam)))
  PROVE  Respeta(f, e) /\ Conserva(f, e, c, tam) /\ Copiado(f, tam).disco = e.disco
<1>1. f \in Existentes
  BY CreceDa
<1>2. PICK b \in Nat, n, k \in Nat \ {0} :
        /\ b = meta[f].base /\ n = Cantidad(f) /\ k = Agregados(f, tam)
        /\ Nuevos(tam) = n + k /\ Bloques(f) = Tramo(b, n)
  BY CreceDa
<1>3. PICK m, d, N \in Nat : m = n + k /\ m = Nuevos(tam) /\ d = BLOCK_SIZE /\ N = n
  BY <1>2, ConstantesAssumption
<1>4. c \in Nat /\ Tramo(c, m) \cap fs.bits = {}
  BY <1>3, HuecoDa
<1>5. PICK p, q, r \in Nat : p = c * d /\ q = N * d /\ r = b * d
  BY <1>4
<1>6. PICK s, t, u, w, copia, j :
        /\ s = fs /\ t = AllocateBlocks(s, c, m) /\ u = DeallocateBlocks(t, b, N)
        /\ copia = LeerBloques(r, q)
        /\ w = EscribirBloques(u, copia, p) /\ j = c + N
  OBVIOUS
<1>7. e = AllocateBlocks(w, j, k)
  BY <1>2, <1>3, <1>5, <1>6 DEF Movido, Copiado, Soltado, Tomado, Hueco
<1>8. copia = [i \in 0 .. q - 1 |-> fs.disco[r + i]]
  BY <1>6 DEF LeerBloques
<1>9. TipoFs(s) /\ s.bits \in SUBSET Nat
  BY <1>6 DEF Disco, Hechos, TipoFs
<1>10. TipoFs(t) /\ t.disco = fs.disco
  <2>1. PICK B : Entero(s, B)
    BY <1>6, DiscoEntero
  <2>2. Entero(AllocateBlocks(s, c, m), B \cup Tramo(c, m))
    BY <1>4, <2>1, AllocateBlocksDa
  <2>3. QED
    BY <1>6, <1>9, <2>2, BytesTomados DEF Entero
<1>11. TipoFs(u)
  <2>1. DOMAIN t = {"bits", "libres", "disco"} /\ DOMAIN t.disco = Posiciones
    BY <1>10 DEF TipoFs
  <2>2. /\ DOMAIN u = {"bits", "libres", "disco"} /\ u.bits = t.bits \ Tramo(b, N)
        /\ u.libres = t.libres + N
        /\ u.disco = [x \in Posiciones |-> IF x \div BLOCK_SIZE \in Tramo(b, N) THEN 0 ELSE t.disco[x]]
    BY <1>6, <2>1 DEF DeallocateBlocks
  <2>3. \A x \in Posiciones : t.disco[x] \in Bytes
    BY <1>10 DEF TipoFs
  <2>4. u.disco \in [Posiciones -> Bytes]
    BY <2>2, <2>3 DEF Bytes
  <2>5. QED
    BY <1>10, <2>2, <2>4 DEF TipoFs
<1>12. \A x \in Posiciones : u.disco[x] =
         IF x \div BLOCK_SIZE \in Tramo(b, N) THEN 0 ELSE fs.disco[x]
  BY <1>6, <1>10, BytesSoltados
<1>13. \A x \in Posiciones : w.disco[x] =
         IF x - p \in DOMAIN copia THEN copia[x - p] ELSE u.disco[x]
  BY <1>6, <1>11, BytesEscritos
<1>14. e.disco = w.disco
  <2>1. DOMAIN u = {"bits", "libres", "disco"}
    BY <1>11 DEF TipoFs
  <2>2. DOMAIN w = {"bits", "libres", "disco"}
    BY <1>6, <2>1 DEF EscribirBloques
  <2>3. QED
    BY <1>7, <2>2 DEF AllocateBlocks
<1>15. Respeta(f, e)
  <2> SUFFICES ASSUME NEW x \in Posiciones, x \div BLOCK_SIZE \in fs.bits,
                      x \div BLOCK_SIZE \notin Bloques(f)
               PROVE  e.disco[x] = fs.disco[x]
    BY <1>1 DEF Respeta
  <2>1. x \in Nat
    BY DEF Posiciones
  <2>2. ASSUME x - p \in DOMAIN copia
        PROVE  FALSE
    <3>1. PICK i \in Nat : i = x - p /\ i < q
      BY <1>8, <2>1, <2>2
    <3>2. x = c * BLOCK_SIZE + i /\ i < N * BLOCK_SIZE
      BY <1>3, <1>5, <2>1, <3>1
    <3>3. x \div BLOCK_SIZE \in Tramo(c, N)
      BY <1>4, <2>1, <3>2, ByteEscrito
    <3>4. Tramo(c, N) \subseteq Tramo(c, m)
      BY <1>3, <1>4 DEF Tramo
    <3>5. QED
      BY <1>4, <3>3, <3>4
  <2>3. QED
    BY <1>2, <1>3, <1>12, <1>13, <1>14, <2>2
<1>16. Conserva(f, e, c, tam)
  <2> SUFFICES ASSUME NEW i \in Nat, i < meta[f].tam
               PROVE  e.disco[c * BLOCK_SIZE + i] = Byte(f, i)
    BY DEF Conserva
  <2>1. PICK y : y = meta[f].base * BLOCK_SIZE + i
    OBVIOUS
  <2>2. y \in Posiciones /\ i < Cantidad(f) * BLOCK_SIZE /\ y = r + i
    BY <1>1, <1>2, <1>3, <1>5, <2>1, BytePropio
  <2>3. i < q /\ i \in 0 .. q - 1
    BY <1>2, <1>3, <1>5, <2>2
  <2>4. PICK x \in Nat : x = p + i /\ x - p = i
    OBVIOUS
  <2>5. x \in Posiciones
    <3>1. c + m <= BLOCK_COUNT
      BY <1>3, HuecoDa
    <3>2. PICK h \in Nat : h = c + N
      BY <1>4
    <3>3. h <= BLOCK_COUNT
      BY <1>3, <1>4, <3>1, <3>2, ConstantesAssumption
    <3>4. h * d = p + q
      BY <1>4, <1>5, <3>2
    <3>5. x < h * BLOCK_SIZE
      BY <1>3, <1>5, <2>3, <2>4, <3>4
    <3>6. QED
      BY <3>3, <3>5, ByteDelDisco
  <2>6. w.disco[x] = copia[i]
    BY <1>8, <1>13, <2>3, <2>4, <2>5
  <2>7. copia[i] = fs.disco[y]
    BY <1>8, <2>2, <2>3
  <2>8. QED
    BY <1>3, <1>5, <1>14, <2>1, <2>4, <2>6, <2>7 DEF Byte
<1>17. Copiado(f, tam) = w
  BY <1>2, <1>3, <1>5, <1>6 DEF Copiado, Soltado, Tomado, Hueco
<1>18. QED
  BY <1>14, <1>15, <1>16, <1>17

LEMMA EtapasBytes ==
  ASSUME Disco, NEW f \in Nombres, NEW tam \in Tamanios, Crece(f, tam),
         EspacioDisp(Nuevos(tam)), NEW e \in EtapasDeMover(f, tam)
  PROVE  Respeta(f, e)
<1>1. f \in Existentes
  BY CreceDa
<1>2. PICK b \in Nat, n, k \in Nat \ {0} :
        /\ b = meta[f].base /\ n = Cantidad(f) /\ k = Agregados(f, tam)
        /\ Nuevos(tam) = n + k /\ Bloques(f) = Tramo(b, n)
  BY CreceDa
<1>3. PICK m, c : m = n + k /\ m \in Nat /\ m = Nuevos(tam) /\ c = Hueco(tam) /\ c \in Nat
  BY <1>2, HuecoDa DEF Hueco
<1>4. ASSUME NEW h \in Nat
      PROVE  TipoFs(Tomado(tam, h)) /\ Tomado(tam, h).disco = fs.disco
  <2>1. PICK B : Entero(fs, B) /\ TipoFs(fs)
    BY DiscoEntero DEF Disco, Hechos
  <2>2. Entero(AllocateBlocks(fs, c, h), B \cup Tramo(c, h))
    BY <1>3, <2>1, AllocateBlocksDa
  <2>3. AllocateBlocks(fs, c, h).disco = fs.disco
    BY <2>1, BytesTomados
  <2>4. QED
    BY <1>3, <2>2, <2>3 DEF Tomado, Entero
<1>5. CASE \E h \in 1 .. Nuevos(tam) : e = Tomado(tam, h)
  <2>1. PICK h \in 1 .. m : e = Tomado(tam, h)
    BY <1>3, <1>5
  <2>2. h \in Nat
    BY <1>3
  <2>3. QED
    BY <1>4, <2>1, <2>2, MismosBytes
<1>6. CASE \E h \in 1 .. Cantidad(f) : e = Soltado(f, tam, h)
  <2>1. PICK h \in 1 .. n : e = Soltado(f, tam, h)
    BY <1>2, <1>6
  <2>2. h \in Nat /\ h <= n
    BY <1>2
  <2>3. PICK t : t = Tomado(tam, m) /\ TipoFs(t) /\ t.disco = fs.disco
    BY <1>3, <1>4
  <2>4. e = DeallocateBlocks(t, b, h)
    BY <1>2, <1>3, <2>1, <2>3 DEF Soltado
  <2>5. Tramo(b, h) \subseteq Bloques(f)
    BY <1>2, <2>2 DEF Tramo
  <2>6. QED
    BY <1>1, <2>3, <2>4, <2>5, BytesSoltados DEF Respeta
<1>7. CASE e = Copiado(f, tam) \/ e = Movido(f, tam)
  <2>1. PICK z, y : z = Movido(f, tam) /\ y = Min(Huecos(Nuevos(tam)))
    OBVIOUS
  <2>2. Respeta(f, z) /\ Copiado(f, tam).disco = z.disco
    BY <2>1, MovidoBytes
  <2>3. QED
    BY <1>7, <2>1, <2>2 DEF Respeta
<1>8. QED
  BY <1>5, <1>6, <1>7 DEF EtapasDeMover

(* The buffer has the bytes of each file where it moves to: no other file  *)
(* moves there.                                                            *)
LEMMA BufferDe ==
  ASSUME Disco, NEW f \in ToSet(lista), NEW g \in Existentes \ {f},
         NEW i \in Nat, i < meta[g].tam, NEW x \in DOMAIN BufferGeneral(f),
         x = NuevaBase(f, g) * BLOCK_SIZE + i
  PROVE  BufferGeneral(f)[x] = Byte(g, i)
<1> DEFINE De(y, h) == y - NuevaBase(f, h) * BLOCK_SIZE
           T == {h \in ToSet(Otros(f)) : De(x, h) \in 0 .. meta[h].tam - 1}
           h0 == CHOOSE h \in T : TRUE
<1>1. ToSet(Otros(f)) = Existentes \ {f}
  BY OtrosDa
<1>2. BufferGeneral(f)[x] =
        IF T = {} THEN 0 ELSE fs.disco[meta[h0].base * BLOCK_SIZE + De(x, h0)]
  BY DEF BufferGeneral
<1>3. ASSUME NEW h \in Existentes \ {f}
      PROVE  /\ NuevaBase(f, h) \in Nat /\ Cantidad(h) \in Nat /\ meta[h].tam \in Nat
             /\ NuevaBase(f, h) * BLOCK_SIZE \in Nat
             /\ meta[h].tam <= Cantidad(h) * BLOCK_SIZE
  <2>1. NuevaBase(f, h) \in Nat /\ Cantidad(h) \in Nat /\ meta[h].tam \in Nat
    BY BasesCompactas, FcbExiste DEF Disco
  <2>2. meta[h].tam <= Cantidad(h) * BLOCK_SIZE
    BY <2>1, TamanioCabe DEF Cantidad
  <2>3. QED
    BY <2>1, <2>2, ConstantesAssumption
<1>4. x \in Nat /\ De(x, g) = i
  <2>1. PICK u \in Nat : u = NuevaBase(f, g) * BLOCK_SIZE
    BY <1>3
  <2>2. QED
    BY <2>1
<1>5. g \in T
  <2>1. PICK t \in Nat : t = meta[g].tam
    BY <1>3
  <2>2. i \in 0 .. t - 1
    BY <2>1
  <2>3. QED
    BY <1>1, <1>4, <2>1, <2>2
<1>6. ASSUME NEW h \in Existentes \ {f}, De(x, h) \in 0 .. meta[h].tam - 1
      PROVE  x \div BLOCK_SIZE \in Tramo(NuevaBase(f, h), Cantidad(h))
  <2>1. PICK b, n, t, u, v \in Nat :
          /\ b = NuevaBase(f, h) /\ n = Cantidad(h) /\ t = meta[h].tam
          /\ u = b * BLOCK_SIZE /\ v = n * BLOCK_SIZE /\ t <= v
    <3>1. Cantidad(h) * BLOCK_SIZE \in Nat
      BY <1>3, ConstantesAssumption
    <3>2. QED
      BY <1>3, <3>1
  <2>2. PICK j \in Nat : j = x - u /\ j < t
    BY <1>4, <1>6, <2>1
  <2>3. x = b * BLOCK_SIZE + j /\ j < n * BLOCK_SIZE
    BY <1>4, <2>1, <2>2
  <2>4. QED
    BY <1>4, <2>1, <2>3, ByteEscrito
<1>7. ASSUME NEW h \in T
      PROVE  h = g
  <2>1. h \in Existentes \ {f} /\ De(x, h) \in 0 .. meta[h].tam - 1
    BY <1>1
  <2>2. g \in Existentes \ {f} /\ De(x, g) \in 0 .. meta[g].tam - 1
    BY <1>1, <1>5
  <2>3. /\ x \div BLOCK_SIZE \in Tramo(NuevaBase(f, h), Cantidad(h))
        /\ x \div BLOCK_SIZE \in Tramo(NuevaBase(f, g), Cantidad(g))
    BY <1>6, <2>1, <2>2
  <2>4. PICK a, k, b, j \in Nat : /\ a = NuevaBase(f, h) /\ k = Cantidad(h)
                                  /\ b = NuevaBase(f, g) /\ j = Cantidad(g)
    BY <1>3, <2>1
  <2>5. h # g => a + k <= b \/ b + j <= a
    BY <2>1, <2>4, BasesCompactas
  <2>6. h # g => Tramo(a, k) \cap Tramo(b, j) = {}
    BY <2>5, TramosAparte
  <2>7. QED
    BY <2>3, <2>4, <2>6
<1>8. T # {} /\ h0 = g
  <2>1. h0 \in T
    BY <1>5 DEF h0
  <2>2. QED
    BY <1>5, <1>7, <2>1
<1>9. QED
  BY <1>2, <1>4, <1>8 DEF Byte

LEMMA CompactadoBytes ==
  ASSUME Disco, NEW f \in ToSet(lista), NEW e, e = Compactado(f), e.libres # 0,
         Offset(f) + Cantidad(f) <= BLOCK_COUNT
  PROVE  /\ \A g \in Existentes \ {f} : \A i \in Nat : i < meta[g].tam =>
              e.disco[NuevaBase(f, g) * BLOCK_SIZE + i] = Byte(g, i)
         /\ \A i \in Nat : i < meta[f].tam => e.disco[Offset(f) * BLOCK_SIZE + i] = Byte(f, i)
<1>1. f \in Existentes
  BY DeLaLista
<1>2. PICK z, o, n, d, B, M, tam, a, r, p, L \in Nat :
        /\ z = 0 /\ o = Offset(f) /\ n = Cantidad(f) /\ d = BLOCK_SIZE /\ B = BLOCK_COUNT
        /\ M = o + n /\ tam = meta[f].tam /\ a = meta[f].base /\ r = a * d /\ p = o * d
        /\ L = B * d
  <2>1. Offset(f) \in Nat /\ Cantidad(f) \in Nat /\ meta[f].tam \in Nat /\ meta[f].base \in Nat
    BY <1>1, BasesCompactas, FcbExiste DEF Disco
  <2>2. PICK o, n, tam, a, d, B \in Nat :
          /\ o = Offset(f) /\ n = Cantidad(f) /\ tam = meta[f].tam /\ a = meta[f].base
          /\ d = BLOCK_SIZE /\ B = BLOCK_COUNT
    BY <2>1, ConstantesAssumption
  <2>3. PICK M, r, p, L \in Nat : M = o + n /\ r = a * d /\ p = o * d /\ L = B * d
    OBVIOUS
  <2>4. QED
    BY <2>2, <2>3
<1>3. PICK s, limpio, t, g0, w, copia :
        /\ s = fs /\ limpio = DeallocateBlocks(s, z, B) /\ t = AllocateBlocks(limpio, z, M)
        /\ g0 = BufferGeneral(f) /\ w = EscribirBloques(t, g0, z)
        /\ copia = LeerBloques(r, tam)
  OBVIOUS
<1>4. e = EscribirBloques(w, copia, p)
  <2>1. e = IF limpio.libres = 0 THEN limpio ELSE EscribirBloques(w, copia, p)
    BY <1>2, <1>3 DEF Compactado, Limpio
  <2>2. QED
    BY <2>1
<1>5. copia = [i \in 0 .. tam - 1 |-> fs.disco[r + i]]
  BY <1>3 DEF LeerBloques
<1>6. DOMAIN t = {"bits", "libres", "disco"} /\ DOMAIN t.disco = Posiciones
  BY <1>3 DEF Disco, Hechos, TipoFs, DeallocateBlocks, AllocateBlocks
<1>7. w = [t EXCEPT !.disco = [x \in DOMAIN @ |-> IF x - z \in DOMAIN g0 THEN g0[x - z] ELSE @[x]]]
  BY <1>3 DEF EscribirBloques
<1>8. /\ DOMAIN w = {"bits", "libres", "disco"} /\ DOMAIN w.disco = Posiciones
      /\ \A x \in Posiciones : w.disco[x] = IF x - z \in DOMAIN g0 THEN g0[x - z] ELSE t.disco[x]
  BY <1>6, <1>7
<1>9. \A x \in Posiciones : e.disco[x] = IF x - p \in DOMAIN copia THEN copia[x - p] ELSE w.disco[x]
  <2>1. e = [w EXCEPT !.disco =
              [x \in DOMAIN @ |-> IF x - p \in DOMAIN copia THEN copia[x - p] ELSE @[x]]]
    BY <1>4 DEF EscribirBloques
  <2>2. QED
    BY <1>8, <2>1
<1>10. tam <= n * d /\ M * d = p + n * d /\ M * d <= L /\ n * d \in Nat
  <2>1. tam <= n * d
    BY <1>2, TamanioCabe DEF Cantidad
  <2>2. M * d <= L
    BY <1>2, Producto
  <2>3. QED
    BY <1>2, <2>1, <2>2
<1>11. PICK v \in Nat : v = n * d /\ tam <= v /\ p + v <= L /\ M * d = p + v
  BY <1>10
<1>12. ASSUME NEW g \in Existentes \ {f}, NEW i \in Nat, i < meta[g].tam
       PROVE  e.disco[NuevaBase(f, g) * BLOCK_SIZE + i] = Byte(g, i)
  <2>1. PICK b, k, u, y \in Nat : /\ b = NuevaBase(f, g) /\ k = Cantidad(g) /\ b + k <= o
                                  /\ u = b * d /\ y = k * d
    <3>1. PICK b, k \in Nat : b = NuevaBase(f, g) /\ k = Cantidad(g) /\ b + k <= o
      BY <1>2, BasesCompactas, FcbExiste DEF Disco
    <3>2. b * d \in Nat /\ k * d \in Nat
      OBVIOUS
    <3>3. QED
      BY <3>1, <3>2
  <2>2. PICK x \in Nat : x = u + i
    OBVIOUS
  <2>3. i < y
    BY <1>2, <1>12, <2>1, BytePropio
  <2>4. x < p
    <3>1. PICK h \in Nat : h = b + k
      OBVIOUS
    <3>2. h * d <= o * d
      BY <2>1, <3>1, Producto
    <3>3. h * d = u + y
      BY <2>1, <3>1
    <3>4. QED
      BY <1>2, <2>2, <2>3, <3>2, <3>3
  <2>5. x \in Posiciones
    <3>1. o <= BLOCK_COUNT
      BY <1>2
    <3>2. QED
      BY <1>2, <2>4, <3>1, ByteDelDisco
  <2>6. x - z = x /\ x \in DOMAIN g0
    <3>1. DOMAIN g0 = 0 .. BLOCK_SIZE * BLOCK_COUNT - meta[f].tam - 1
      BY <1>3 DEF BufferGeneral
    <3>2. BLOCK_SIZE * BLOCK_COUNT = L
      BY <1>2
    <3>3. DOMAIN g0 = 0 .. L - tam - 1
      BY <1>2, <3>1, <3>2
    <3>4. x <= L - tam - 1
      BY <1>11, <2>4
    <3>5. QED
      BY <1>2, <3>3, <3>4
  <2>7. x - p \notin DOMAIN copia
    BY <1>5, <2>4
  <2>8. g0[x] = Byte(g, i)
    <3>1. x = NuevaBase(f, g) * BLOCK_SIZE + i
      BY <1>2, <2>1, <2>2
    <3>2. x \in DOMAIN BufferGeneral(f)
      BY <1>3, <2>6
    <3>3. BufferGeneral(f)[x] = Byte(g, i)
      BY <1>12, <3>1, <3>2, BufferDe
    <3>4. QED
      BY <1>3, <3>3
  <2>9. e.disco[x] = g0[x]
    BY <1>8, <1>9, <2>5, <2>6, <2>7
  <2>10. QED
    BY <1>2, <2>1, <2>2, <2>8, <2>9
<1>13. ASSUME NEW i \in Nat, i < meta[f].tam
       PROVE  e.disco[Offset(f) * BLOCK_SIZE + i] = Byte(f, i)
  <2>1. PICK x \in Nat : x = p + i /\ x - p = i
    OBVIOUS
  <2>2. x < M * BLOCK_SIZE
    BY <1>2, <1>11, <1>13, <2>1
  <2>3. x \in Posiciones
    BY <1>2, <2>2, ByteDelDisco
  <2>4. i \in 0 .. tam - 1
    BY <1>2, <1>13
  <2>5. e.disco[x] = fs.disco[r + i]
    BY <1>5, <1>9, <2>1, <2>3, <2>4
  <2>6. QED
    BY <1>2, <2>1, <2>5 DEF Byte
<1>14. QED
  BY <1>12, <1>13

-----------------------------------------------------------------------------
(* The steps as the promise sees them.                                     *)
LEMMA TodoIgual ==
  ASSUME \A g \in Nombres : Contenidos'[g] = Contenidos[g]
  PROVE  Contenidos' = Contenidos
BY DEF Contenidos

LEMMA UnoCambia ==
  ASSUME NEW f \in Nombres, \A g \in Nombres \ {f} : Contenidos'[g] = Contenidos[g]
  PROVE  Contenidos' = [Contenidos EXCEPT ![f] = Contenidos'[f]]
<1>1. PICK c, d : c = Contenidos /\ d = Contenidos'
  OBVIOUS
<1>2. c = [g \in Nombres |-> c[g]] /\ d = [g \in Nombres |-> d[g]]
  BY <1>1 DEF Contenidos
<1>3. d = [c EXCEPT ![f] = d[f]]
  BY <1>1, <1>2
<1>4. QED
  BY <1>1, <1>3

(* The file f ends with tam bytes at block b, and what it had of them.     *)
LEMMA CambiaTamanio ==
  ASSUME Disco, Disco', NEW f \in Existentes, NEW b \in Nat, NEW tam \in Nat,
         meta'[f] = [base |-> b, tam |-> tam], Conserva(f, fs', b, tam),
         \A g \in Nombres \ {f} : Contenidos'[g] = Contenidos[g]
  PROVE  Promesa!Truncar(f)
<1>1. f \in Nombres /\ meta[f] # NADA /\ meta'[f] # NADA /\ meta[f].tam \in Nat
  <2>1. [base |-> b, tam |-> tam] # NADA
    BY ConstantesAssumption
  <2>2. QED
    BY <2>1, FcbExiste DEF Disco, Existentes
<1>2. EsTexto(f) /\ EsTexto(f)'
  BY <1>1, ContenidoTexto, ContenidoTextoLuego
<1>3. PICK p, q \in Seq(Bytes) :
        /\ p = Contenidos[f] /\ q = Contenidos'[f] /\ p # NADA /\ q # NADA
        /\ Len(p) = meta[f].tam /\ Len(q) = tam
        /\ \A i \in Nat : i < meta[f].tam => p[i + 1] = Byte(f, i)
        /\ \A i \in Nat : i < tam => q[i + 1] = Byte(f, i)'
  BY <1>2 DEF EsTexto
<1>4. PICK n \in Nat : n = Promesa!Menor(Len(p), Len(q)) /\ n <= meta[f].tam /\ n <= tam
  BY <1>1, <1>3 DEF Promesa!Menor
<1>5. ASSUME NEW j \in 1 .. n
      PROVE  p[j] = q[j] /\ p[j] \in Bytes
  <2>1. PICK i \in Nat : i = j - 1 /\ j = i + 1 /\ i < meta[f].tam /\ i < tam
    BY <1>1, <1>4
  <2>2. Byte(f, i)' = fs'.disco[b * BLOCK_SIZE + i]
    BY DEF Byte
  <2>3. Byte(f, i)' = Byte(f, i)
    BY <2>1, <2>2 DEF Conserva
  <2>4. p[j] = q[j]
    BY <1>3, <2>1, <2>3
  <2>5. j \in 1 .. Len(p)
    BY <1>1, <1>3, <1>4
  <2>6. QED
    BY <2>4, <2>5
<1>6. SubSeq(q, 1, n) = SubSeq(p, 1, n)
  <2>1. PICK u, v : u = SubSeq(p, 1, n) /\ v = SubSeq(q, 1, n)
    OBVIOUS
  <2>2. \A j \in 1 .. n : p[j] \in Bytes /\ q[j] \in Bytes
    BY <1>5
  <2>3. u \in Seq(Bytes) /\ Len(u) = n /\ \A j \in 1 .. n : u[j] = p[j]
    BY <2>1, <2>2, SubSeqProperties
  <2>4. v \in Seq(Bytes) /\ Len(v) = n /\ \A j \in 1 .. n : v[j] = q[j]
    BY <2>1, <2>2, SubSeqProperties
  <2>5. v = u
    BY <1>5, <2>3, <2>4, SeqEqual
  <2>6. QED
    BY <2>1, <2>5
<1>7. Contenidos' = [Contenidos EXCEPT ![f] = Contenidos'[f]]
  BY <1>1, UnoCambia
<1>8. QED
  BY <1>3, <1>4, <1>6, <1>7 DEF Promesa!Truncar, Promesa!Existe

(* A request that completes with the blocks of f changed, and no other's.  *)
LEMMA CompletarPromesa ==
  ASSUME Disco, Disco', NEW f \in ToSet(lista), NEW b \in Nat, NEW tam \in Nat, NEW e, NEW d,
         Completar(e, f, b, tam, d), Respeta(f, e), Conserva(f, e, b, tam)
  PROVE  Promesa!Truncar(f)
<1>1. f \in Existentes /\ f \in Nombres
  BY DeLaLista
<1>2. fs' = e /\ meta' = [meta EXCEPT ![f] = [base |-> b, tam |-> tam]]
  BY DEF Completar
<1>3. /\ meta'[f] = [base |-> b, tam |-> tam]
      /\ \A g \in Nombres \ {f} : meta'[g] = meta[g]
  BY <1>1, <1>2 DEF Disco, Catalogo
<1>4. \A g \in Nombres \ {f} : Contenidos'[g] = Contenidos[g]
  BY <1>1, <1>2, <1>3, OtrosIguales
<1>5. QED
  BY <1>1, <1>2, <1>3, <1>4, CambiaTamanio

(* A step that changes no byte and no metadata.                            *)
LEMMA NadaPasa ==
  ASSUME fs'.disco = fs.disco, meta' = meta
  PROVE  Contenidos' = Contenidos
BY DEF Contenidos, Existentes

LEMMA CrearPromesa ==
  ASSUME Disco, Disco', activo, NEW f \in Nombres, Crear(f)
  PROVE  Promesa!Crear(f)
<1>1. PICK b : b = PrimeroLibre
  OBVIOUS
<1>2. /\ f \notin ToSet(lista) /\ fs' = ConBloqueBase
      /\ meta' = [meta EXCEPT ![f] = [base |-> b, tam |-> 0]]
  BY <1>1 DEF Crear, PuedeCrear
<1>3. meta[f] = NADA
  <2>1. ToSet(lista) = Existentes
    BY DEF Disco, Vigente
  <2>2. meta[f] \notin [base : Nat, tam : Nat]
    BY <1>2, <2>1, ConstantesAssumption DEF Existentes
  <2>3. QED
    BY <2>2 DEF Disco, Catalogo
<1>4. /\ meta'[f] = [base |-> b, tam |-> 0]
      /\ \A g \in Nombres \ {f} : meta'[g] = meta[g]
  BY <1>2 DEF Disco, Catalogo
<1>5. fs'.disco = fs.disco
  BY <1>2, BytesTomados DEF ConBloqueBase, Disco, Hechos
<1>6. Contenidos[f] = NADA
  BY <1>3 DEF Contenidos, Existentes
<1>7. Contenidos'[f] = <<>>
  <2>1. meta'[f] # NADA
    <3>1. meta'[f] \in [base : Nat, tam : Nat]
      <4>1. b \in Nat
        BY <1>1, PrimeroLibreDa DEF Crear
      <4>2. QED
        BY <1>4, <4>1
    <3>2. QED
      BY <3>1, ConstantesAssumption
  <2>2. EsTexto(f)'
    BY <2>1, ContenidoTextoLuego
  <2>3. PICK q \in Seq(Bytes) : q = Contenidos'[f] /\ Len(q) = 0
    BY <1>4, <2>2 DEF EsTexto
  <2>4. q = <<>>
    BY <2>3
  <2>5. QED
    BY <2>3, <2>4
<1>8. ASSUME NEW g \in Nombres \ {f}
      PROVE  Contenidos'[g] = Contenidos[g]
  <2>1. meta'[g] = meta[g] /\ (g \in Existentes' <=> g \in Existentes)
    BY <1>4 DEF Existentes
  <2>2. QED
    BY <1>5, <2>1 DEF Contenidos
<1>9. QED
  BY <1>6, <1>7, <1>8, UnoCambia DEF Promesa!Crear, Promesa!Existe

LEMMA BorrarPromesa ==
  ASSUME Disco, NEW f \in Nombres, Borrar(f)
  PROVE  Promesa!Borrar(f)
<1>1. /\ f \in ToSet(lista) /\ fs' = SinPrimeros(f, Cantidad(f))
      /\ meta' = [meta EXCEPT ![f] = NADA]
  BY DEF Borrar, SinSusBloques
<1>2. f \in Existentes
  BY <1>1, DeLaLista
<1>3. meta'[f] = NADA /\ \A g \in Nombres \ {f} : meta'[g] = meta[g]
  BY <1>1 DEF Disco, Catalogo
<1>4. \A g \in Nombres \ {f} : Contenidos'[g] = Contenidos[g]
  <2>1. PICK n \in Nat : n = Cantidad(f)
    BY <1>2, FcbExiste DEF Disco
  <2>2. n <= Cantidad(f) /\ fs' = SinPrimeros(f, n)
    BY <1>1, <2>1
  <2>3. Respeta(f, fs')
    BY <1>2, <2>2, BorradoBytes
  <2>4. QED
    BY <1>3, <2>3, OtrosIguales
<1>5. Contenidos'[f] = NADA
  BY <1>3 DEF Contenidos, Existentes
<1>6. Contenidos[f] # NADA
  BY <1>2, ContenidoTexto DEF Existentes, EsTexto
<1>7. QED
  BY <1>4, <1>5, <1>6, UnoCambia DEF Promesa!Borrar, Promesa!Existe

-----------------------------------------------------------------------------
(* IO_FS_TRUNCATE, in each of its ways.                                    *)
LEMMA MismosPromesa ==
  ASSUME Disco, Disco', NEW f \in Nombres, NEW tam \in Nat, MismosBloques(f, tam)
  PROVE  Promesa!Truncar(f)
<1>1. PICK e, b, d : e = fs /\ b = meta[f].base /\ d = {}
  OBVIOUS
<1>2. f \in ToSet(lista) /\ Completar(e, f, b, tam, d)
  BY <1>1 DEF MismosBloques
<1>3. b \in Nat
  BY <1>1, <1>2, DeLaLista, FcbExiste DEF Disco
<1>4. Respeta(f, e) /\ Conserva(f, e, b, tam)
  BY <1>1, MismosBytes
<1>5. QED
  BY <1>2, <1>3, <1>4, CompletarPromesa

LEMMA DisminuirPromesa ==
  ASSUME Disco, Disco', Sano', NEW f \in Nombres, NEW tam \in Nat, DisminuirArchivo(f, tam)
  PROVE  Promesa!Truncar(f)
<1>1. PICK e, b, d : e = SinUltimos(tam, Sobran(f, tam)) /\ b = meta[f].base /\ d = Ajenos(f)
  OBVIOUS
<1>2. f \in ToSet(lista) /\ Nuevos(tam) < Cantidad(f) /\ Completar(e, f, b, tam, d)
  BY <1>1 DEF DisminuirArchivo
<1>3. b = 0
  <2>1. d \subseteq desvios'
    BY <1>2 DEF Completar
  <2>2. QED
    BY <1>1, <2>1 DEF Ajenos, Sano, Danios
<1>4. Respeta(f, e) /\ Conserva(f, e, b, tam)
  BY <1>1, <1>2, <1>3, DeLaLista, DisminuidoBytes
<1>5. QED
  BY <1>2, <1>3, <1>4, CompletarPromesa

LEMMA AlLadoPromesa ==
  ASSUME Disco, Disco', NEW f \in Nombres, NEW tam \in Nat, AmpliarAlLado(f, tam)
  PROVE  Promesa!Truncar(f)
<1>1. PICK e, b, d : e = Ampliado(f, tam) /\ b = meta[f].base /\ d = {}
  OBVIOUS
<1>2. f \in ToSet(lista) /\ Completar(e, f, b, tam, d)
  BY <1>1 DEF AmpliarAlLado, Aumenta, Crece
<1>3. b \in Nat
  BY <1>1, <1>2, DeLaLista, FcbExiste DEF Disco
<1>4. Respeta(f, e) /\ Conserva(f, e, b, tam)
  BY <1>1, AmpliadoBytes, MismosBytes
<1>5. QED
  BY <1>2, <1>3, <1>4, CompletarPromesa

LEMMA MoverPromesa ==
  ASSUME Disco, Disco', NEW f \in Nombres, NEW tam \in Tamanios, AmpliarMoviendo(f, tam)
  PROVE  Promesa!Truncar(f)
<1>1. PICK e, b, d : e = Movido(f, tam) /\ b = Min(Huecos(Nuevos(tam))) /\ d = {"mover"}
  OBVIOUS
<1>2. /\ f \in ToSet(lista) /\ Crece(f, tam) /\ EspacioDisp(Nuevos(tam))
      /\ Completar(e, f, b, tam, d)
  BY <1>1 DEF AmpliarMoviendo, Mueve, Aumenta, Crece, Hueco
<1>3. b \in Nat /\ tam \in Nat
  BY <1>1, <1>2, MovidoDa, CreceDa
<1>4. Respeta(f, e) /\ Conserva(f, e, b, tam)
  BY <1>1, <1>2, MovidoBytes
<1>5. QED
  BY <1>2, <1>3, <1>4, CompletarPromesa

LEMMA CompactarPromesa ==
  ASSUME Disco, Disco', Sano', NEW f \in Nombres, NEW tam \in Tamanios,
         AmpliarCompactando(f, tam)
  PROVE  Promesa!Truncar(f)
<1>1. PICK e, a, r :
        /\ e = Compactado(f)
        /\ a = AllocateBlocks(e, Offset(f) + Cantidad(f), Agregados(f, tam))
        /\ r = [base |-> Offset(f), tam |-> tam]
  OBVIOUS
<1>2. Crece(f, tam)
  BY DEF AmpliarCompactando, Compacta, Aumenta
<1>3. e.libres # 0 /\ fs' = a /\ meta' = [MetaCompacta(f) EXCEPT ![f] = r]
  <2>1. CASE e.libres = 0
    <3>1. "rechazo" \in desvios'
      BY <1>1, <2>1 DEF AmpliarCompactando
    <3>2. QED
      BY <3>1 DEF Sano, Danios
  <2>2. CASE e.libres # 0
    BY <1>1, <2>2 DEF AmpliarCompactando
  <2>3. QED
    BY <2>1, <2>2
<1>4. f \in ToSet(lista) /\ f \in Existentes /\ tam \in Nat
  BY <1>2, CreceDa
<1>5. PICK o, n, k, j, z \in Nat :
        /\ o = Offset(f) /\ n = Cantidad(f) /\ k = Agregados(f, tam) /\ j = o + n /\ z = 0
        /\ n # 0
  <2>1. Offset(f) \in Nat
    BY <1>4, BasesCompactas
  <2>2. Cantidad(f) \in Nat \ {0} /\ Agregados(f, tam) \in Nat
    BY <1>2, CreceDa
  <2>3. QED
    BY <2>1, <2>2
<1>6. TipoFs(e) /\ e.bits = Tramo(z, j)
  BY <1>1, <1>3, <1>4, <1>5, CompactadoDa
<1>7. a.disco = e.disco /\ e.bits \subseteq a.bits
  <2>1. a.disco = e.disco
    BY <1>1, <1>6, BytesTomados
  <2>2. a.bits = e.bits \cup Tramo(j, k)
    BY <1>1, <1>5, <1>6 DEF AllocateBlocks, TipoFs
  <2>3. QED
    BY <2>1, <2>2
<1>8. j <= BLOCK_COUNT
  <2>1. PICK i, m \in Nat : i = j - 1 /\ m = BLOCK_COUNT
    BY <1>5, ConstantesAssumption
  <2>2. i \in Tramo(z, j)
    BY <1>5, <2>1 DEF Tramo
  <2>3. i \in 0 .. m - 1
    BY <1>3, <1>6, <1>7, <2>1, <2>2 DEF Disco, Hechos
  <2>4. QED
    BY <2>1, <2>3
<1>9. /\ \A g \in Existentes \ {f} : \A i \in Nat : i < meta[g].tam =>
           e.disco[NuevaBase(f, g) * BLOCK_SIZE + i] = Byte(g, i)
      /\ \A i \in Nat : i < meta[f].tam => e.disco[o * BLOCK_SIZE + i] = Byte(f, i)
  <2>1. Offset(f) + Cantidad(f) <= BLOCK_COUNT
    BY <1>5, <1>8
  <2>2. QED
    BY <1>1, <1>3, <1>4, <1>5, <2>1, CompactadoBytes
<1>10. /\ meta'[f] = [base |-> o, tam |-> tam]
       /\ \A g \in Existentes \ {f} : meta'[g] = [base |-> NuevaBase(f, g), tam |-> meta[g].tam]
       /\ \A g \in Nombres \ {f} : g \notin Existentes => meta'[g] = NADA
  <2>1. /\ DOMAIN MetaCompacta(f) = Nombres
        /\ \A g \in Existentes \ {f} :
             MetaCompacta(f)[g] = [base |-> NuevaBase(f, g), tam |-> meta[g].tam]
        /\ \A g \in Nombres \ {f} : g \notin Existentes => MetaCompacta(f)[g] = NADA
    BY <1>4, MetaCompactaDa
  <2>2. \A g \in Existentes : g \in Nombres
    BY DEF Existentes
  <2>3. QED
    BY <1>1, <1>3, <1>5, <2>1, <2>2
<1>11. Conserva(f, fs', o, tam)
  BY <1>3, <1>7, <1>9 DEF Conserva
<1>12. ASSUME NEW g \in Nombres \ {f}
       PROVE  Contenidos'[g] = Contenidos[g]
  <2>1. CASE meta[g] = NADA
    <3>1. meta'[g] = NADA
      BY <1>10, <2>1 DEF Existentes
    <3>2. QED
      BY <2>1, <3>1 DEF Existentes, Contenidos
  <2>2. CASE meta[g] # NADA
    <3>1. g \in Existentes \ {f} /\ meta[g] \in [base : Nat, tam : Nat]
      BY <2>2, ConstantesAssumption DEF Existentes, Disco, Catalogo
    <3>2. PICK b, t \in Nat : b = NuevaBase(f, g) /\ t = meta[g].tam
      BY <1>4, <3>1, BasesCompactas
    <3>3. meta'[g] = [base |-> b, tam |-> t]
      BY <1>10, <3>1, <3>2
    <3>4. meta'[g] \in [base : Nat, tam : Nat] /\ meta'[g].base = b /\ meta'[g].tam = t
      BY <3>3
    <3>5. ASSUME NEW i \in Nat, i < meta[g].tam
          PROVE  Byte(g, i)' = Byte(g, i)
      <4>1. e.disco[b * BLOCK_SIZE + i] = Byte(g, i)
        BY <1>9, <3>1, <3>2, <3>5
      <4>2. Byte(g, i)' = fs'.disco[b * BLOCK_SIZE + i]
        BY <3>4 DEF Byte
      <4>3. QED
        BY <1>3, <1>7, <4>1, <4>2
    <3>6. meta'[g] # NADA
      BY <3>4, ConstantesAssumption
    <3>7. QED
      BY <2>2, <3>1, <3>2, <3>4, <3>5, <3>6, ContenidoIgual
  <2>3. QED
    BY <2>1, <2>2
<1>13. QED
  BY <1>4, <1>5, <1>10, <1>11, <1>12, CambiaTamanio

(* IO_FS_WRITE.                                                            *)
LEMMA EscribirPromesa ==
  ASSUME Disco, Disco', Sano', NEW f \in Nombres, NEW ptr \in Nat, NEW n \in Nat,
         NEW d \in Datos, EscribirArchivo(f, ptr, n, d)
  PROVE  Contenidos' = Contenidos \/ Promesa!Escribir(f)
<1>1. PICK dato : dato = [i \in 0 .. n - 1 |-> d]
  OBVIOUS
<1>2. /\ f \in Existentes /\ ptr + n <= meta[f].tam
      /\ fs' = EscribirBloques(fs, dato, meta[f].base * BLOCK_SIZE + ptr) /\ meta' = meta
  BY <1>1, EscribeDentro, DeLaLista
<1>3. PICK b, t, u \in Nat : b = meta[f].base /\ t = meta[f].tam /\ u = b * BLOCK_SIZE
  BY <1>2, FcbExiste, ConstantesAssumption DEF Disco
<1>4. \A x \in Posiciones :
        fs'.disco[x] = IF x - (u + ptr) \in 0 .. n - 1 THEN d ELSE fs.disco[x]
  <2>1. TAKE x \in Posiciones
  <2>2. fs'.disco[x] = IF x - (u + ptr) \in DOMAIN dato THEN dato[x - (u + ptr)] ELSE fs.disco[x]
    BY <1>2, <1>3, BytesEscritos DEF Disco, Hechos
  <2>3. QED
    BY <1>1, <2>2
<1>5. ASSUME NEW i \in Nat, i < t
      PROVE  Byte(f, i)' = IF ptr <= i /\ i < ptr + n THEN d ELSE Byte(f, i)
  <2>1. PICK x \in Nat : x = u + i
    OBVIOUS
  <2>2. x \in Posiciones
    BY <1>2, <1>3, <1>5, <2>1, BytePropio
  <2>3. x - (u + ptr) \in 0 .. n - 1 <=> ptr <= i /\ i < ptr + n
    BY <2>1
  <2>4. Byte(f, i)' = fs'.disco[x] /\ Byte(f, i) = fs.disco[x]
    BY <1>2, <1>3, <2>1 DEF Byte
  <2>5. QED
    BY <1>4, <2>2, <2>3, <2>4
<1>6. Respeta(f, fs')
  <2> SUFFICES ASSUME NEW x \in Posiciones, x \div BLOCK_SIZE \notin Bloques(f)
               PROVE  fs'.disco[x] = fs.disco[x]
    BY <1>2 DEF Respeta
  <2>1. x \in Nat
    BY DEF Posiciones
  <2>2. ASSUME x - (u + ptr) \in 0 .. n - 1
        PROVE  FALSE
    <3>1. PICK i \in Nat : x = u + i /\ i < t
      <4>1. PICK i \in Nat : i = x - u
        BY <2>1, <2>2
      <4>2. x = u + i /\ i < t
        BY <1>2, <1>3, <2>1, <2>2, <4>1
      <4>3. QED
        BY <4>2
    <3>2. x = meta[f].base * BLOCK_SIZE + i /\ i < meta[f].tam
      BY <1>3, <3>1
    <3>3. QED
      BY <1>2, <3>2, BytePropio
  <2>3. QED
    BY <1>4, <2>2
<1>7. \A g \in Nombres \ {f} : Contenidos'[g] = Contenidos[g]
  BY <1>2, <1>6, OtrosIguales
<1>8. meta[f] # NADA /\ meta'[f] # NADA
  BY <1>2 DEF Existentes
<1>9. EsTexto(f) /\ EsTexto(f)'
  BY <1>8, ContenidoTexto, ContenidoTextoLuego
<1>10. PICK p, q \in Seq(Bytes) :
         /\ p = Contenidos[f] /\ q = Contenidos'[f] /\ p # NADA /\ Len(p) = t /\ Len(q) = t
         /\ \A i \in Nat : i < t => p[i + 1] = Byte(f, i) /\ q[i + 1] = Byte(f, i)'
  BY <1>2, <1>3, <1>9 DEF EsTexto
<1>11. \A k \in 1 .. t : q[k] = IF k \in ptr + 1 .. ptr + n THEN d ELSE p[k]
  <2>1. TAKE k \in 1 .. t
  <2>2. PICK i \in Nat : i = k - 1 /\ k = i + 1 /\ i < t
    OBVIOUS
  <2>3. k \in ptr + 1 .. ptr + n <=> ptr <= i /\ i < ptr + n
    BY <2>2
  <2>4. q[k] = Byte(f, i)' /\ p[k] = Byte(f, i)
    BY <1>10, <2>2
  <2>5. QED
    BY <1>5, <2>2, <2>3, <2>4
<1>12. q = [k \in DOMAIN p |-> IF k \in ptr + 1 .. ptr + n THEN d ELSE p[k]]
  <2>1. DOMAIN p = 1 .. t /\ DOMAIN q = 1 .. t /\ q = [k \in DOMAIN q |-> q[k]]
    BY <1>10
  <2>2. QED
    BY <1>11, <2>1
<1>13. CASE n = 0
  <2>1. \A k \in 1 .. t : q[k] = p[k]
    BY <1>11, <1>13
  <2>2. q = p
    BY <1>10, <2>1, SeqEqual
  <2>3. QED
    BY <1>7, <1>10, <2>2, TodoIgual
<1>14. CASE n # 0
  <2>1. PICK i, j \in Nat : i = ptr + 1 /\ j = ptr + n
    OBVIOUS
  <2>2. i \in 1 .. Len(Contenidos[f]) /\ j \in 0 .. Len(Contenidos[f]) /\ d \in Bytes
    BY <1>2, <1>3, <1>10, <1>14, <2>1 DEF Bytes
  <2>3. q = [k \in DOMAIN p |-> IF k \in i .. j THEN d ELSE p[k]]
    BY <1>12, <2>1
  <2>4. Contenidos' = [Contenidos EXCEPT ![f] =
                        [k \in DOMAIN @ |-> IF k \in i .. j THEN d ELSE @[k]]]
    <3>1. Contenidos' = [Contenidos EXCEPT ![f] = q]
      BY <1>7, <1>10, UnoCambia
    <3>2. QED
      BY <1>10, <2>3, <3>1
  <2>5. Contenidos[f] # NADA
    BY <1>10
  <2>6. QED
    BY <2>2, <2>4, <2>5 DEF Promesa!Escribir, Promesa!Existe
<1>15. QED
  BY <1>13, <1>14

(* The bytes of the files are in the blocks of the disc, and not behind.   *)
LEMMA IniciarPromesa ==
  ASSUME Disco, Iniciar
  PROVE  Contenidos' = Contenidos
<1>1. fs' = EnDisco(fs) /\ meta' = meta
  BY DEF Iniciar
<1>2. fs'.disco = [x \in Posiciones |-> IF x < BLOCK_COUNT * BLOCK_SIZE THEN fs.disco[x] ELSE 0]
  BY <1>1 DEF EnDisco, Disco, Hechos, TipoFs
<1>3. ASSUME NEW g \in Nombres, meta[g] # NADA, NEW i \in Nat, i < meta[g].tam
      PROVE  Byte(g, i)' = Byte(g, i)
  <2>1. g \in Existentes
    BY <1>3, ConstantesAssumption DEF Existentes, Disco, Catalogo
  <2>2. PICK b, n, d, u, v \in Nat :
          /\ b = meta[g].base /\ n = Cantidad(g) /\ d = BLOCK_SIZE /\ b + n <= BLOCK_COUNT
          /\ u = b * d /\ v = n * d
    <3>1. PICK b, n, d \in Nat : /\ b = meta[g].base /\ n = Cantidad(g) /\ d = BLOCK_SIZE
                                 /\ b + n <= BLOCK_COUNT
      BY <2>1, FcbExiste, CabeEnDisco, ConstantesAssumption DEF Disco
    <3>2. b * d \in Nat /\ n * d \in Nat
      OBVIOUS
    <3>3. QED
      BY <3>1, <3>2
  <2>3. PICK x : x = meta[g].base * BLOCK_SIZE + i
    OBVIOUS
  <2>4. x \in Posiciones /\ x \in Nat /\ i < v /\ x = u + i
    BY <1>3, <2>1, <2>2, <2>3, BytePropio
  <2>5. x < BLOCK_COUNT * BLOCK_SIZE
    <3>1. PICK c, h, L \in Nat : c = BLOCK_COUNT /\ h = b + n /\ L = c * d
      BY ConstantesAssumption
    <3>2. h * d <= c * d
      BY <2>2, <3>1, Producto
    <3>3. h * d = u + v
      BY <2>2, <3>1
    <3>4. x < L
      BY <2>4, <3>1, <3>2, <3>3
    <3>5. QED
      BY <2>2, <3>1, <3>4
  <2>6. fs'.disco[x] = fs.disco[x]
    BY <1>2, <2>4, <2>5
  <2>7. QED
    BY <1>1, <2>3, <2>6 DEF Byte
<1>4. ASSUME NEW g \in Nombres
      PROVE  Contenidos'[g] = Contenidos[g]
  <2>1. meta[g] = NADA \/ meta[g] \in [base : Nat, tam : Nat]
    BY DEF Disco, Catalogo
  <2>2. QED
    BY <1>1, <1>3, <2>1, ContenidoIgual
<1>5. QED
  BY <1>4, TodoIgual

-----------------------------------------------------------------------------
LEMMA PedidoPromesa ==
  ASSUME Disco, Disco', Sano', activo, NEW f \in Nombres, Pedido(f)
  PROVE  Contenidos' = Contenidos \/ Promesa!Next
<1>1. ASSUME NEW r, Contestar(r)
      PROVE  Contenidos' = Contenidos
  BY <1>1, NadaPasa DEF Contestar
<1>2. ASSUME Promesa!Crear(f) \/ Promesa!Borrar(f) \/ Promesa!Truncar(f) \/ Promesa!Escribir(f)
      PROVE  Promesa!Next
  BY <1>2 DEF Promesa!Next
<1>3. CASE CrearDuplicado(f) \/ CrearSinBloques(f) \/ NoEsta(f)
  BY <1>1, <1>3 DEF CrearDuplicado, CrearSinBloques, NoEsta
<1>4. CASE Crear(f) \/ Borrar(f)
  BY <1>2, <1>4, CrearPromesa, BorrarPromesa
<1>5. CASE CrearYCaer(f)
  <2>1. fs' = ConBloqueBase /\ meta' = meta
    BY <1>5, VaciadaDania DEF CrearYCaer, CaerCon, Terminar
  <2>2. fs'.disco = fs.disco
    BY <2>1, BytesTomados DEF ConBloqueBase, Disco, Hechos
  <2>3. QED
    BY <2>1, <2>2, NadaPasa
<1>6. CASE BorrarYCaer(f)
  BY <1>6 DEF BorrarYCaer, CaerCon, Terminar, Sano, Danios
<1>7. ASSUME NEW tam \in Tamanios, Truncar(f, tam)
      PROVE  Contenidos' = Contenidos \/ Promesa!Next
  <2>1. tam \in Nat
    BY ConstantesAssumption
  <2>2. CASE NoEntraEnDisco(f, tam) \/ AumentarRechazado(f, tam)
    BY <1>1, <2>2 DEF NoEntraEnDisco, AumentarRechazado
  <2>3. CASE MismosBloques(f, tam)
    BY <1>2, <2>1, <2>3, MismosPromesa
  <2>4. CASE DisminuirArchivo(f, tam)
    BY <1>2, <2>1, <2>4, DisminuirPromesa
  <2>5. CASE AmpliarAlLado(f, tam)
    BY <1>2, <2>1, <2>5, AlLadoPromesa
  <2>6. CASE AmpliarMoviendo(f, tam)
    BY <1>2, <2>6, MoverPromesa
  <2>7. CASE AmpliarCompactando(f, tam)
    BY <1>2, <2>7, CompactarPromesa
  <2>8. QED
    BY <1>7, <2>2, <2>3, <2>4, <2>5, <2>6, <2>7 DEF Truncar
<1>8. ASSUME NEW tam \in Tamanios, TruncarYCaer(f, tam)
      PROVE  Contenidos' = Contenidos
  <2>1. CASE DisminuirYCaer(f, tam) \/ MoverYCaer(f, tam)
    BY <2>1, VaciadaDania DEF DisminuirYCaer, MoverYCaer, CaerCon, Terminar, Sano, Danios
  <2>2. CASE CompactarYCaer(f, tam) \/ MismosYCaer(f, tam)
    BY <2>2, VaciadaDania DEF CompactarYCaer, MismosYCaer, Terminar, Sano, Danios
  <2>3. CASE AmpliarYCaer(f, tam)
    <3>1. PICK k : fs' = ConOtros(f, k) /\ meta' = meta
      BY <2>3, VaciadaDania DEF AmpliarYCaer, CaerCon, Terminar
    <3>2. QED
      BY <3>1, AmpliadoBytes, NadaPasa
  <2>4. QED
    BY <1>8, <2>1, <2>2, <2>3 DEF TruncarYCaer
<1>9. ASSUME NEW ptr \in Punteros, NEW n \in Tamanios, LeerOEscribir(f, ptr, n)
      PROVE  Contenidos' = Contenidos \/ Promesa!Next
  <2>1. ptr \in Nat /\ n \in Nat
    BY ConstantesAssumption
  <2>2. ASSUME NEW d \in Datos, EscribirArchivo(f, ptr, n, d)
        PROVE  Contenidos' = Contenidos \/ Promesa!Next
    BY <1>2, <2>1, <2>2, EscribirPromesa
  <2>3. CASE EscribirFuera(f, ptr, n) \/ LeerArchivo(f, ptr, n)
    BY <1>1, <2>3 DEF EscribirFuera, LeerArchivo
  <2>4. CASE LeerFuera(f, ptr, n)
    BY <2>4, NadaPasa DEF LeerFuera
  <2>5. QED
    BY <1>9, <2>2, <2>3, <2>4 DEF LeerOEscribir
<1>10. QED
  BY <1>3, <1>4, <1>5, <1>6, <1>7, <1>8, <1>9 DEF Pedido

LEMMA PasoPromesa ==
  ASSUME Disco, Disco', Sano', [Next]_vars
  PROVE  Contenidos' = Contenidos \/ Promesa!Next
<1>1. ASSUME activo, NEW f \in Nombres, Pedido(f)
      PROVE  Contenidos' = Contenidos \/ Promesa!Next
  BY <1>1, PedidoPromesa
<1>2. CASE Caer
  BY <1>2, NadaPasa DEF Caer
<1>3. CASE Iniciar
  BY <1>3, IniciarPromesa
<1>4. CASE UNCHANGED vars
  BY <1>4, NadaPasa DEF vars
<1>5. QED
  BY <1>1, <1>2, <1>3, <1>4 DEF Next

(* The interface implements Archivos: while no file has been damaged, seen *)
(* by its contents the disc is a set of independent files, wherever their  *)
(* blocks are, and each step is a request that changes one file, or moves, *)
(* compactions, ends and starts that change none.                          *)
THEOREM CumplenArchivos == Spec => ArchivosCumplidos
<1>1. Init => DiscoInv /\ Promesa!Init
  <2>1. Init => DiscoInv
    BY DiscoInicial DEF DiscoInv
  <2>2. Init => Promesa!Init
    BY DEF Init, Promesa!Init, Contenidos, Existentes
  <2>3. QED
    BY <2>1, <2>2
<1>2. DiscoInv /\ [Next]_vars =>
        [Sano' => Contenidos' = Contenidos \/ Promesa!Next]_Contenidos
  <2> SUFFICES ASSUME DiscoInv, [Next]_vars, Sano'
               PROVE  Contenidos' = Contenidos \/ Promesa!Next
    OBVIOUS
  <2>1. Disco /\ Disco'
    BY DiscoPaso, DesviosCrecen DEF DiscoInv, Sano
  <2>2. QED
    BY <2>1, PasoPromesa
<1>3. QED
  BY <1>1, <1>2, DiscoPaso, PTL DEF Spec, ArchivosCumplidos

-----------------------------------------------------------------------------
(* A program that ends.                                                    *)
Daniados == {f \in Nombres : Contenidos'[f] # Contenidos[f]}

LEMMA UnoALoSumo ==
  ASSUME NEW f \in Nombres, \A g \in Nombres \ {f} : Contenidos'[g] = Contenidos[g]
  PROVE  Cardinality(Daniados) <= 1
<1>1. Daniados = {} \/ Daniados = {f}
  BY DEF Daniados
<1>2. Cardinality({}) = 0 /\ Cardinality({f}) = 1
  BY FS_EmptySet, FS_Singleton
<1>3. QED
  BY <1>1, <1>2

LEMMA NingunoDaniado ==
  ASSUME Contenidos' = Contenidos
  PROVE  Cardinality(Daniados) <= 1
<1>1. Daniados = {}
  BY DEF Daniados
<1>2. QED
  BY <1>1, FS_EmptySet

(* The blocks of f may change before it ends, and its metadata be emptied. *)
LEMMA CaerDaniaUno ==
  ASSUME Disco, NEW f \in Nombres, NEW e, Respeta(f, e),
         CaerEnMetadata(f, e) \/ \E d : CaerCon(e, d)
  PROVE  Cardinality(Daniados) <= 1
<1>1. fs' = e
  BY DEF CaerCon, CaerEnMetadata, Terminar
<1>2. meta' = meta \/ meta' = [meta EXCEPT ![f] = VACIO]
  BY DEF CaerCon, CaerEnMetadata
<1>3. \A g \in Nombres \ {f} : meta'[g] = meta[g]
  BY <1>2 DEF Disco, Catalogo
<1>4. \A g \in Nombres \ {f} : Contenidos'[g] = Contenidos[g]
  BY <1>1, <1>3, OtrosIguales
<1>5. QED
  BY <1>4, UnoALoSumo

LEMMA TruncarYCaerDaniaUno ==
  ASSUME Disco, NEW f \in Nombres, NEW tam \in Tamanios, TruncarYCaer(f, tam),
         desvios' \cap {"caida_compactando", "achicar"} = {}
  PROVE  Cardinality(Daniados) <= 1
<1>1. tam \in Nat
  BY ConstantesAssumption
<1>2. CASE MismosYCaer(f, tam)
  <2>1. Respeta(f, fs)
    BY MismosBytes
  <2>2. QED
    BY <1>2, <2>1, CaerDaniaUno DEF MismosYCaer
<1>3. CASE DisminuirYCaer(f, tam)
  <2>1. f \in ToSet(lista) /\ Nuevos(tam) < Cantidad(f) /\ Ajenos(f) = {}
    BY <1>3 DEF DisminuirYCaer, CaerCon, Terminar, Ajenos
  <2>2. f \in Existentes /\ meta[f].base = 0
    BY <2>1, DeLaLista DEF Ajenos
  <2>3. /\ \A k \in 1 .. Sobran(f, tam) : Respeta(f, SinUltimos(tam, k))
        /\ Respeta(f, SinUltimos(tam, Sobran(f, tam)))
    BY <1>1, <2>1, <2>2, DisminuidoBytes
  <2>4. CASE CaerEnMetadata(f, SinUltimos(tam, Sobran(f, tam)))
    BY <2>3, <2>4, CaerDaniaUno
  <2>5. CASE \E k \in 1 .. Sobran(f, tam) : CaerCon(SinUltimos(tam, k), {"caida"} \cup Ajenos(f))
    BY <2>3, <2>5, CaerDaniaUno
  <2>6. QED
    BY <1>3, <2>4, <2>5 DEF DisminuirYCaer
<1>4. CASE AmpliarYCaer(f, tam)
  <2>1. Respeta(f, Ampliado(f, tam)) /\ \A k : Respeta(f, ConOtros(f, k))
    BY AmpliadoBytes, MismosBytes
  <2>2. CASE CaerEnMetadata(f, Ampliado(f, tam))
    BY <2>1, <2>2, CaerDaniaUno
  <2>3. CASE \E k \in 1 .. Agregados(f, tam) : CaerCon(ConOtros(f, k), {"fuga"})
    BY <2>1, <2>3, CaerDaniaUno
  <2>4. QED
    BY <1>4, <2>2, <2>3 DEF AmpliarYCaer
<1>5. CASE MoverYCaer(f, tam)
  <2>1. Crece(f, tam) /\ EspacioDisp(Nuevos(tam))
    BY <1>5 DEF MoverYCaer, Mueve, Aumenta
  <2>2. \A e \in EtapasDeMover(f, tam) : Respeta(f, e)
    BY <2>1, EtapasBytes
  <2>3. Movido(f, tam) \in EtapasDeMover(f, tam)
    BY DEF EtapasDeMover
  <2>4. CASE CaerEnMetadata(f, Movido(f, tam))
    BY <2>2, <2>3, <2>4, CaerDaniaUno
  <2>5. CASE \E e \in EtapasDeMover(f, tam) : CaerCon(e, {"caida"})
    BY <2>2, <2>5, CaerDaniaUno
  <2>6. QED
    BY <1>5, <2>4, <2>5 DEF MoverYCaer
<1>6. ~CompactarYCaer(f, tam)
  BY DEF CompactarYCaer, Terminar
<1>7. QED
  BY <1>2, <1>3, <1>4, <1>5, <1>6 DEF TruncarYCaer

LEMMA PedidoDaniaUno ==
  ASSUME Disco, activo, activo' # activo, NEW f \in Nombres, Pedido(f),
         desvios' \cap {"caida_compactando", "achicar"} = {}
  PROVE  Cardinality(Daniados) <= 1
<1>1. ~ (CrearDuplicado(f) \/ CrearSinBloques(f) \/ Crear(f) \/ Borrar(f) \/ NoEsta(f))
  BY DEF CrearDuplicado, CrearSinBloques, Crear, Borrar, NoEsta, Contestar
<1>2. CASE CrearYCaer(f)
  <2>1. ConBloqueBase.disco = fs.disco
    BY BytesTomados DEF ConBloqueBase, Disco, Hechos
  <2>2. Respeta(f, ConBloqueBase)
    BY <2>1, MismosBytes
  <2>3. QED
    BY <1>2, <2>2, CaerDaniaUno DEF CrearYCaer
<1>3. CASE BorrarYCaer(f)
  <2>1. PICK k \in 1 .. Cantidad(f) : CaerCon(SinPrimeros(f, k), {"caida"})
    BY <1>3 DEF BorrarYCaer
  <2>2. f \in Existentes
    BY <1>3, DeLaLista DEF BorrarYCaer
  <2>3. k \in Nat /\ k <= Cantidad(f)
    BY <2>2, FcbExiste DEF Disco
  <2>4. QED
    BY <2>1, <2>2, <2>3, BorradoBytes, CaerDaniaUno
<1>4. ASSUME NEW tam \in Tamanios
      PROVE  ~Truncar(f, tam)
  BY DEF Truncar, NoEntraEnDisco, MismosBloques, DisminuirArchivo, AumentarRechazado,
     AmpliarAlLado, AmpliarMoviendo, AmpliarCompactando, Completar, Contestar
<1>5. ASSUME NEW tam \in Tamanios, TruncarYCaer(f, tam)
      PROVE  Cardinality(Daniados) <= 1
  BY <1>5, TruncarYCaerDaniaUno
<1>6. ASSUME NEW ptr, NEW n, LeerOEscribir(f, ptr, n)
      PROVE  Cardinality(Daniados) <= 1
  <2>1. LeerFuera(f, ptr, n)
    BY <1>6 DEF LeerOEscribir, EscribirArchivo, EscribirFuera, LeerArchivo, Contestar
  <2>2. QED
    BY <2>1, NadaPasa, NingunoDaniado DEF LeerFuera
<1>7. QED
  BY <1>1, <1>2, <1>3, <1>4, <1>5, <1>6 DEF Pedido

(* On a disc that no detour of Danios has damaged, a program that ends in  *)
(* the middle of a request, after any of its blocks or in the writing of   *)
(* its metadata, damages the file of that request and no other, but when   *)
(* it was compacting, or shrinking a file that is not at block 0.          *)
THEOREM AjenosIntactosSiempre == Spec => AjenosIntactos
<1>1. Init => DiscoInv
  BY DiscoInicial DEF DiscoInv
<1>2. DiscoInv /\ [Next]_vars =>
        [ Sano /\ activo /\ ~activo' /\ desvios' \cap {"caida_compactando", "achicar"} = {} =>
            Cardinality({f \in Nombres : Contenidos'[f] # Contenidos[f]}) <= 1 ]_vars
  <2> SUFFICES ASSUME DiscoInv, Next, Sano, activo, ~activo',
                      desvios' \cap {"caida_compactando", "achicar"} = {}
               PROVE  Cardinality(Daniados) <= 1
    BY DEF Daniados
  <2>1. Disco /\ activo' # activo
    BY DEF DiscoInv
  <2>2. ASSUME NEW f \in Nombres, Pedido(f)
        PROVE  Cardinality(Daniados) <= 1
    BY <2>1, <2>2, PedidoDaniaUno
  <2>3. CASE Caer
    BY <2>3, NadaPasa, NingunoDaniado DEF Caer
  <2>4. ~Iniciar
    BY DEF Iniciar
  <2>5. QED
    BY <2>2, <2>3, <2>4 DEF Next
<1>3. QED
  BY <1>1, <1>2, DiscoPaso, PTL DEF Spec, AjenosIntactos

=============================================================================
