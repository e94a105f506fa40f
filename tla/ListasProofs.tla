---------------------------- MODULE ListasProofs ----------------------------
(***************************************************************************)
(* What the lists of the programs do, for the proofs about them, and what  *)
(* a running sum does.                                                     *)
(***************************************************************************)
EXTENDS Integers, SequencesExt, SequenceTheorems, FiniteSetTheorems, FunctionTheorems,
        WellFoundedInduction, TLAPS

(* Where sacar_pcb_lista (KERNEL) and eliminar_proceso (MEMORIA) cut a     *)
(* list: at the first element that is p.                                   *)
LEMMA RemoveFirstParte ==
  ASSUME NEW S, NEW cola \in Seq(S), NEW p, p \in ToSet(cola)
  PROVE  \E a, b \in Seq(S) : /\ cola = a \o <<p>> \o b
                              /\ RemoveFirst(cola, p) = a \o b
                              /\ p \notin ToSet(a)
<1> DEFINE I == {i \in 1 .. Len(cola) : cola[i] = p}
<1>1. DOMAIN cola = 1 .. Len(cola) /\ Len(cola) \in Nat
  BY LenProperties
<1>2. I # {} /\ I \subseteq Nat
  BY <1>1 DEF ToSet
<1>3. PICK k \in I : k = Min(I) /\ \A y \in I : k =< y
  <2> DEFINE T == {1 .. i : i \in I}
             R == StrictSubsetOrdering(Nat)
  <2>1. \A i \in I : 1 .. i \subseteq Nat /\ IsFiniteSet(1 .. i)
    BY <1>2, FS_Interval
  <2>2. T \subseteq FiniteSubsetsOf(Nat) /\ T # {}
    BY <1>2, <2>1 DEF FiniteSubsetsOf
  <2>3. PICK t \in T : \A u \in T : <<u, t>> \notin R
    <3> HIDE DEF T, R, I
    <3>1. IsWellFoundedOn(R, FiniteSubsetsOf(Nat))
      BY FS_StrictSubsetOrderingWellFounded DEF R
    <3>2. QED
      BY <2>2, <3>1, WFMin
  <2>4. PICK x \in I : t = 1 .. x
    BY <2>3
  <2>5. ASSUME NEW y \in I, y < x
        PROVE  FALSE
    <3>1. <<1 .. y, 1 .. x>> \in R
      BY <1>2, <2>5 DEF StrictSubsetOrdering
    <3>2. QED
      BY <2>3, <2>4, <3>1
  <2>6. \A y \in I : x =< y
    BY <1>2, <2>5
  <2>7. QED
    BY <1>2, <2>6 DEF Min
<1>4. k \in 1 .. Len(cola) /\ cola[k] = p
  BY <1>1, <1>3
<1>5. RemoveFirst(cola, p) = SubSeq(cola, 1, k - 1) \o SubSeq(cola, k + 1, Len(cola))
  BY <1>2, <1>3, <1>4 DEF RemoveFirst, RemoveAt, SelectInSeq
<1> DEFINE n == Len(cola)
<1>10. n \in Nat /\ k \in Nat /\ 1 <= k /\ k <= n
  BY <1>1, <1>4
<1> DEFINE a == SubSeq(cola, 1, k - 1)
           b == SubSeq(cola, k + 1, Len(cola))
<1>6. p \notin ToSet(a) /\ a \in Seq(S) /\ Len(a) = k - 1 /\ \A i \in 1 .. k - 1 : a[i] = cola[i]
  <2>1. \A i \in 1 .. k - 1 : i \in 1 .. Len(cola) /\ cola[i] # p
    BY <1>1, <1>3, <1>4
  <2>2. \A i \in 1 .. k - 1 : cola[i] \in S
    BY <2>1, ElementOfSeq
  <2>3. a \in Seq(S) /\ Len(a) = k - 1 /\ \A i \in 1 .. k - 1 : a[i] = cola[i]
    BY <1>1, <1>4, <2>2, SubSeqProperties
  <2>4. DOMAIN a = 1 .. k - 1
    BY <2>3, LenProperties
  <2>5. QED
    BY <2>1, <2>3, <2>4 DEF ToSet
<1> HIDE DEF I
<1>7. /\ b \in Seq(S) /\ Len(b) = Len(cola) - k
      /\ \A i \in 1 .. Len(cola) - k : b[i] = cola[k + i]
  <2>1. \A i \in k + 1 .. Len(cola) : cola[i] \in S
    BY <1>1, <1>4, ElementOfSeq
  <2>2. k + 1 \in Int /\ Len(cola) \in Int
    BY <1>10
  <2>3. /\ b \in Seq(S)
        /\ Len(b) = IF k + 1 <= Len(cola) THEN Len(cola) - (k + 1) + 1 ELSE 0
        /\ \A i \in 1 .. Len(cola) - (k + 1) + 1 : b[i] = cola[(k + 1) + i - 1]
    BY <2>1, <2>2, SubSeqProperties
  <2> HIDE DEF b
  <2> HIDE DEF n
  <2>4. QED
    BY <1>10, <2>3 DEF n
<1>8. cola = a \o <<p>> \o b
  <2> DEFINE c == a \o <<p>>
  <2>1. p \in S
    BY <1>4, ElementOfSeq
  <2>2. <<p>> \in Seq(S) /\ Len(<<p>>) = 1 /\ <<p>>[1] = p
    BY <2>1
  <2> HIDE DEF a, b
  <2>3. /\ c \in Seq(S) /\ Len(c) = k
        /\ \A i \in 1 .. k : c[i] = cola[i]
    BY <1>1, <1>4, <1>6, <2>2, ConcatProperties
  <2> HIDE DEF c
  <2>9. b \in Seq(S)
    BY <1>7
  <2>4. /\ c \o b \in Seq(S) /\ Len(c \o b) = Len(c) + Len(b)
        /\ \A i \in 1 .. Len(c) + Len(b) :
             (c \o b)[i] = IF i <= Len(c) THEN c[i] ELSE b[i - Len(c)]
    BY <2>3, <2>9, ConcatProperties
  <2>5. Len(c) + Len(b) = Len(cola)
    <3>1. Len(c) = k /\ Len(b) = n - k
      BY <1>7, <2>3 DEF b
    <3> HIDE DEF n
    <3>2. Len(c) + Len(b) = n
      BY <1>10, <3>1
    <3>3. QED
      BY <3>2 DEF n
  <2>6. ASSUME NEW i \in 1 .. Len(cola)
        PROVE  (c \o b)[i] = cola[i]
    <3>1. CASE i <= k
      BY <1>1, <1>4, <2>3, <2>4, <2>5, <3>1
    <3>2. CASE i > k
      <4>1. (c \o b)[i] = b[i - k] /\ i - k \in 1 .. Len(cola) - k
        BY <1>1, <1>4, <2>3, <2>4, <2>5, <3>2
      <4>2. b[i - k] = cola[k + (i - k)]
        BY <1>7, <4>1 DEF b
      <4>3. k + (i - k) = i
        BY <1>4
      <4>4. QED
        BY <4>1, <4>2, <4>3
    <3>3. i <= k \/ i > k
      BY <1>10
    <3>4. QED
      BY <3>1, <3>2, <3>3
  <2>7. c \o b = cola
    BY <2>4, <2>5, <2>6, SeqEqual
  <2>8. QED
    BY <2>7 DEF c
<1>9. QED
  BY <1>5, <1>6, <1>7, <1>8

(* Removing the first element that is p leaves a list with at most one     *)
(* less.                                                                   *)
LEMMA RemoveFirstTipo ==
  ASSUME NEW S, NEW cola \in Seq(S), NEW p
  PROVE  /\ RemoveFirst(cola, p) \in Seq(S)
         /\ Len(RemoveFirst(cola, p)) >= Len(cola) - 1
<1>1. DOMAIN cola = 1 .. Len(cola) /\ Len(cola) \in Nat
  BY LenProperties
<1>2. CASE p \in ToSet(cola)
  <2>1. PICK a, b \in Seq(S) : /\ cola = a \o <<p>> \o b
                              /\ RemoveFirst(cola, p) = a \o b
                              /\ p \notin ToSet(a)
    BY <1>2, RemoveFirstParte
  <2>2. <<p>> \in Seq(S) /\ Len(<<p>>) = 1
    BY <1>1, <1>2 DEF ToSet
  <2>3. a \o <<p>> \in Seq(S) /\ Len(a \o <<p>>) = Len(a) + 1
    BY <2>2, ConcatProperties
  <2>4. Len(cola) = Len(a) + 1 + Len(b)
    BY <2>1, <2>3, ConcatProperties
  <2>5. a \o b \in Seq(S) /\ Len(a \o b) = Len(a) + Len(b)
    BY ConcatProperties
  <2>6. Len(a) \in Nat /\ Len(b) \in Nat
    BY LenProperties
  <2>7. RemoveFirst(cola, p) \in Seq(S) /\ Len(RemoveFirst(cola, p)) = Len(a) + Len(b)
    BY <2>1, <2>5
  <2>8. QED
    BY <2>4, <2>6, <2>7
<1>3. CASE p \notin ToSet(cola)
  BY <1>1, <1>3 DEF RemoveFirst, ToSet
<1>4. QED
  BY <1>2, <1>3

-----------------------------------------------------------------------------
(* How many times p is in a list.  Each of the modules with properties has *)
(* the same count under the name Veces.                                    *)
Ocurrencias(p, cola) == Cardinality({i \in DOMAIN cola : cola[i] = p})

Cuenta(condicion) == IF condicion THEN 1 ELSE 0

(* The count is a number, and it is 0 when p is not in the list.           *)
LEMMA OcurrenciasNat ==
  ASSUME NEW S, NEW cola \in Seq(S), NEW p
  PROVE  /\ IsFiniteSet({i \in DOMAIN cola : cola[i] = p})
         /\ Ocurrencias(p, cola) \in Nat
         /\ Ocurrencias(p, cola) = 0 <=> \A i \in DOMAIN cola : cola[i] # p
         /\ Ocurrencias(p, cola) > 0 <=> p \in ToSet(cola)
<1> DEFINE I == {i \in DOMAIN cola : cola[i] = p}
<1>1. DOMAIN cola = 1 .. Len(cola) /\ Len(cola) \in Nat
  BY LenProperties
<1>2. IsFiniteSet(DOMAIN cola)
  BY <1>1, FS_Interval
<1>3. IsFiniteSet(I)
  BY <1>2, FS_Subset
<1>4. Cardinality(I) \in Nat /\ (Cardinality(I) = 0 <=> I = {})
  BY <1>3, FS_CardinalityType, FS_EmptySet
<1>5. I = {} <=> \A i \in DOMAIN cola : cola[i] # p
  OBVIOUS
<1>6. I # {} <=> p \in ToSet(cola)
  BY DEF ToSet
<1>7. Cardinality(I) > 0 <=> I # {}
  BY <1>4
<1>8. QED
  BY <1>3, <1>4, <1>5, <1>6, <1>7 DEF Ocurrencias

(* A list of one element.                                                  *)
LEMMA OcurrenciasUno ==
  ASSUME NEW p, NEW e
  PROVE  Ocurrencias(p, <<e>>) = Cuenta(e = p)
<1>1. DOMAIN <<e>> = {1} /\ <<e>>[1] = e
  OBVIOUS
<1>2. CASE e = p
  <2>1. {i \in DOMAIN <<e>> : <<e>>[i] = p} = {1}
    BY <1>1, <1>2
  <2>2. QED
    BY <1>2, <2>1, FS_Singleton DEF Ocurrencias, Cuenta
<1>3. CASE e # p
  <2>1. {i \in DOMAIN <<e>> : <<e>>[i] = p} = {}
    BY <1>1, <1>3
  <2>2. QED
    BY <1>3, <2>1, FS_EmptySet DEF Ocurrencias, Cuenta
<1>4. QED
  BY <1>2, <1>3

(* A list after another one.                                               *)
LEMMA OcurrenciasConcat ==
  ASSUME NEW S, NEW a \in Seq(S), NEW b \in Seq(S), NEW p
  PROVE  Ocurrencias(p, a \o b) = Ocurrencias(p, a) + Ocurrencias(p, b)
<1> DEFINE A == {i \in DOMAIN a : a[i] = p}
           B == {i \in DOMAIN b : b[i] = p}
           C == {i \in DOMAIN (a \o b) : (a \o b)[i] = p}
           D == {i \in C : i > Len(a)}
           f == [i \in B |-> i + Len(a)]
<1>1. /\ DOMAIN a = 1 .. Len(a) /\ Len(a) \in Nat
      /\ DOMAIN b = 1 .. Len(b) /\ Len(b) \in Nat
  BY LenProperties
<1>2. /\ a \o b \in Seq(S) /\ Len(a \o b) = Len(a) + Len(b)
      /\ \A i \in 1 .. Len(a) + Len(b) :
           (a \o b)[i] = IF i <= Len(a) THEN a[i] ELSE b[i - Len(a)]
  BY ConcatProperties
<1>3. DOMAIN (a \o b) = 1 .. Len(a) + Len(b)
  BY <1>2, LenProperties
<1>4. IsFiniteSet(A) /\ IsFiniteSet(B) /\ IsFiniteSet(C)
  BY <1>2, OcurrenciasNat
<1>5. f \in [B -> D]
  BY <1>1, <1>2, <1>3
<1>6. \A i, j \in B : f[i] = f[j] => i = j
  BY <1>1
<1>7. \A d \in D : \E i \in B : f[i] = d
  <2>1. TAKE d \in D
  <2>2. d - Len(a) \in B
    BY <1>1, <1>2, <1>3
  <2>3. f[d - Len(a)] = d
    BY <2>2, <1>1, <1>3
  <2>4. QED
    BY <2>2, <2>3
<1>8. ExistsBijection(B, D)
  <2> HIDE DEF f, B, D
  <2>1. f \in Bijection(B, D)
    BY <1>5, <1>6, <1>7, Fun_IsBij
  <2>2. QED
    BY <2>1, Fun_ExistsBij
<1>9. IsFiniteSet(D) /\ Cardinality(D) = Cardinality(B)
  BY <1>4, <1>8, FS_Bijection
<1>10. C = A \cup D
  BY <1>1, <1>2, <1>3
<1>11. A \cap D = {}
  BY <1>1
<1>12. Cardinality(C) = Cardinality(A) + Cardinality(D) - Cardinality({})
  <2> HIDE DEF A, C, D
  <2>1. QED
    BY <1>4, <1>9, <1>10, <1>11, FS_Union
<1>13. Cardinality(A) \in Nat /\ Cardinality(B) \in Nat /\ Cardinality({}) = 0
  BY <1>4, FS_CardinalityType, FS_EmptySet
<1>14. Cardinality(C) = Cardinality(A) + Cardinality(B)
  <2> HIDE DEF A, B, C, D
  <2> QED  BY <1>9, <1>12, <1>13
<1>15. QED
  BY <1>14 DEF Ocurrencias

(* What the steps of the threads do to a count: list_add, ...              *)
LEMMA OcurrenciasAppend ==
  ASSUME NEW S, NEW cola \in Seq(S), NEW e \in S, NEW p
  PROVE  Ocurrencias(p, Append(cola, e)) = Ocurrencias(p, cola) + Cuenta(e = p)
<1>1. Append(cola, e) = cola \o <<e>> /\ <<e>> \in Seq(S)
  BY AppendIsConcat
<1>2. Ocurrencias(p, cola \o <<e>>) = Ocurrencias(p, cola) + Ocurrencias(p, <<e>>)
  BY <1>1, OcurrenciasConcat
<1>3. Ocurrencias(p, <<e>>) = Cuenta(e = p)
  BY OcurrenciasUno
<1>4. QED
  BY <1>1, <1>2, <1>3

(* ... list_remove of the first, ...                                       *)
LEMMA OcurrenciasTail ==
  ASSUME NEW S, NEW cola \in Seq(S), cola # <<>>, NEW p
  PROVE  Ocurrencias(p, cola) = Ocurrencias(p, Tail(cola)) + Cuenta(Head(cola) = p)
<1>1. Head(cola) \in S /\ Tail(cola) \in Seq(S)
  BY HeadTailProperties
<1>2. cola = <<Head(cola)>> \o Tail(cola)
  <2>1. <<Head(cola)>> \in Seq(S) /\ Len(<<Head(cola)>>) = 1
    BY <1>1
  <2>2. /\ Len(cola) \in Nat \ {0} /\ Len(Tail(cola)) = Len(cola) - 1
        /\ \A i \in 1 .. Len(Tail(cola)) : Tail(cola)[i] = cola[i + 1]
        /\ Head(cola) = cola[1]
    BY HeadTailProperties, EmptySeq
  <2> DEFINE h == <<Head(cola)>>
             t == Tail(cola)
  <2>3. h[1] = cola[1]
    BY <2>2
  <2> HIDE DEF h, t
  <2>4. /\ h \o t \in Seq(S) /\ Len(h \o t) = Len(h) + Len(t)
        /\ \A i \in 1 .. Len(h) + Len(t) : (h \o t)[i] = IF i <= Len(h) THEN h[i] ELSE t[i - Len(h)]
    BY <1>1, <2>1, ConcatProperties DEF h, t
  <2>5. Len(h) = 1 /\ Len(t) = Len(cola) - 1 /\ \A i \in 1 .. Len(t) : t[i] = cola[i + 1]
    BY <2>1, <2>2 DEF h, t
  <2>6. \A i \in 1 .. Len(cola) : (h \o t)[i] = cola[i]
    BY <2>2, <2>3, <2>4, <2>5
  <2>7. h \o t = cola
    <3>1. Len(h \o t) = Len(cola)
      BY <2>2, <2>4, <2>5
    <3>2. QED
      BY <2>4, <2>6, <3>1, SeqEqual
  <2>8. QED
    BY <2>7 DEF h, t
<1>3. <<Head(cola)>> \in Seq(S)
  BY <1>1
<1>4. Ocurrencias(p, cola) = Ocurrencias(p, <<Head(cola)>>) + Ocurrencias(p, Tail(cola))
  BY <1>1, <1>2, <1>3, OcurrenciasConcat
<1>5. Ocurrencias(p, Tail(cola)) \in Nat /\ Cuenta(Head(cola) = p) \in Nat
  BY <1>1, OcurrenciasNat DEF Cuenta
<1>6. QED
  BY <1>4, <1>5, OcurrenciasUno

(* ... and list_remove of the one that is p.                               *)
LEMMA OcurrenciasRemoveFirst ==
  ASSUME NEW S, NEW cola \in Seq(S), NEW p, NEW q
  PROVE  Ocurrencias(q, RemoveFirst(cola, p))
           = Ocurrencias(q, cola) - Cuenta(q = p /\ p \in ToSet(cola))
<1>1. Ocurrencias(q, cola) \in Nat
  BY OcurrenciasNat
<1>2. CASE p \in ToSet(cola)
  <2>1. PICK a, b \in Seq(S) : /\ cola = a \o <<p>> \o b
                              /\ RemoveFirst(cola, p) = a \o b
                              /\ p \notin ToSet(a)
    BY <1>2, RemoveFirstParte
  <2>2. p \in S
    BY <1>2, ElementOfSeq, LenProperties DEF ToSet
  <2>3. <<p>> \in Seq(S) /\ a \o <<p>> \in Seq(S)
    BY <2>2, ConcatProperties
  <2>4. Ocurrencias(q, cola) = Ocurrencias(q, a) + Cuenta(p = q) + Ocurrencias(q, b)
    <3>1. Ocurrencias(q, a \o <<p>> \o b) = Ocurrencias(q, a \o <<p>>) + Ocurrencias(q, b)
      BY <2>3, OcurrenciasConcat
    <3>2. Ocurrencias(q, a \o <<p>>) = Ocurrencias(q, a) + Ocurrencias(q, <<p>>)
      BY <2>3, OcurrenciasConcat
    <3>3. Ocurrencias(q, <<p>>) = Cuenta(p = q)
      BY OcurrenciasUno
    <3>4. QED
      BY <2>1, <3>1, <3>2, <3>3
  <2>5. Ocurrencias(q, RemoveFirst(cola, p)) = Ocurrencias(q, a) + Ocurrencias(q, b)
    <3>1. Ocurrencias(q, a \o b) = Ocurrencias(q, a) + Ocurrencias(q, b)
      BY OcurrenciasConcat
    <3>2. QED
      BY <2>1, <3>1
  <2>6. Ocurrencias(q, a) \in Nat /\ Ocurrencias(q, b) \in Nat
    BY OcurrenciasNat
  <2>7. QED
    BY <1>2, <2>4, <2>5, <2>6 DEF Cuenta
<1>3. CASE p \notin ToSet(cola)
  <2>1. RemoveFirst(cola, p) = cola
    BY <1>3, LenProperties DEF RemoveFirst, ToSet
  <2>2. QED
    BY <1>1, <1>3, <2>1 DEF Cuenta
<1>4. QED
  BY <1>2, <1>3

(* A list of none or one.                                                  *)
LEMMA OcurrenciasCorta ==
  ASSUME NEW S, NEW cola \in Seq(S), NEW p
  PROVE  /\ Len(cola) = 0 => Ocurrencias(p, cola) = 0
         /\ Len(cola) = 1 => Ocurrencias(p, cola) = Cuenta(Head(cola) = p)
<1>2. \A c \in Seq(S) : Len(c) = 0 => Ocurrencias(p, c) = 0
  <2>1. SUFFICES ASSUME NEW c \in Seq(S), Len(c) = 0
                 PROVE  Ocurrencias(p, c) = 0
    OBVIOUS
  <2>2. \A i \in DOMAIN c : c[i] # p
    BY <2>1, LenProperties
  <2>3. QED
    BY <2>2, OcurrenciasNat
<1>3. ASSUME Len(cola) = 1
      PROVE  Ocurrencias(p, cola) = Cuenta(Head(cola) = p)
  <2>1. cola # <<>>
    BY <1>3
  <2>2. Tail(cola) \in Seq(S) /\ Len(Tail(cola)) = 0
    BY <1>3, <2>1, HeadTailProperties
  <2>3. Ocurrencias(p, Tail(cola)) = 0
    BY <1>2, <2>2
  <2>4. Ocurrencias(p, cola) = 0 + Cuenta(Head(cola) = p)
    BY <2>1, <2>3, OcurrenciasTail
  <2>5. QED
    BY <2>4 DEF Cuenta
<1>4. QED
  BY <1>2, <1>3

(* A list with each element of a finite set, once.                         *)
LEMMA EnumeracionOcurrencias ==
  ASSUME NEW S, IsFiniteSet(S), NEW s \in [1 .. Cardinality(S) -> S], IsInjective(s)
  PROVE  /\ s \in Seq(S) /\ Len(s) = Cardinality(S)
         /\ \A p \in S : Ocurrencias(p, s) = 1
<1> DEFINE n == Cardinality(S)
<1>1. n \in Nat
  BY FS_CardinalityType
<1>2. s \in [1 .. n -> S]
  OBVIOUS
<1> HIDE DEF n
<1>3. s \in Seq(S) /\ Len(s) = n /\ DOMAIN s = 1 .. n
  BY <1>1, <1>2
<1>4. \A p \in S : Ocurrencias(p, s) = 1
  <2>1. TAKE p \in S
  <2>2. \E i \in 1 .. n : s[i] = p
    <3>1. s \in Injection(1 .. n, S)
      BY <1>2, Fun_IsInj DEF IsInjective
    <3>2. IsFiniteSet(1 .. n) /\ Cardinality(1 .. n) = n
      BY <1>1, FS_Interval
    <3>3. s \in Surjection(1 .. n, S)
      BY <3>1, <3>2, FS_Injection DEF n
    <3>4. QED
      BY <3>3 DEF Surjection
  <2>3. PICK i \in 1 .. n : s[i] = p
    BY <2>2
  <2>4. {j \in DOMAIN s : s[j] = p} = {i}
    BY <1>3, <2>3 DEF IsInjective
  <2>5. QED
    BY <2>4, FS_Singleton DEF Ocurrencias
<1>5. QED
  BY <1>3, <1>4 DEF n

LEMMA SetToSeqOcurrencias ==
  ASSUME NEW S, IsFiniteSet(S)
  PROVE  /\ SetToSeq(S) \in Seq(S)
         /\ Len(SetToSeq(S)) = Cardinality(S)
         /\ \A p \in S : Ocurrencias(p, SetToSeq(S)) = 1
<1> DEFINE n == Cardinality(S)
           s == SetToSeq(S)
<1>1. n \in Nat /\ ExistsBijection(1 .. n, S)
  BY FS_CardinalityType
<1>2. PICK f \in Bijection(1 .. n, S) : TRUE
  BY <1>1, Fun_ExistsBij
<1>3. f \in [1 .. n -> S] /\ IsInjective(f)
  BY <1>2, Fun_BijectionProperties DEF Bijection, Injection, IsInjective
<1>4. s \in [1 .. n -> S] /\ IsInjective(s)
  BY <1>3 DEF SetToSeq
<1>5. QED
  BY <1>4, EnumeracionOcurrencias

LEMMA SetToSeqsOcurrencias ==
  ASSUME NEW S, IsFiniteSet(S), NEW s \in SetToSeqs(S)
  PROVE  /\ s \in Seq(S) /\ Len(s) = Cardinality(S)
         /\ \A p \in S : Ocurrencias(p, s) = 1
<1>1. s \in [1 .. Cardinality(S) -> S] /\ IsInjective(s)
  BY DEF SetToSeqs, IsInjective
<1>2. QED
  BY <1>1, EnumeracionOcurrencias

-----------------------------------------------------------------------------
(* The PIDs of the messages of a socket, in its order.                     *)
LosPid(s) == [i \in DOMAIN s |-> s[i].pid]

LEMMA LosPidTipo ==
  ASSUME NEW S, NEW T, \A m \in S : m.pid \in T, NEW s \in Seq(S)
  PROVE  LosPid(s) \in Seq(T) /\ Len(LosPid(s)) = Len(s)
<1>1. DOMAIN s = 1 .. Len(s) /\ Len(s) \in Nat /\ \A i \in 1 .. Len(s) : s[i] \in S
  BY LenProperties, ElementOfSeq
<1>2. LosPid(s) \in [1 .. Len(s) -> T]
  BY <1>1 DEF LosPid
<1>3. QED
  BY <1>1, <1>2

LEMMA LosPidAppend ==
  ASSUME NEW S, NEW T, \A m \in S : m.pid \in T, NEW s \in Seq(S), NEW m \in S
  PROVE  LosPid(Append(s, m)) = Append(LosPid(s), m.pid)
<1> DEFINE a == Append(s, m)
           l == LosPid(a)
           r == Append(LosPid(s), m.pid)
<1>1. a \in Seq(S) /\ Len(a) = Len(s) + 1 /\ Len(s) \in Nat
  BY AppendProperties, LenProperties
<1>2. /\ \A i \in 1 .. Len(s) : a[i] = s[i]
      /\ a[Len(s) + 1] = m
  BY AppendProperties
<1>3. LosPid(s) \in Seq(T) /\ Len(LosPid(s)) = Len(s) /\ m.pid \in T
  BY LosPidTipo
<1>4. /\ r \in Seq(T) /\ Len(r) = Len(s) + 1
      /\ \A i \in 1 .. Len(s) : r[i] = LosPid(s)[i]
      /\ r[Len(s) + 1] = m.pid
  BY <1>3, AppendProperties
<1>5. l \in Seq(T) /\ Len(l) = Len(s) + 1
  BY <1>1, LosPidTipo
<1>6. DOMAIN s = 1 .. Len(s) /\ DOMAIN a = 1 .. Len(s) + 1
  BY <1>1, LenProperties
<1> HIDE DEF a
<1>7. \A i \in 1 .. Len(s) + 1 : l[i] = a[i].pid
  BY <1>6 DEF LosPid
<1>8. \A i \in 1 .. Len(s) : LosPid(s)[i] = s[i].pid
  BY <1>6 DEF LosPid
<1> HIDE DEF l, r
<1>9. \A i \in 1 .. Len(s) + 1 : l[i] = r[i]
  BY <1>1, <1>2, <1>4, <1>7, <1>8
<1>10. l = r
  BY <1>4, <1>5, <1>9, SeqEqual
<1>11. QED
  BY <1>10 DEF l, r, a

LEMMA LosPidTail ==
  ASSUME NEW S, NEW T, \A m \in S : m.pid \in T, NEW s \in Seq(S), s # <<>>
  PROVE  /\ LosPid(Tail(s)) = Tail(LosPid(s))
         /\ LosPid(s) # <<>> /\ Head(LosPid(s)) = Head(s).pid
<1> DEFINE t == Tail(s)
           q == LosPid(s)
           l == LosPid(t)
           r == Tail(q)
<1>1. /\ t \in Seq(S) /\ Len(t) = Len(s) - 1 /\ Len(s) \in Nat \ {0}
      /\ \A i \in 1 .. Len(t) : t[i] = s[i + 1]
  BY HeadTailProperties, EmptySeq
<1>2. q \in Seq(T) /\ Len(q) = Len(s)
  BY LosPidTipo
<1>3. l \in Seq(T) /\ Len(l) = Len(s) - 1
  BY <1>1, LosPidTipo
<1>4. DOMAIN s = 1 .. Len(s) /\ DOMAIN t = 1 .. Len(s) - 1
  BY <1>1, LenProperties
<1>5. \A i \in 1 .. Len(s) : q[i] = s[i].pid
  BY <1>4 DEF LosPid
<1> HIDE DEF t
<1>6. \A i \in 1 .. Len(s) - 1 : l[i] = t[i].pid
  BY <1>4 DEF LosPid
<1> HIDE DEF q, l
<1>7. q # <<>> /\ Head(q) = q[1] /\ Head(s) = s[1]
  BY <1>1, <1>2
<1>8. /\ r \in Seq(T) /\ Len(r) = Len(s) - 1
      /\ \A i \in 1 .. Len(r) : r[i] = q[i + 1]
  BY <1>2, <1>7, HeadTailProperties
<1> HIDE DEF r
<1>9. ASSUME NEW i \in 1 .. Len(s) - 1
      PROVE  l[i] = r[i]
  <2>1. i + 1 \in 1 .. Len(s) /\ i \in 1 .. Len(r) /\ i \in 1 .. Len(t)
    BY <1>1, <1>8
  <2>2. l[i] = t[i].pid /\ t[i] = s[i + 1] /\ r[i] = q[i + 1]
    BY <1>1, <1>6, <1>8, <2>1
  <2>3. QED
    BY <1>5, <2>1, <2>2
<1>10. l = r
  BY <1>3, <1>8, <1>9, SeqEqual
<1>11. Head(q) = Head(s).pid
  BY <1>1, <1>5, <1>7
<1>12. QED
  BY <1>7, <1>10, <1>11 DEF l, r, q, t

-----------------------------------------------------------------------------
(* Induction, on a set of numbers and not on an operator.                  *)
LEMMA Minimo ==
  ASSUME NEW T, T \subseteq Nat, T # {}
  PROVE  \E x \in T : \A y \in T : x <= y
<1> DEFINE R == {ss \in Nat \X Nat : ss[1] < ss[2]}
<1>1. IsWellFoundedOn(R, Nat)
  BY NatLessThanWellFounded DEF OpToRel
<1>2. PICK x \in T : \A y \in T : ~(<<y, x>> \in R)
  <2> HIDE DEF R
  <2>1. QED
    BY <1>1, WFMin
<1>3. ASSUME NEW y \in T
      PROVE  x <= y
  <2>1. x \in Nat /\ y \in Nat /\ ~(<<y, x>> \in R)
    BY <1>2
  <2>2. ~(y < x)
    BY <2>1
  <2>3. QED
    BY <2>1, <2>2
<1>4. QED
  BY <1>3

LEMMA Induccion ==
  ASSUME NEW T, 0 \in T, \A n \in Nat : n \in T => n + 1 \in T
  PROVE  Nat \subseteq T
<1>1. SUFFICES ASSUME Nat \ T # {} PROVE FALSE
  OBVIOUS
<1>2. PICK m \in Nat \ T : \A k \in Nat \ T : m <= k
  BY <1>1, Minimo
<1>3. m # 0 /\ m - 1 \in Nat
  BY <1>2
<1>4. m - 1 \in T
  BY <1>2, <1>3
<1>5. QED
  BY <1>2, <1>3, <1>4

(* Running sums.                                                           *)
EsSuma(s, f, N) == s = [n \in 0 .. N |-> IF n = 0 THEN 0 ELSE s[n - 1] + f[n]]

LEMMA SumaExiste ==
  ASSUME NEW f, NEW N \in Nat
  PROVE  \E s : EsSuma(s, f, N)
<1> DEFINE T == {n \in Nat : \E s : EsSuma(s, f, n)}
<1>1. 0 \in T
  <2>1. EsSuma([n \in 0 .. 0 |-> 0], f, 0)
    BY DEF EsSuma
  <2>2. QED
    BY <2>1
<1>2. ASSUME NEW n \in Nat, n \in T
      PROVE  n + 1 \in T
  <2>1. PICK s : EsSuma(s, f, n)
    BY <1>2
  <2> DEFINE t == [k \in 0 .. n + 1 |-> IF k = n + 1 THEN s[n] + f[n + 1] ELSE s[k]]
  <2>2. ASSUME NEW k \in 0 .. n + 1
        PROVE  t[k] = IF k = 0 THEN 0 ELSE t[k - 1] + f[k]
    <3>1. CASE k = n + 1
      BY <3>1
    <3>2. CASE k # n + 1
      <4>1. k \in 0 .. n /\ t[k] = s[k] /\ (k # 0 => k - 1 \in 0 .. n /\ t[k - 1] = s[k - 1])
        BY <3>2
      <4>2. s[k] = IF k = 0 THEN 0 ELSE s[k - 1] + f[k]
        BY <2>1, <4>1 DEF EsSuma
      <4>3. QED
        BY <4>1, <4>2
    <3>3. QED
      BY <3>1, <3>2
  <2>3. t = [k \in 0 .. n + 1 |-> IF k = 0 THEN 0 ELSE t[k - 1] + f[k]]
    <3> HIDE DEF t
    <3>1. t = [k \in 0 .. n + 1 |-> t[k]]
      BY DEF t
    <3>2. QED
      BY <2>2, <3>1
  <2>4. EsSuma(t, f, n + 1)
    BY <2>3 DEF EsSuma
  <2>5. QED
    BY <2>4
<1>3. Nat \subseteq T
  <2> HIDE DEF T
  <2>1. QED
    BY <1>1, <1>2, Induccion
<1>4. QED
  BY <1>3

(* A sum of zeros, and one of which a single term changes.                 *)
LEMMA SumaDeCeros ==
  ASSUME NEW N \in Nat, NEW f, NEW s, EsSuma(s, f, N), \A n \in 1 .. N : f[n] = 0
  PROVE  s[N] = 0
<1> DEFINE T == {n \in Nat : n <= N => s[n] = 0}
<1>1. 0 \in T
  BY DEF EsSuma
<1>2. ASSUME NEW n \in Nat, n \in T
      PROVE  n + 1 \in T
  <2>1. ASSUME n + 1 <= N
        PROVE  s[n + 1] = 0
    <3>1. n <= N /\ n + 1 \in 0 .. N /\ n + 1 # 0 /\ (n + 1) - 1 = n /\ n + 1 \in 1 .. N
      BY <2>1
    <3>2. s[n + 1] = s[n] + f[n + 1]
      BY <3>1 DEF EsSuma
    <3>3. QED
      BY <1>2, <3>1, <3>2
  <2>2. QED
    BY <2>1
<1>3. Nat \subseteq T
  <2> HIDE DEF T
  <2>1. QED
    BY <1>1, <1>2, Induccion
<1>4. QED
  BY <1>3

LEMMA SumaCambia ==
  ASSUME NEW N \in Nat, NEW f, NEW g, \A n \in 1 .. N : f[n] \in Nat /\ g[n] \in Nat,
         NEW s, NEW t, EsSuma(s, f, N), EsSuma(t, g, N),
         NEW p \in 1 .. N, \A q \in (1 .. N) \ {p} : g[q] = f[q]
  PROVE  s[N] \in Int /\ t[N] = s[N] - f[p] + g[p]
<1> DEFINE T == {n \in Nat : n <= N => s[n] \in Int /\ t[n] = IF n < p THEN s[n] ELSE s[n] - f[p] + g[p]}
<1>1. 0 \in T
  BY DEF EsSuma
<1>2. ASSUME NEW n \in Nat, n \in T
      PROVE  n + 1 \in T
  <2>1. ASSUME n + 1 <= N
        PROVE  s[n + 1] \in Int /\ t[n + 1] = IF n + 1 < p THEN s[n + 1] ELSE s[n + 1] - f[p] + g[p]
    <3>1. n <= N /\ n + 1 \in 0 .. N /\ n + 1 # 0 /\ (n + 1) - 1 = n /\ n + 1 \in 1 .. N
      BY <2>1
    <3>2. s[n + 1] = s[n] + f[n + 1] /\ t[n + 1] = t[n] + g[n + 1]
      BY <3>1 DEF EsSuma
    <3>3. s[n] \in Int /\ t[n] = IF n < p THEN s[n] ELSE s[n] - f[p] + g[p]
      BY <1>2, <3>1
    <3>4. PICK a, b, c, d, e \in Int : /\ a = s[n] /\ b = f[n + 1] /\ c = g[n + 1]
                                       /\ d = f[p] /\ e = g[p]
      <4>1. f[n + 1] \in Int /\ g[n + 1] \in Int /\ f[p] \in Int /\ g[p] \in Int
        BY <3>1
      <4>2. QED
        BY <3>3, <4>1
    <3>5. CASE n + 1 < p
      <4>1. n < p /\ c = b
        BY <3>1, <3>4, <3>5
      <4>2. QED
        BY <3>2, <3>3, <3>4, <3>5, <4>1
    <3>6. CASE n + 1 = p
      BY <3>2, <3>3, <3>4, <3>6
    <3>7. CASE n + 1 > p
      <4>1. ~(n < p) /\ c = b
        BY <3>1, <3>4, <3>7
      <4>2. QED
        BY <3>2, <3>3, <3>4, <3>7, <4>1
    <3>8. QED
      BY <3>5, <3>6, <3>7
  <2>2. QED
    BY <2>1
<1>3. Nat \subseteq T
  <2> HIDE DEF T
  <2>1. QED
    BY <1>1, <1>2, Induccion
<1>4. QED
  BY <1>3

(* The greatest of a set of numbers with a bound.                          *)
LEMMA MaximoDe ==
  ASSUME NEW n \in Nat, NEW T, T \subseteq 0 .. n, T # {}
  PROVE  Max(T) \in T /\ \A x \in T : x <= Max(T)
<1> DEFINE R == {n - x : x \in T}
<1>1. R \subseteq Nat /\ R # {}
  <2>1. ASSUME NEW x \in T
        PROVE  n - x \in Nat
    BY x \in 0 .. n
  <2>2. QED
    BY <2>1
<1>2. PICK m \in R : \A y \in R : m <= y
  <2> HIDE DEF R
  <2>1. QED
    BY <1>1, Minimo
<1>3. PICK x \in T : m = n - x
  BY <1>2
<1>4. \A y \in T : x >= y
  <2>1. TAKE y \in T
  <2>2. n - y \in R
    OBVIOUS
  <2>3. m <= n - y /\ y \in Int /\ x \in Int
    BY <1>2, <2>2
  <2>4. QED
    BY <1>3, <2>3
<1>5. \E z \in T : \A y \in T : z >= y
  BY <1>4
<1>6. Max(T) \in T /\ \A y \in T : Max(T) >= y
  BY <1>5 DEF Max
<1>7. QED
  BY <1>6

(* What a fold over the elements of a list, from the last one, computes.   *)
EsPliegue(g, f, n) ==
  g = [s \in SUBSET (1 .. n) |-> IF s = {} THEN 0 ELSE g[s \ {Max(s)}] + f[Max(s)]]

LEMMA PliegueExiste ==
  ASSUME NEW f, NEW N \in Nat
  PROVE  \E g : EsPliegue(g, f, N)
<1> DEFINE T == {n \in Nat : \E g : EsPliegue(g, f, n)}
<1>1. 0 \in T
  <2> DEFINE g == [s \in SUBSET (1 .. 0) |-> 0]
  <2>1. \A s \in SUBSET (1 .. 0) : s = {}
    OBVIOUS
  <2>2. g = [s \in SUBSET (1 .. 0) |-> IF s = {} THEN 0 ELSE g[s \ {Max(s)}] + f[Max(s)]]
    BY <2>1
  <2>3. EsPliegue(g, f, 0)
    BY <2>2 DEF EsPliegue
  <2>4. QED
    BY <2>3
<1>2. ASSUME NEW n \in Nat, n \in T
      PROVE  n + 1 \in T
  <2>1. PICK g : EsPliegue(g, f, n)
    BY <1>2
  <2> DEFINE D == SUBSET (1 .. n + 1)
             h == [s \in D |-> IF n + 1 \in s THEN g[s \ {n + 1}] + f[n + 1] ELSE g[s]]
  <2>2. ASSUME NEW s \in D
        PROVE  h[s] = IF s = {} THEN 0 ELSE h[s \ {Max(s)}] + f[Max(s)]
    <3>1. CASE s = {}
      <4>1. h[s] = g[s] /\ s \in SUBSET (1 .. n)
        BY <3>1
      <4>2. g[s] = 0
        BY <2>1, <3>1, <4>1 DEF EsPliegue
      <4>3. QED
        BY <3>1, <4>1, <4>2
    <3>2. CASE s # {}
      <4>1. s \subseteq 0 .. n + 1 /\ n + 1 \in Nat
        OBVIOUS
      <4>2. PICK m : m = Max(s) /\ m \in s /\ \A x \in s : x <= m
        BY <3>2, <4>1, MaximoDe
      <4>3. CASE n + 1 \in s
        <5>1. m = n + 1
          BY <4>1, <4>2, <4>3
        <5>2. s \ {m} \in D /\ n + 1 \notin s \ {m}
          BY <5>1
        <5>3. h[s \ {m}] = g[s \ {m}]
          BY <5>2
        <5>4. h[s] = g[s \ {m}] + f[m]
          BY <4>3, <5>1
        <5>5. QED
          BY <3>2, <4>2, <5>3, <5>4
      <4>4. CASE n + 1 \notin s
        <5>5. \A x \in s : x \in 1 .. n
          <6>1. TAKE x \in s
          <6>2. x \in 1 .. n + 1 /\ x # n + 1
            BY <4>4
          <6>3. QED
            BY <6>2
        <5>1. s \in SUBSET (1 .. n) /\ s \ {m} \in D /\ n + 1 \notin s \ {m}
          BY <4>4, <5>5
        <5>2. h[s] = g[s] /\ h[s \ {m}] = g[s \ {m}]
          BY <4>4, <5>1
        <5>3. g[s] = g[s \ {m}] + f[m]
          BY <2>1, <3>2, <4>2, <5>1 DEF EsPliegue
        <5>4. QED
          BY <3>2, <4>2, <5>2, <5>3
      <4>5. QED
        BY <4>3, <4>4
    <3>3. QED
      BY <3>1, <3>2
  <2>3. h = [s \in D |-> IF s = {} THEN 0 ELSE h[s \ {Max(s)}] + f[Max(s)]]
    <3>1. h = [s \in D |-> h[s]]
      OBVIOUS
    <3> HIDE DEF h, D
    <3>2. QED
      BY <2>2, <3>1
  <2>4. EsPliegue(h, f, n + 1)
    <3> HIDE DEF h
    <3>1. QED
      BY <2>3 DEF EsPliegue
  <2>5. QED
    BY <2>4
<1>3. Nat \subseteq T
  <2> HIDE DEF T
  <2>1. QED
    BY <1>1, <1>2, Induccion
<1>4. QED
  BY <1>3

(* It is the running sum.                                                  *)
LEMMA PliegueSuma ==
  ASSUME NEW N \in Nat, NEW f, NEW s, EsSuma(s, f, N), NEW n \in 0 .. N, NEW g, EsPliegue(g, f, n)
  PROVE  g[1 .. n] = s[n]
<1> DEFINE T == {j \in Nat : j <= n => g[1 .. j] = s[j]}
<1>1. 0 \in T
  <2>1. 1 .. 0 = {} /\ g[{}] = 0
    BY DEF EsPliegue
  <2>2. s[0] = 0
    BY DEF EsSuma
  <2>3. QED
    BY <2>1, <2>2
<1>2. ASSUME NEW j \in Nat, j \in T
      PROVE  j + 1 \in T
  <2>1. SUFFICES ASSUME j + 1 <= n
                 PROVE  g[1 .. j + 1] = s[j + 1]
    OBVIOUS
  <2>2. g[1 .. j] = s[j] /\ j + 1 \in 0 .. N /\ j + 1 # 0 /\ (j + 1) - 1 = j
    BY <1>2, <2>1
  <2>3. Max(1 .. j + 1) = j + 1
    <3>1. 1 .. j + 1 \subseteq 0 .. j + 1 /\ 1 .. j + 1 # {} /\ j + 1 \in Nat
      BY DEF T
    <3>2. Max(1 .. j + 1) \in 1 .. j + 1 /\ \A x \in 1 .. j + 1 : x <= Max(1 .. j + 1)
      BY <3>1, MaximoDe
    <3>3. QED
      BY <3>2
  <2>4. (1 .. j + 1) \ {j + 1} = 1 .. j /\ 1 .. j + 1 \in SUBSET (1 .. n) /\ 1 .. j + 1 # {}
    BY <2>1
  <2>5. g[1 .. j + 1] = g[1 .. j] + f[j + 1]
    <3>1. \A z \in SUBSET (1 .. n) : z # {} => g[z] = g[z \ {Max(z)}] + f[Max(z)]
      BY DEF EsPliegue
    <3>2. QED
      BY <2>3, <2>4, <3>1
  <2>6. s[j + 1] = s[j] + f[j + 1]
    BY <2>2 DEF EsSuma
  <2>7. QED
    BY <2>2, <2>5, <2>6
<1>3. Nat \subseteq T
  <2> HIDE DEF T
  <2>1. QED
    BY <1>1, <1>2, Induccion
<1>4. QED
  BY <1>3

(* The running sum of numbers never decreases.                             *)
LEMMA SumaCrece ==
  ASSUME NEW N \in Nat, NEW f, \A n \in 1 .. N : f[n] \in Nat, NEW s, EsSuma(s, f, N)
  PROVE  /\ \A j \in 0 .. N : s[j] \in Nat
         /\ \A j \in 1 .. N : s[j] = s[j - 1] + f[j]
         /\ \A i, j \in 0 .. N : i <= j => s[i] <= s[j]
<1>1. s[0] = 0 /\ \A j \in 1 .. N : s[j] = s[j - 1] + f[j]
  BY DEF EsSuma
<1> DEFINE T == {j \in Nat : j <= N => s[j] \in Nat /\ \A i \in 0 .. j : s[i] \in Nat /\ s[i] <= s[j]}
<1>2. 0 \in T
  BY <1>1
<1>3. ASSUME NEW j \in Nat, j \in T
      PROVE  j + 1 \in T
  <2>1. SUFFICES ASSUME j + 1 <= N
                 PROVE  /\ s[j + 1] \in Nat
                        /\ \A i \in 0 .. j + 1 : s[i] \in Nat /\ s[i] <= s[j + 1]
    OBVIOUS
  <2>2. PICK a, b \in Nat : a = s[j] /\ b = f[j + 1]
    BY <1>3, <2>1
  <2>3. s[j + 1] = a + b
    BY <1>1, <2>1, <2>2
  <2>4. \A i \in 0 .. j : s[i] \in Nat /\ s[i] <= a
    BY <1>3, <2>1, <2>2
  <2>5. ASSUME NEW i \in 0 .. j + 1
        PROVE  s[i] \in Nat /\ s[i] <= s[j + 1]
    <3>1. CASE i = j + 1
      BY <2>3, <3>1
    <3>2. CASE i # j + 1
      BY <2>3, <2>4, <3>2
    <3>3. QED
      BY <3>1, <3>2
  <2>7. QED
    BY <2>3, <2>5
<1>4. Nat \subseteq T
  <2> HIDE DEF T
  <2>1. QED
    BY <1>2, <1>3, Induccion
<1>5. \A j \in 0 .. N : s[j] \in Nat /\ \A i \in 0 .. j : s[i] <= s[j]
  BY <1>4
<1>6. QED
  BY <1>1, <1>5

(* A list with nothing twice, seen as a function.                          *)
LEMMA SinRepetir ==
  ASSUME NEW S, NEW s \in Seq(S), \A p \in S : Ocurrencias(p, s) <= 1
  PROVE  IsInjective(s)
<1>1. SUFFICES ASSUME NEW i \in DOMAIN s, NEW j \in DOMAIN s, s[i] = s[j], i # j
               PROVE  FALSE
  BY DEF IsInjective
<1>2. s[i] \in S
  BY ElementOfSeq, LenProperties
<1>3. PICK A : A = {k \in DOMAIN s : s[k] = s[i]}
  OBVIOUS
<1>4. IsFiniteSet(A) /\ Cardinality(A) <= 1 /\ Cardinality(A) \in Nat
  BY <1>2, <1>3, OcurrenciasNat DEF Ocurrencias
<1>5. {i, j} \in SUBSET A
  BY <1>1, <1>3
<1>6. Cardinality({i} \cup {j}) = 2
  <2>1. PICK U : U = {i}
    OBVIOUS
  <2>2. IsFiniteSet(U) /\ Cardinality(U) = 1
    BY <2>1, FS_Singleton
  <2>3. j \notin U
    BY <1>1, <2>1
  <2>4. Cardinality(U \cup {j}) = Cardinality(U) + 1
    BY <2>2, <2>3, FS_AddElement
  <2>5. QED
    BY <2>1, <2>2, <2>4
<1>7. PICK U, c, d : U = {i} \cup {j} /\ c = Cardinality(U) /\ d = Cardinality(A)
  OBVIOUS
<1>8. U \subseteq A /\ c = 2 /\ d \in Nat /\ d <= 1
  BY <1>4, <1>5, <1>6, <1>7
<1>9. c <= d
  <2>1. U \in SUBSET A /\ IsFiniteSet(A)
    BY <1>4, <1>8
  <2>2. Cardinality(U) <= Cardinality(A)
    BY <2>1, FS_Subset, Zenon
  <2>3. QED
    BY <1>7, <2>2
<1>10. QED
  BY <1>8, <1>9

=============================================================================
