--------------------------- MODULE ManifestProofs ---------------------------
(***************************************************************************)
(* The manifest and its root.                                              *)
(*                                                                         *)
(* First Merkle trees, over any leaves: SHA-256 is the pair of what it      *)
(* hashes, so two hashes are equal when what they hash is.  Then the        *)
(* archives of imgfs and ott, and the migration of one to the other:        *)
(* invariants of the files line by line, what their loaders make of them,   *)
(* and that the root is kept.                                              *)
(***************************************************************************)
EXTENDS OttMigrate, Merkle, ProofBasics, FiniteSetTheorems

----------------------------------------------------------------------------
(* One layer and the layer above it.                                       *)

LEMMA Halves ==
    ASSUME NEW n \in Nat
    PROVE  /\ n % 2 \in {0, 1} /\ n \div 2 \in Nat /\ (n + 1) \div 2 \in Nat
           /\ n % 2 = 0 => n = 2 * (n \div 2) /\ n = 2 * ((n + 1) \div 2)
           /\ n % 2 = 1 => n = 2 * (n \div 2) + 1 /\ n + 1 = 2 * ((n + 1) \div 2)
  OBVIOUS

LEMMA PaddedFacts ==
    ASSUME NEW l, IsList(l), Len(l) >= 1
    PROVE  /\ IsList(Padded(l))
           /\ Len(Padded(l)) = 2 * ((Len(l) + 1) \div 2)
           /\ \A i \in 1 .. Len(l) : Padded(l)[i] = l[i]
           /\ \A i \in 1 .. Len(Padded(l)) : i > Len(l) =>
                 i = Len(l) + 1 /\ Len(l) % 2 = 1 /\ Padded(l)[i] = l[Len(l)]
<1>1. Len(l) \in Nat /\ DOMAIN l = 1 .. Len(l)
  BY ListFacts
<1>2. CASE Len(l) % 2 = 1
  <2>1. Padded(l) = Append(l, l[Len(l)])
    BY <1>2 DEF Padded
  <2>2. QED
    BY <1>1, <1>2, <2>1, AppendList
<1>3. CASE Len(l) % 2 # 1
  <2>1. Padded(l) = l
    BY <1>3 DEF Padded
  <2>2. Len(l) = 2 * ((Len(l) + 1) \div 2)
    BY <1>1, <1>3, Halves
  <2>3. \A i \in 1 .. Len(l) : ~(i > Len(l))
    BY <1>1
  <2>4. QED
    BY <1>1, <2>1, <2>2, <2>3
<1>4. QED
  BY <1>2, <1>3

LEMMA AboveFacts ==
    ASSUME NEW l, IsList(l), Len(l) >= 1
    PROVE  /\ IsList(Above(l))
           /\ Len(Above(l)) = (Len(l) + 1) \div 2
           /\ Len(Above(l)) >= 1
           /\ Len(l) > 1 => Len(Above(l)) < Len(l)
           /\ \A i \in 1 .. Len(Above(l)) :
                /\ 2 * i - 1 \in 1 .. Len(l) /\ 2 * i \in 1 .. Len(Padded(l))
                /\ Above(l)[i] = <<l[2 * i - 1], Padded(l)[2 * i]>>
<1> DEFINE even == Padded(l)
           n == Len(even) \div 2
<1>1. Len(l) \in Nat /\ DOMAIN l = 1 .. Len(l)
  BY ListFacts
<1>2. Len(even) = 2 * ((Len(l) + 1) \div 2) /\ \A i \in 1 .. Len(l) : even[i] = l[i]
  BY PaddedFacts
<1>3. Above(l) = [i \in 1 .. n |-> <<even[2 * i - 1], even[2 * i]>>]
  BY DEF Above
<1> HIDE DEF even
<1>4. n = (Len(l) + 1) \div 2 /\ n \in Nat
  BY <1>1, <1>2
<1>5. \A i \in 1 .. n : 2 * i - 1 \in 1 .. Len(l) /\ 2 * i \in 1 .. Len(even)
  BY <1>1, <1>2, <1>4
<1>6. \A i \in 1 .. n : Above(l)[i] = <<l[2 * i - 1], even[2 * i]>>
  BY <1>2, <1>3, <1>5
<1> HIDE DEF n
<1>7. Above(l) = [i \in 1 .. n |-> Above(l)[i]]
  BY <1>3
<1>8. IsList(Above(l)) /\ Len(Above(l)) = n
  BY <1>4, <1>7, ListOf
<1>9. Len(Above(l)) >= 1 /\ (Len(l) > 1 => Len(Above(l)) < Len(l))
  BY <1>1, <1>4, <1>8, Halves DEF n
<1>10. QED
  BY <1>4, <1>5, <1>6, <1>8, <1>9 DEF even

\* Two layers of one length that differ are below two that differ.
LEMMA AboveInjective ==
    ASSUME NEW l, NEW m, IsList(l), IsList(m), Len(l) >= 1, Len(l) = Len(m), l # m
    PROVE  Above(l) # Above(m)
<1>1. Len(l) \in Nat
  BY ListFacts
<1>2. PICK i \in 1 .. Len(l) : l[i] # m[i]
  BY ListsEqual
<1>3. PICK j \in 1 .. (Len(l) + 1) \div 2 : i = 2 * j - 1 \/ i = 2 * j
  <2>1. \A n \in Nat : i <= n =>
           \E j \in 1 .. (n + 1) \div 2 : i = 2 * j - 1 \/ i = 2 * j
    <3>1. i \in Nat /\ (i = 2 * ((i + 1) \div 2) - 1 \/ i = 2 * ((i + 1) \div 2))
      BY <1>1, Halves
    <3>2. \A n \in Nat : i <= n => (i + 1) \div 2 \in 1 .. (n + 1) \div 2
      BY <1>1
    <3>3. QED
      BY <3>1, <3>2
  <2>2. i <= Len(l)
    BY <1>1
  <2> DEFINE n == Len(l)
  <2>3. n \in Nat /\ i <= n
    BY <1>1, <2>2
  <2> HIDE DEF n
  <2>4. \E j \in 1 .. (n + 1) \div 2 : i = 2 * j - 1 \/ i = 2 * j
    BY <2>1, <2>3
  <2>5. QED
    BY <2>4 DEF n
<1>4. /\ Above(l)[j] = <<l[2 * j - 1], Padded(l)[2 * j]>>
      /\ Above(m)[j] = <<m[2 * j - 1], Padded(m)[2 * j]>>
  BY <1>3, AboveFacts
<1>5. CASE i = 2 * j - 1
  BY <1>2, <1>4, <1>5
<1>6. CASE i = 2 * j
  <2>1. Padded(l)[i] = l[i] /\ Padded(m)[i] = m[i]
    BY <1>2, PaddedFacts
  <2>2. QED
    BY <1>2, <1>4, <1>6, <2>1
<1>7. QED
  BY <1>3, <1>5, <1>6

----------------------------------------------------------------------------
(* The layers of a tree.                                                   *)

\* the recursion that defines Layers(ls), up to layer n
AreLayers(layer, ls, n) ==
    layer = [k \in 0 .. n |->
               IF k = 0 THEN ls
               ELSE IF Len(layer[k - 1]) > 1 THEN Above(layer[k - 1]) ELSE layer[k - 1]]

LEMMA LayersExist ==
    ASSUME NEW ls, NEW n \in Nat
    PROVE  \E layer : AreLayers(layer, ls, n)
<1> DEFINE S == {k \in Nat : \E layer : AreLayers(layer, ls, k)}
<1>1. 0 \in S
  <2>1. AreLayers([k \in 0 .. 0 |-> ls], ls, 0)
    BY DEF AreLayers
  <2>2. QED
    BY <2>1
<1>2. ASSUME NEW k \in Nat, k \in S PROVE k + 1 \in S
  <2>1. PICK layer : AreLayers(layer, ls, k)
    BY <1>2
  <2> DEFINE next == IF Len(layer[k]) > 1 THEN Above(layer[k]) ELSE layer[k]
             more == [j \in 0 .. k + 1 |-> IF j = k + 1 THEN next ELSE layer[j]]
  <2>2. \A j \in 0 .. k : layer[j] =
           IF j = 0 THEN ls
           ELSE IF Len(layer[j - 1]) > 1 THEN Above(layer[j - 1]) ELSE layer[j - 1]
    BY <2>1 DEF AreLayers
  <2>3. \A j \in 0 .. k : more[j] = layer[j]
    OBVIOUS
  <2>4. more[k + 1] = next
    OBVIOUS
  <2> HIDE DEF more
  <2>5. ASSUME NEW j \in 0 .. k + 1
        PROVE  more[j] =
                 IF j = 0 THEN ls
                 ELSE IF Len(more[j - 1]) > 1 THEN Above(more[j - 1]) ELSE more[j - 1]
    <3>1. CASE j = k + 1
      BY <2>3, <2>4, <3>1
    <3>2. CASE j = 0
      BY <2>2, <2>3, <3>2
    <3>3. CASE j \in 1 .. k
      BY <2>2, <2>3, <3>3
    <3>4. QED
      BY <3>1, <3>2, <3>3
  <2>6. more = [j \in 0 .. k + 1 |-> more[j]]
    BY DEF more
  <2>7. AreLayers(more, ls, k + 1)
    BY <2>5, <2>6 DEF AreLayers
  <2>8. QED
    BY <2>7
<1>3. QED
  BY <1>1, <1>2, AllNaturals

LEMMA LayersFacts ==
    ASSUME NEW ls, IsList(ls)
    PROVE  AreLayers(Layers(ls), ls, Len(ls))
<1>1. \E layer : AreLayers(layer, ls, Len(ls))
  BY ListFacts, LayersExist
<1>2. AreLayers(CHOOSE layer : AreLayers(layer, ls, Len(ls)), ls, Len(ls))
  BY <1>1
<1>3. QED
  BY <1>2 DEF Layers, AreLayers

LEMMA LayerStep ==
    ASSUME NEW ls, IsList(ls)
    PROVE  /\ Layers(ls)[0] = ls
           /\ \A n \in 0 .. Len(ls) - 1 :
                Layers(ls)[n + 1] = IF Len(Layers(ls)[n]) > 1 THEN Above(Layers(ls)[n])
                                    ELSE Layers(ls)[n]
<1> DEFINE L == Layers(ls)
<1>1. Len(ls) \in Nat
  BY ListFacts
<1>2. \A n \in 0 .. Len(ls) :
         L[n] = IF n = 0 THEN ls
                ELSE IF Len(L[n - 1]) > 1 THEN Above(L[n - 1]) ELSE L[n - 1]
  BY <1>1, LayersFacts DEF AreLayers
<1> HIDE DEF L
<1>3. L[0] = ls
  BY <1>1, <1>2
<1>4. ASSUME NEW n \in 0 .. Len(ls) - 1
      PROVE  L[n + 1] = IF Len(L[n]) > 1 THEN Above(L[n]) ELSE L[n]
  <2>1. n + 1 \in 0 .. Len(ls) /\ n + 1 # 0 /\ (n + 1) - 1 = n
    BY <1>1
  <2>2. QED
    BY <1>2, <2>1
<1>5. QED
  BY <1>3, <1>4 DEF L

\* Every layer of a tree with leaves has a node, and each has fewer than the last.
LEMMA LayersShrink ==
    ASSUME NEW ls, IsList(ls), Len(ls) >= 1, NEW n \in 0 .. Len(ls)
    PROVE  /\ IsList(Layers(ls)[n])
           /\ Len(Layers(ls)[n]) >= 1
           /\ Len(Layers(ls)[n]) = 1 \/ Len(Layers(ls)[n]) <= Len(ls) - n
<1> DEFINE L == Layers(ls)
           Fine(k) == /\ IsList(L[k]) /\ Len(L[k]) >= 1
                      /\ Len(L[k]) = 1 \/ Len(L[k]) <= Len(ls) - k
           S == {k \in Nat : k <= Len(ls) => Fine(k)}
<1>1. Len(ls) \in Nat
  BY ListFacts
<1>2. 0 \in S
  BY <1>1, LayerStep
<1>3. ASSUME NEW k \in Nat, k \in S PROVE k + 1 \in S
  <2>1. SUFFICES ASSUME k + 1 <= Len(ls) PROVE Fine(k + 1)
    OBVIOUS
  <2>2. k \in 0 .. Len(ls) - 1 /\ Fine(k)
    BY <1>1, <1>3, <2>1
  <2>3. L[k + 1] = IF Len(L[k]) > 1 THEN Above(L[k]) ELSE L[k]
    BY <2>2, LayerStep
  <2> DEFINE l == L[k]
             m == L[k + 1]
  <2>4. IsList(l) /\ Len(l) >= 1 /\ Len(l) \in Nat /\ (Len(l) = 1 \/ Len(l) <= Len(ls) - k)
    BY <2>2, ListFacts
  <2> HIDE DEF L
  <2>5. CASE Len(l) > 1
    <3>1. m = Above(l)
      BY <2>3, <2>5
    <3> HIDE DEF l, m
    <3>2. IsList(m) /\ Len(m) >= 1 /\ Len(m) < Len(l) /\ Len(m) \in Nat
      BY <2>4, <2>5, <3>1, AboveFacts, ListFacts
    <3>3. \A a, b, c \in Nat :
             (a = 1 \/ a <= c - k) /\ a > 1 /\ b < a => b <= c - (k + 1)
      OBVIOUS
    <3>4. Len(m) <= Len(ls) - (k + 1)
      BY <1>1, <2>4, <2>5, <3>2, <3>3
    <3>5. QED
      BY <3>2, <3>4 DEF m
  <2>6. CASE ~(Len(l) > 1)
    <3>1. \A c \in Nat : c >= 1 /\ ~(c > 1) => c = 1
      OBVIOUS
    <3>2. m = l /\ Len(l) = 1
      BY <2>3, <2>4, <2>6, <3>1
    <3>3. QED
      BY <2>4, <3>2
  <2>7. QED
    BY <2>5, <2>6
<1>4. Nat \subseteq S
  <2> HIDE DEF S
  <2>1. QED
    BY <1>2, <1>3, AllNaturals
<1>5. QED
  BY <1>1, <1>4

\* The root is alone on the first layer that has one node; below it every layer
\* is made from the one before.
LEMMA HeightFacts ==
    ASSUME NEW ls, IsList(ls), Len(ls) >= 1
    PROVE  /\ Height(ls) \in 0 .. Len(ls)
           /\ Len(Layers(ls)[Height(ls)]) = 1
           /\ Root(ls) = Layers(ls)[Height(ls)][1]
           /\ \A n \in 0 .. Height(ls) - 1 :
                 Len(Layers(ls)[n]) > 1 /\ Layers(ls)[n + 1] = Above(Layers(ls)[n])
<1> DEFINE L == Layers(ls)
           top(n) == Len(L[n]) <= 1 /\ \A m \in 0 .. n - 1 : Len(L[m]) > 1
           T == {n \in 0 .. Len(ls) : Len(L[n]) <= 1}
<1>1. Len(ls) \in Nat
  BY ListFacts
<1>2. Len(ls) \in T
  <2>1. Len(ls) \in 0 .. Len(ls)
    BY <1>1
  <2>2. IsList(L[Len(ls)]) /\ (Len(L[Len(ls)]) = 1 \/ Len(L[Len(ls)]) <= Len(ls) - Len(ls))
    BY <2>1, LayersShrink
  <2>3. Len(L[Len(ls)]) \in Nat
    BY <2>2, ListFacts
  <2>4. \A k, n \in Nat : k = 1 \/ k <= n - n => k <= 1
    OBVIOUS
  <2>5. Len(L[Len(ls)]) <= 1
    BY <1>1, <2>2, <2>3, <2>4
  <2>6. QED
    BY <2>1, <2>5
<1>3. PICK n \in T : \A m \in T : n <= m
  <2>1. T \subseteq Nat
    BY <1>1
  <2> HIDE DEF T
  <2>2. QED
    BY <1>2, <2>1, LeastElement
<1>4. \A m \in 0 .. n - 1 : Len(L[m]) > 1
  <2>1. ASSUME NEW m \in 0 .. n - 1 PROVE Len(L[m]) > 1
    <3>1. m \in 0 .. Len(ls) /\ m \notin T
      BY <1>1, <1>3
    <3>2. Len(L[m]) \in Nat
      BY <3>1, LayersShrink, ListFacts
    <3>3. QED
      BY <3>1, <3>2
  <2>2. QED
    BY <2>1
<1>5. Height(ls) = CHOOSE k \in 0 .. Len(ls) : top(k)
  BY DEF Height
<1>6. Height(ls) \in 0 .. Len(ls) /\ top(Height(ls))
  BY <1>3, <1>4, <1>5
<1>7. Len(L[Height(ls)]) = 1
  <2> DEFINE l == L[Height(ls)]
  <2>1. IsList(l) /\ Len(l) >= 1 /\ Len(l) <= 1
    BY <1>6, LayersShrink
  <2> HIDE DEF l
  <2>2. Len(l) \in Nat
    BY <2>1, ListFacts
  <2>3. \A c \in Nat : c >= 1 /\ c <= 1 => c = 1
    OBVIOUS
  <2>4. Len(l) = 1
    BY <2>1, <2>2, <2>3
  <2>5. QED
    BY <2>4 DEF l
<1>8. ls # <<>>
  BY <1>1
<1>9. \A k \in 0 .. Height(ls) - 1 : L[k + 1] = Above(L[k])
  <2>1. ASSUME NEW k \in 0 .. Height(ls) - 1 PROVE L[k + 1] = Above(L[k])
    <3>1. k \in 0 .. Len(ls) - 1 /\ Len(L[k]) > 1
      BY <1>1, <1>6
    <3>2. QED
      BY <3>1, LayerStep
  <2>2. QED
    BY <2>1
<1>10. QED
  BY <1>6, <1>7, <1>8, <1>9 DEF Root

----------------------------------------------------------------------------
(* The way from a leaf up.                                                 *)

AreIndices(idx, i, n) ==
    idx = [k \in 0 .. n |-> IF k = 0 THEN i - 1 ELSE idx[k - 1] \div 2]

LEMMA IndicesExist ==
    ASSUME NEW i, NEW n \in Nat
    PROVE  \E idx : AreIndices(idx, i, n)
<1> DEFINE S == {k \in Nat : \E idx : AreIndices(idx, i, k)}
<1>1. 0 \in S
  <2>1. AreIndices([k \in 0 .. 0 |-> i - 1], i, 0)
    BY DEF AreIndices
  <2>2. QED
    BY <2>1
<1>2. ASSUME NEW k \in Nat, k \in S PROVE k + 1 \in S
  <2>1. PICK idx : AreIndices(idx, i, k)
    BY <1>2
  <2> DEFINE more == [j \in 0 .. k + 1 |-> IF j = k + 1 THEN idx[k] \div 2 ELSE idx[j]]
  <2>2. \A j \in 0 .. k : idx[j] = IF j = 0 THEN i - 1 ELSE idx[j - 1] \div 2
    BY <2>1 DEF AreIndices
  <2>3. (\A j \in 0 .. k : more[j] = idx[j]) /\ more[k + 1] = idx[k] \div 2
    OBVIOUS
  <2> HIDE DEF more
  <2>4. ASSUME NEW j \in 0 .. k + 1
        PROVE  more[j] = IF j = 0 THEN i - 1 ELSE more[j - 1] \div 2
    <3>1. CASE j = k + 1
      BY <2>3, <3>1
    <3>2. CASE j = 0
      BY <2>2, <2>3, <3>2
    <3>3. CASE j \in 1 .. k
      BY <2>2, <2>3, <3>3
    <3>4. QED
      BY <3>1, <3>2, <3>3
  <2>5. more = [j \in 0 .. k + 1 |-> more[j]]
    BY DEF more
  <2>6. AreIndices(more, i, k + 1)
    BY <2>4, <2>5 DEF AreIndices
  <2>7. QED
    BY <2>6
<1>3. QED
  BY <1>1, <1>2, AllNaturals

\* The index stays inside the layers.
LEMMA IndexFacts ==
    ASSUME NEW ls, IsList(ls), NEW i \in 1 .. Len(ls)
    PROVE  /\ Index(ls, i)[0] = i - 1
           /\ \A n \in 0 .. Height(ls) - 1 : Index(ls, i)[n + 1] = Index(ls, i)[n] \div 2
           /\ \A n \in 0 .. Height(ls) :
                Index(ls, i)[n] \in Nat /\ Index(ls, i)[n] < Len(Layers(ls)[n])
<1> DEFINE idx == Index(ls, i)
           H == Height(ls)
           L == Layers(ls)
           S == {n \in Nat : n <= H => idx[n] \in Nat /\ idx[n] < Len(L[n])}
<1>1. Len(ls) \in Nat /\ Len(ls) >= 1 /\ i \in Nat /\ i - 1 \in Nat /\ i - 1 < Len(ls)
  BY ListFacts
<1>2. \E f : AreIndices(f, i, Len(ls))
  BY <1>1, IndicesExist
<1>3. AreIndices(CHOOSE f : AreIndices(f, i, Len(ls)), i, Len(ls))
  BY <1>2
<1>4. AreIndices(idx, i, Len(ls))
  BY <1>3 DEF Index, AreIndices
<1>5. H \in 0 .. Len(ls) /\ H \in Nat
  BY <1>1, HeightFacts
<1> HIDE DEF idx, H
<1>6. \A n \in 0 .. Len(ls) : idx[n] = IF n = 0 THEN i - 1 ELSE idx[n - 1] \div 2
  BY <1>4 DEF AreIndices
<1>7. idx[0] = i - 1
  BY <1>1, <1>6
<1>8. ASSUME NEW n \in 0 .. H - 1 PROVE idx[n + 1] = idx[n] \div 2
  <2>1. n + 1 \in 0 .. Len(ls) /\ n + 1 # 0 /\ (n + 1) - 1 = n
    BY <1>1, <1>5
  <2>2. QED
    BY <1>6, <2>1
<1>9. 0 \in S
  BY <1>1, <1>7, LayerStep
<1>10. ASSUME NEW n \in Nat, n \in S PROVE n + 1 \in S
  <2>1. SUFFICES ASSUME n + 1 <= H PROVE idx[n + 1] \in Nat /\ idx[n + 1] < Len(L[n + 1])
    OBVIOUS
  <2>2. n \in 0 .. H - 1 /\ n \in 0 .. Len(ls)
    BY <1>1, <1>5, <2>1
  <2>3. idx[n] \in Nat /\ idx[n] < Len(L[n]) /\ idx[n + 1] = idx[n] \div 2
    BY <1>5, <1>8, <1>10, <2>2
  <2>4. IsList(L[n]) /\ Len(L[n]) \in Nat /\ Len(L[n]) >= 1
    BY <1>1, <2>2, LayersShrink, ListFacts
  <2>5. Len(L[n + 1]) = (Len(L[n]) + 1) \div 2
    BY <1>1, <2>2, <2>4, HeightFacts, AboveFacts DEF H
  <2>6. \A x, k \in Nat : x < k => x \div 2 \in Nat /\ x \div 2 < (k + 1) \div 2
    OBVIOUS
  <2>7. QED
    BY <2>3, <2>4, <2>5, <2>6
<1>11. Nat \subseteq S
  <2> HIDE DEF S
  <2>1. QED
    BY <1>9, <1>10, AllNaturals
<1>12. \A n \in 0 .. H : idx[n] \in Nat /\ idx[n] < Len(L[n])
  BY <1>5, <1>11
<1>13. QED
  BY <1>7, <1>8, <1>12 DEF idx, H

\* verify_proof's h, from the leaf up
AreHashes(h, leaf, proof, n) ==
    h = [k \in 0 .. n |->
           IF k = 0 THEN leaf
           ELSE IF proof[k].right THEN <<h[k - 1], proof[k].sibling>>
           ELSE <<proof[k].sibling, h[k - 1]>>]

LEMMA HashesExist ==
    ASSUME NEW leaf, NEW proof, NEW n \in Nat
    PROVE  \E h : AreHashes(h, leaf, proof, n)
<1> DEFINE S == {k \in Nat : \E h : AreHashes(h, leaf, proof, k)}
<1>1. 0 \in S
  <2>1. AreHashes([k \in 0 .. 0 |-> leaf], leaf, proof, 0)
    BY DEF AreHashes
  <2>2. QED
    BY <2>1
<1>2. ASSUME NEW k \in Nat, k \in S PROVE k + 1 \in S
  <2>1. PICK h : AreHashes(h, leaf, proof, k)
    BY <1>2
  <2> DEFINE next == IF proof[k + 1].right THEN <<h[k], proof[k + 1].sibling>>
                     ELSE <<proof[k + 1].sibling, h[k]>>
             more == [j \in 0 .. k + 1 |-> IF j = k + 1 THEN next ELSE h[j]]
  <2>2. \A j \in 0 .. k : h[j] = IF j = 0 THEN leaf
                                 ELSE IF proof[j].right THEN <<h[j - 1], proof[j].sibling>>
                                 ELSE <<proof[j].sibling, h[j - 1]>>
    BY <2>1 DEF AreHashes
  <2>3. (\A j \in 0 .. k : more[j] = h[j]) /\ more[k + 1] = next
    OBVIOUS
  <2> HIDE DEF more
  <2>4. ASSUME NEW j \in 0 .. k + 1
        PROVE  more[j] = IF j = 0 THEN leaf
                         ELSE IF proof[j].right THEN <<more[j - 1], proof[j].sibling>>
                         ELSE <<proof[j].sibling, more[j - 1]>>
    <3>1. CASE j = k + 1
      BY <2>3, <3>1
    <3>2. CASE j = 0
      <4>1. 0 \in 0 .. k
        OBVIOUS
      <4>2. more[0] = h[0]
        BY <2>3, <4>1
      <4>3. h[0] = leaf
        BY <2>2, <4>1
      <4>4. QED
        BY <3>2, <4>2, <4>3
    <3>3. CASE j \in 1 .. k
      BY <2>2, <2>3, <3>3
    <3>4. QED
      BY <3>1, <3>2, <3>3
  <2>5. more = [j \in 0 .. k + 1 |-> more[j]]
    BY DEF more
  <2>6. AreHashes(more, leaf, proof, k + 1)
    BY <2>4, <2>5 DEF AreHashes
  <2>7. QED
    BY <2>6
<1>3. QED
  BY <1>1, <1>2, AllNaturals

LEMMA FoldFacts ==
    ASSUME NEW leaf, NEW proof, Len(proof) \in Nat
    PROVE  \E h : /\ Fold(leaf, proof) = h[Len(proof)]
                  /\ h[0] = leaf
                  /\ \A n \in 0 .. Len(proof) - 1 :
                       h[n + 1] = IF proof[n + 1].right THEN <<h[n], proof[n + 1].sibling>>
                                  ELSE <<proof[n + 1].sibling, h[n]>>
<1> DEFINE h == CHOOSE f : AreHashes(f, leaf, proof, Len(proof))
<1>1. \E f : AreHashes(f, leaf, proof, Len(proof))
  BY HashesExist
<1>2. AreHashes(h, leaf, proof, Len(proof))
  BY <1>1
<1>3. Fold(leaf, proof) = h[Len(proof)]
  BY DEF Fold, AreHashes
<1> HIDE DEF h
<1>4. \A k \in 0 .. Len(proof) :
         h[k] = IF k = 0 THEN leaf
                ELSE IF proof[k].right THEN <<h[k - 1], proof[k].sibling>>
                ELSE <<proof[k].sibling, h[k - 1]>>
  BY <1>2 DEF AreHashes
<1>5. h[0] = leaf
  <2>1. 0 \in 0 .. Len(proof)
    OBVIOUS
  <2>2. QED
    BY <1>4, <2>1
<1>6. ASSUME NEW n \in 0 .. Len(proof) - 1
      PROVE  h[n + 1] = IF proof[n + 1].right THEN <<h[n], proof[n + 1].sibling>>
                        ELSE <<proof[n + 1].sibling, h[n]>>
  <2>1. n + 1 \in 0 .. Len(proof) /\ n + 1 # 0 /\ (n + 1) - 1 = n
    OBVIOUS
  <2>2. QED
    BY <1>4, <2>1
<1>7. QED
  BY <1>3, <1>5, <1>6

----------------------------------------------------------------------------
(* Proofs.                                                                 *)

LEMMA ProofFacts ==
    ASSUME NEW ls, IsList(ls), NEW i \in 1 .. Len(ls)
    PROVE  /\ Len(Proof(ls, i)) = Height(ls) /\ Height(ls) \in Nat
           /\ \A n \in 0 .. Height(ls) - 1 :
                LET idx == Index(ls, i)[n]
                IN  /\ Proof(ls, i)[n + 1].right <=> idx % 2 = 0
                    /\ Proof(ls, i)[n + 1].sibling =
                         Padded(Layers(ls)[n])[IF idx % 2 = 0 THEN idx + 2 ELSE idx]
<1> DEFINE H == Height(ls)
           idx(n) == Index(ls, i)[n]
           sibling(n) == Padded(Layers(ls)[n])[(IF idx(n) % 2 = 0 THEN idx(n) + 1 ELSE idx(n) - 1) + 1]
           step(n) == [sibling |-> sibling(n), right |-> OnLeft(idx(n))]
           proof == Proof(ls, i)
<1>1. H \in Nat
  BY HeightFacts, ListFacts
<1>2. proof = [n \in 1 .. H |-> step(n - 1)]
  BY DEF Proof
<1>3. \A n \in 1 .. H : proof[n] = step(n - 1)
  BY <1>2
<1> HIDE DEF H, proof
<1>4. Len(proof) = H
  <2>1. proof = [n \in 1 .. H |-> proof[n]]
    BY <1>2
  <2>2. QED
    BY <1>1, <2>1, ListOf
<1>5. ASSUME NEW n \in 0 .. H - 1
      PROVE  /\ proof[n + 1].right <=> idx(n) % 2 = 0
             /\ proof[n + 1].sibling =
                  Padded(Layers(ls)[n])[IF idx(n) % 2 = 0 THEN idx(n) + 2 ELSE idx(n)]
  <2>1. n + 1 \in 1 .. H /\ (n + 1) - 1 = n /\ n \in 0 .. H
    BY <1>1
  <2>2. proof[n + 1] = step(n)
    BY <1>3, <2>1
  <2>3. idx(n) \in Nat
    BY <2>1, IndexFacts DEF H
  <2> HIDE DEF idx
  <2>4. (IF idx(n) % 2 = 0 THEN idx(n) + 1 ELSE idx(n) - 1) + 1
          = IF idx(n) % 2 = 0 THEN idx(n) + 2 ELSE idx(n)
    BY <2>3
  <2>5. proof[n + 1].sibling = sibling(n) /\ proof[n + 1].right = OnLeft(idx(n))
    BY <2>2
  <2>6. QED
    BY <2>4, <2>5 DEF OnLeft
<1>6. QED
  BY <1>1, <1>4, <1>5 DEF H, proof

\* Every leaf's proof leads to the root.
LEMMA LeafVerifies ==
    ASSUME NEW ls, IsList(ls), NEW i \in 1 .. Len(ls)
    PROVE  VerifyProof(ls[i], Proof(ls, i), Root(ls))
<1> DEFINE H == Height(ls)
           L == Layers(ls)
           proof == Proof(ls, i)
           idx == Index(ls, i)
<1>0. Len(ls) \in Nat /\ Len(ls) >= 1 /\ i \in Nat
  BY ListFacts
<1>1. H \in Nat /\ Len(proof) = H
  BY ProofFacts
<1>2. PICK h : /\ Fold(ls[i], proof) = h[H]
               /\ h[0] = ls[i]
               /\ \A n \in 0 .. H - 1 :
                    h[n + 1] = IF proof[n + 1].right THEN <<h[n], proof[n + 1].sibling>>
                               ELSE <<proof[n + 1].sibling, h[n]>>
  BY <1>1, FoldFacts
<1> DEFINE S == {n \in Nat : n <= H => h[n] = L[n][idx[n] + 1]}
<1> HIDE DEF H, proof
<1>3. 0 \in S
  <2>1. L[0] = ls /\ idx[0] + 1 = i
    BY <1>0, LayerStep, IndexFacts
  <2>2. QED
    BY <1>2, <2>1
<1>4. ASSUME NEW n \in Nat, n \in S PROVE n + 1 \in S
  <2> DEFINE x == idx[n]
             l == L[n]
  <2>1. SUFFICES ASSUME n + 1 <= H PROVE h[n + 1] = L[n + 1][idx[n + 1] + 1]
    OBVIOUS
  <2>2. n \in 0 .. H - 1 /\ n \in 0 .. H /\ n \in 0 .. Len(ls)
    BY <1>0, <1>1, <2>1, HeightFacts DEF H
  <2>a. h[n] = l[x + 1]
    BY <1>1, <1>4, <2>1
  <2>3. h[n] = l[x + 1] /\ x \in Nat /\ x < Len(l) /\ idx[n + 1] = x \div 2
    BY <2>a, <2>2, IndexFacts DEF H
  <2>4. IsList(l) /\ Len(l) \in Nat /\ Len(l) >= 1 /\ L[n + 1] = Above(l)
    BY <1>0, <2>2, LayersShrink, HeightFacts, ListFacts DEF H
  <2>5. /\ proof[n + 1].right <=> x % 2 = 0
        /\ proof[n + 1].sibling = Padded(l)[IF x % 2 = 0 THEN x + 2 ELSE x]
    BY <2>2, ProofFacts DEF H, proof
  <2>6. h[n + 1] = IF proof[n + 1].right THEN <<h[n], proof[n + 1].sibling>>
                   ELSE <<proof[n + 1].sibling, h[n]>>
    BY <1>2, <2>2
  <2> DEFINE j == x \div 2 + 1
  <2> HIDE DEF x, l
  <2>7. j \in 1 .. Len(Above(l))
    <3>1. \A k \in Nat : x < k => x \div 2 + 1 \in 1 .. (k + 1) \div 2
      BY <2>3
    <3>2. QED
      BY <2>3, <2>4, <3>1, AboveFacts
  <2>8. Above(l)[j] = <<l[2 * j - 1], Padded(l)[2 * j]>>
    BY <2>4, <2>7, AboveFacts
  <2>9. CASE x % 2 = 0
    <3>1. 2 * j - 1 = x + 1 /\ 2 * j = x + 2
      BY <2>3, <2>9
    <3>2. QED
      BY <2>3, <2>4, <2>5, <2>6, <2>8, <2>9, <3>1
  <2>10. CASE x % 2 # 0
    <3>1. 2 * j - 1 = x /\ 2 * j = x + 1
      BY <2>3, <2>10
    <3>2. x + 1 \in 1 .. Len(l) /\ x \in 1 .. Len(l)
      <4>1. x # 0
        BY <2>10
      <4>2. \A k \in Nat : x < k => x + 1 \in 1 .. k /\ x \in 1 .. k
        BY <2>3, <4>1
      <4>3. QED
        BY <2>3, <2>4, <4>2
    <3>3. Padded(l)[x + 1] = l[x + 1] /\ Padded(l)[x] = l[x]
      BY <2>4, <3>2, PaddedFacts
    <3>4. QED
      BY <2>3, <2>4, <2>5, <2>6, <2>8, <2>10, <3>1, <3>3
  <2>11. QED
    BY <2>9, <2>10
<1>5. Nat \subseteq S
  <2> HIDE DEF S
  <2>1. QED
    BY <1>3, <1>4, AllNaturals
<1>6. h[H] = L[H][idx[H] + 1]
  BY <1>1, <1>5
<1>7. idx[H] = 0 /\ Root(ls) = L[H][1]
  <2>1. H \in 0 .. H
    BY <1>1
  <2>2. idx[H] \in Nat /\ idx[H] < Len(L[H]) /\ Len(L[H]) = 1 /\ Root(ls) = L[H][1]
    BY <1>0, <2>1, IndexFacts, HeightFacts DEF H
  <2>3. \A a \in Nat : a < 1 => a = 0
    OBVIOUS
  <2>4. QED
    BY <2>2, <2>3
<1>8. QED
  BY <1>2, <1>6, <1>7 DEF VerifyProof, proof

\* A leaf's proof leads no other hash to the root.
LEMMA LeafBinds ==
    ASSUME NEW ls, IsList(ls), NEW i \in 1 .. Len(ls), NEW x,
           VerifyProof(x, Proof(ls, i), Root(ls))
    PROVE  x = ls[i]
<1> DEFINE proof == Proof(ls, i)
           H == Len(proof)
           Goes(h, leaf) ==
              /\ Fold(leaf, proof) = h[H] /\ h[0] = leaf
              /\ \A n \in 0 .. H - 1 :
                   h[n + 1] = IF proof[n + 1].right THEN <<h[n], proof[n + 1].sibling>>
                              ELSE <<proof[n + 1].sibling, h[n]>>
<1>1. H \in Nat
  BY ProofFacts
<1>2. PICK f : Goes(f, x)
  BY <1>1, FoldFacts
<1>3. PICK g : Goes(g, ls[i])
  <2> DEFINE leaf == ls[i]
  <2> HIDE DEF leaf
  <2>1. \E g : Goes(g, leaf)
    BY <1>1, FoldFacts
  <2>2. QED
    BY <2>1 DEF leaf
<1>4. f[H] = g[H]
  BY <1>2, <1>3, LeafVerifies DEF VerifyProof
<1> SUFFICES ASSUME x # ls[i] PROVE FALSE
  OBVIOUS
<1> DEFINE S == {n \in Nat : n <= H => f[n] # g[n]}
<1> HIDE DEF proof
<1>5. 0 \in S
  BY <1>2, <1>3
<1>6. ASSUME NEW n \in Nat, n \in S PROVE n + 1 \in S
  <2>1. SUFFICES ASSUME n + 1 <= H PROVE f[n + 1] # g[n + 1]
    OBVIOUS
  <2>2. n \in 0 .. H - 1 /\ f[n] # g[n]
    BY <1>1, <1>6, <2>1
  <2>3. /\ f[n + 1] = IF proof[n + 1].right THEN <<f[n], proof[n + 1].sibling>>
                      ELSE <<proof[n + 1].sibling, f[n]>>
        /\ g[n + 1] = IF proof[n + 1].right THEN <<g[n], proof[n + 1].sibling>>
                      ELSE <<proof[n + 1].sibling, g[n]>>
    BY <1>2, <1>3, <2>2
  <2>4. QED
    BY <2>2, <2>3
<1>7. Nat \subseteq S
  <2> HIDE DEF S
  <2>1. QED
    BY <1>5, <1>6, AllNaturals
<1>8. QED
  BY <1>1, <1>4, <1>7

----------------------------------------------------------------------------
(* Roots.                                                                  *)

\* Trees with as many leaves have as many layers, which differ wherever the
\* leaves do: their roots, too, differ.
LEMMA RootInjective ==
    ASSUME NEW a, NEW b, IsList(a), IsList(b), Len(a) = Len(b), Len(a) >= 1, a # b
    PROVE  Root(a) # Root(b)
<1> DEFINE A == Layers(a)
           B == Layers(b)
           S == {n \in Nat : n <= Len(a) => Len(A[n]) = Len(B[n]) /\ A[n] # B[n]}
<1>1. Len(a) \in Nat
  BY ListFacts
<1>2. 0 \in S
  BY LayerStep
<1>3. ASSUME NEW n \in Nat, n \in S PROVE n + 1 \in S
  <2> DEFINE l == A[n]
             m == B[n]
  <2>1. SUFFICES ASSUME n + 1 <= Len(a)
                 PROVE  Len(A[n + 1]) = Len(B[n + 1]) /\ A[n + 1] # B[n + 1]
    OBVIOUS
  <2>2. n \in 0 .. Len(a) - 1 /\ n \in 0 .. Len(a) /\ Len(l) = Len(m) /\ l # m
    BY <1>1, <1>3, <2>1
  <2>3. IsList(l) /\ IsList(m) /\ Len(l) >= 1 /\ Len(m) >= 1
    BY <2>2, LayersShrink
  <2>4. /\ A[n + 1] = IF Len(l) > 1 THEN Above(l) ELSE l
        /\ B[n + 1] = IF Len(m) > 1 THEN Above(m) ELSE m
    BY <2>2, LayerStep
  <2> HIDE DEF l, m
  <2>5. Above(l) # Above(m) /\ Len(Above(l)) = Len(Above(m))
    BY <2>2, <2>3, AboveInjective, AboveFacts
  <2>6. QED
    BY <2>2, <2>4, <2>5
<1>4. Nat \subseteq S
  <2> HIDE DEF S
  <2>1. QED
    BY <1>2, <1>3, AllNaturals
<1>5. \A n \in 0 .. Len(a) : Len(A[n]) = Len(B[n]) /\ A[n] # B[n]
  BY <1>1, <1>4
<1>6. Height(a) = Height(b)
  <2> DEFINE P(n) == Len(A[n]) <= 1 /\ \A m \in 0 .. n - 1 : Len(A[m]) > 1
             Q(n) == Len(B[n]) <= 1 /\ \A m \in 0 .. n - 1 : Len(B[m]) > 1
  <2>1. ASSUME NEW n \in 0 .. Len(a) PROVE P(n) <=> Q(n)
    <3>1. \A m \in 0 .. n - 1 : m \in 0 .. Len(a)
      BY <1>1
    <3>2. QED
      BY <1>5, <3>1
  <2>2. /\ Height(a) = CHOOSE n \in 0 .. Len(a) : P(n)
        /\ Height(b) = CHOOSE n \in 0 .. Len(a) : Q(n)
    BY DEF Height
  <2> HIDE DEF P, Q
  <2>3. QED
    BY <2>1, <2>2
<1> DEFINE l == A[Height(a)]
           m == B[Height(b)]
<1>7. /\ Root(a) = l[1] /\ Len(l) = 1 /\ IsList(l)
      /\ Root(b) = m[1] /\ Len(m) = 1 /\ IsList(m) /\ l # m
  BY <1>1, <1>5, <1>6, HeightFacts, LayersShrink
<1> HIDE DEF l, m
<1>8. QED
  BY <1>7, ListsEqual

\* Of different leaves, different nodes: the layers of a tree with distinct leaves
\* have distinct nodes.
LEMMA AboveDistinct ==
    ASSUME NEW l, IsList(l), Len(l) >= 1, Distinct(l)
    PROVE  Distinct(Above(l))
<1> DEFINE m == Above(l)
<1>1. IsList(m) /\ DOMAIN m = 1 .. Len(m) /\ DOMAIN l = 1 .. Len(l) /\ Len(m) \in Nat
  BY AboveFacts, ListFacts
<1>2. \A i \in 1 .. Len(m) : 2 * i - 1 \in 1 .. Len(l) /\ m[i][1] = l[2 * i - 1]
  <2>1. ASSUME NEW i \in 1 .. Len(m)
        PROVE  2 * i - 1 \in 1 .. Len(l) /\ m[i] = <<l[2 * i - 1], Padded(l)[2 * i]>>
    BY AboveFacts
  <2> HIDE DEF m
  <2>2. QED
    BY <2>1
<1> HIDE DEF m
<1>3. ASSUME NEW i \in 1 .. Len(m), NEW j \in 1 .. Len(m), m[i] = m[j]
      PROVE  i = j
  <2>1. l[2 * i - 1] = l[2 * j - 1] /\ 2 * i - 1 \in DOMAIN l /\ 2 * j - 1 \in DOMAIN l
    BY <1>1, <1>2, <1>3
  <2>2. 2 * i - 1 = 2 * j - 1
    BY <2>1 DEF Distinct
  <2>3. i \in Nat /\ j \in Nat
    BY <1>1
  <2>4. QED
    BY <2>2, <2>3
<1>4. QED
  BY <1>1, <1>3 DEF Distinct, m

\* Two distinct layers of distinct nodes are below two that differ, though one may
\* be a node longer: what padding repeats is no node of the other.
LEMMA AboveTells ==
    ASSUME NEW l, NEW m, IsList(l), IsList(m), Distinct(l), Distinct(m),
           Len(l) >= 1, Len(m) >= 1, l # m
    PROVE  Above(l) # Above(m)
<1>1. /\ Len(l) \in Nat /\ DOMAIN l = 1 .. Len(l)
      /\ Len(m) \in Nat /\ DOMAIN m = 1 .. Len(m)
  BY ListFacts
<1>2. CASE Len(l) = Len(m)
  BY <1>2, AboveInjective
<1>3. CASE Len(l) # Len(m)
  <2>1. ASSUME NEW s, NEW t, IsList(s), IsList(t), Distinct(t), Len(s) >= 1, Len(t) >= 1,
               Len(s) \in Nat, Len(t) \in Nat, DOMAIN t = 1 .. Len(t),
               Above(s) = Above(t), Len(s) < Len(t)
        PROVE  FALSE
    <3> DEFINE n == Len(s)
               k == Len(t)
    <3>1. n \in Nat /\ k \in Nat /\ n < k /\ n >= 1 /\ (n + 1) \div 2 = (k + 1) \div 2
      BY <2>1, AboveFacts
    <3> HIDE DEF n, k
    <3> DEFINE j == (n + 1) \div 2
    <3>2. k = n + 1 /\ 2 * j - 1 = n /\ 2 * j = k
      BY <3>1
    <3>3. j \in 1 .. (n + 1) \div 2 /\ j \in Nat
      BY <3>1, <3>2
    <3>4. /\ Above(s)[j] = <<s[n], Padded(s)[k]>>
          /\ Above(t)[j] = <<t[n], Padded(t)[k]>>
      <4>1. j \in 1 .. Len(Above(s)) /\ j \in 1 .. Len(Above(t))
        BY <2>1, <3>1, <3>3, AboveFacts DEF n, k
      <4>2. /\ Above(s)[j] = <<s[2 * j - 1], Padded(s)[2 * j]>>
            /\ Above(t)[j] = <<t[2 * j - 1], Padded(t)[2 * j]>>
        BY <2>1, <4>1, AboveFacts
      <4>3. QED
        BY <3>2, <4>2
    <3>5. Padded(s)[k] = s[n]
      <4>1. k \in 1 .. Len(Padded(s)) /\ k > Len(s)
        BY <2>1, <3>1, <3>2, PaddedFacts DEF n
      <4>2. QED
        BY <2>1, <4>1, PaddedFacts DEF n
    <3>6. Padded(t)[k] = t[k]
      BY <2>1, <3>1, PaddedFacts DEF k
    <3>7. t[k] = t[n]
      BY <2>1, <3>4, <3>5, <3>6
    <3>8. k = n
      <4>1. k \in DOMAIN t /\ n \in DOMAIN t
        BY <2>1, <3>1 DEF k
      <4>2. QED
        BY <2>1, <3>7, <4>1 DEF Distinct
    <3>9. QED
      BY <3>1, <3>8
  <2>2. \A n, k \in Nat : n # k => n < k \/ k < n
    OBVIOUS
  <2>3. Len(l) < Len(m) \/ Len(m) < Len(l)
    BY <1>1, <1>3, <2>2
  <2>4. QED
    BY <1>1, <2>1, <2>3
<1>4. QED
  BY <1>2, <1>3

\* the hash of two hashes is neither a leaf nor the root of no leaves
NoPairs == \A x, y : <<x, y>> \notin Hashes \cup {Zero}

LEMMA LayersDistinct ==
    ASSUME NEW ls, IsList(ls), Len(ls) >= 1, Distinct(ls), NEW n \in 0 .. Len(ls)
    PROVE  Distinct(Layers(ls)[n])
<1> DEFINE L == Layers(ls)
           S == {k \in Nat : k <= Len(ls) => Distinct(L[k])}
<1>1. Len(ls) \in Nat
  BY ListFacts
<1>2. 0 \in S
  BY LayerStep
<1>3. ASSUME NEW k \in Nat, k \in S PROVE k + 1 \in S
  <2> DEFINE l == L[k]
  <2>1. SUFFICES ASSUME k + 1 <= Len(ls) PROVE Distinct(L[k + 1])
    OBVIOUS
  <2>2. k \in 0 .. Len(ls) - 1 /\ k \in 0 .. Len(ls) /\ Distinct(l)
    BY <1>1, <1>3, <2>1
  <2>3. IsList(l) /\ Len(l) >= 1
    BY <2>2, LayersShrink
  <2>4. L[k + 1] = IF Len(l) > 1 THEN Above(l) ELSE l
    BY <2>2, LayerStep
  <2> HIDE DEF l
  <2>5. QED
    BY <2>2, <2>3, <2>4, AboveDistinct
<1>4. Nat \subseteq S
  <2> HIDE DEF S
  <2>1. QED
    BY <1>2, <1>3, AllNaturals
<1>5. QED
  BY <1>1, <1>4

\* Where one tree is higher, none of its nodes is as high over the leaves as one of
\* the other's: below one is a leaf where below the other is a pair.
LEMMA HeightTells ==
    ASSUME NEW a, NEW b, IsList(a), IsList(b), Len(a) >= 1, Len(b) >= 1, NoPairs,
           \A i \in 1 .. Len(a) : a[i] \in Hashes, Height(a) < Height(b)
    PROVE  Root(a) # Root(b)
<1> DEFINE A == Layers(a)
           B == Layers(b)
           H == Height(a)
           d == Height(b) - H
           Apart(n) == \A i \in 1 .. Len(A[n]), j \in 1 .. Len(B[n + d]) : A[n][i] # B[n + d][j]
           S == {n \in Nat : n <= H => Apart(n)}
<1>1. /\ Len(a) \in Nat /\ Len(b) \in Nat
      /\ H \in 0 .. Len(a) /\ Height(b) \in 0 .. Len(b) /\ H \in Nat /\ Height(b) \in Nat
  BY ListFacts, HeightFacts
<1>2. d \in Nat /\ d >= 1 /\ \A n \in Nat : n <= H => n + d <= Height(b) /\ n + d <= Len(b)
  BY <1>1
<1>3. ASSUME NEW n \in 0 .. H - 1
      PROVE  IsList(A[n]) /\ Len(A[n]) >= 1 /\ A[n + 1] = Above(A[n])
  <2>1. n \in 0 .. Len(a)
    BY <1>1
  <2>2. QED
    BY <2>1, HeightFacts, LayersShrink
<1>4. ASSUME NEW n \in 0 .. Height(b) - 1
      PROVE  IsList(B[n]) /\ Len(B[n]) >= 1 /\ B[n + 1] = Above(B[n])
  <2>1. n \in 0 .. Len(b)
    BY <1>1
  <2>2. QED
    BY <2>1, HeightFacts, LayersShrink
<1>5. A[0] = a
  BY LayerStep
<1>6. Len(A[H]) = 1 /\ Root(a) = A[H][1]
  BY HeightFacts
<1>7. Len(B[Height(b)]) = 1 /\ Root(b) = B[Height(b)][1]
  BY HeightFacts
<1> HIDE DEF A, B, H
<1>8. 0 \in S
  <2>1. d - 1 \in 0 .. Height(b) - 1 /\ (d - 1) + 1 = d
    BY <1>1, <1>2
  <2> DEFINE l == B[d - 1]
  <2>2. IsList(l) /\ Len(l) >= 1 /\ B[d] = Above(l)
    BY <1>4, <2>1
  <2> HIDE DEF l, d
  <2>3. ASSUME NEW i \in 1 .. Len(a), NEW j \in 1 .. Len(Above(l))
        PROVE  a[i] # Above(l)[j]
    <3>1. Above(l)[j] = <<l[2 * j - 1], Padded(l)[2 * j]>>
      BY <2>2, AboveFacts
    <3>2. QED
      BY <3>1 DEF NoPairs
  <2>4. 0 + d = d
    BY <1>2
  <2>5. QED
    BY <1>5, <2>2, <2>3, <2>4
<1>9. ASSUME NEW n \in Nat, n \in S PROVE n + 1 \in S
  <2> DEFINE l == A[n]
             m == B[n + d]
  <2>1. SUFFICES ASSUME n + 1 <= H PROVE Apart(n + 1)
    OBVIOUS
  <2>2. n \in 0 .. H - 1 /\ n + d \in 0 .. Height(b) - 1 /\ (n + 1) + d = (n + d) + 1
    BY <1>1, <1>2, <2>1
  <2>3. Apart(n)
    BY <1>1, <1>9, <2>1
  <2>4. IsList(l) /\ Len(l) >= 1 /\ A[n + 1] = Above(l)
    BY <1>3, <2>2
  <2>5. IsList(m) /\ Len(m) >= 1 /\ B[(n + 1) + d] = Above(m)
    BY <1>4, <2>2
  <2>6. \A i \in 1 .. Len(l), j \in 1 .. Len(m) : l[i] # m[j]
    BY <2>3
  <2> HIDE DEF l, m, d
  <2>7. ASSUME NEW i \in 1 .. Len(Above(l)), NEW j \in 1 .. Len(Above(m))
        PROVE  Above(l)[i] # Above(m)[j]
    <3>1. /\ Above(l)[i] = <<l[2 * i - 1], Padded(l)[2 * i]>> /\ 2 * i - 1 \in 1 .. Len(l)
          /\ Above(m)[j] = <<m[2 * j - 1], Padded(m)[2 * j]>> /\ 2 * j - 1 \in 1 .. Len(m)
      BY <2>4, <2>5, AboveFacts
    <3>2. QED
      BY <2>6, <3>1
  <2>8. QED
    BY <2>4, <2>5, <2>7
<1>10. Nat \subseteq S
  <2> HIDE DEF S
  <2>1. QED
    BY <1>8, <1>9, AllNaturals
<1>11. Apart(H) /\ H + d = Height(b)
  BY <1>1, <1>10
<1>12. QED
  BY <1>6, <1>7, <1>11

\* Two manifests of distinct files have different roots.
LEMMA DistinctRoots ==
    ASSUME NEW a, NEW b, IsList(a), IsList(b), Distinct(a), Distinct(b), a # b, NoPairs,
           \A i \in 1 .. Len(a) : a[i] \in Hashes, \A i \in 1 .. Len(b) : b[i] \in Hashes,
           Len(a) >= 1, Len(b) >= 1
    PROVE  Root(a) # Root(b)
<1> DEFINE A == Layers(a)
           B == Layers(b)
           H == Height(a)
           S == {n \in Nat : n <= H => A[n] # B[n]}
<1>1. H \in 0 .. Len(a) /\ H \in Nat /\ Height(b) \in 0 .. Len(b) /\ Height(b) \in Nat
      /\ Len(a) \in Nat /\ Len(b) \in Nat
  BY ListFacts, HeightFacts
<1>2. CASE H # Height(b)
  <2>1. \A n, k \in Nat : n # k => n < k \/ k < n
    OBVIOUS
  <2>2. QED
    BY <1>1, <1>2, <2>1, HeightTells
<1>3. CASE H = Height(b)
  <2>1. 0 \in S
    BY LayerStep
  <2>2. ASSUME NEW n \in Nat, n \in S PROVE n + 1 \in S
    <3> DEFINE l == A[n]
               m == B[n]
    <3>1. SUFFICES ASSUME n + 1 <= H PROVE A[n + 1] # B[n + 1]
      OBVIOUS
    <3>2. n \in 0 .. H - 1 /\ n \in 0 .. Len(a) /\ n \in 0 .. Len(b) /\ l # m
      BY <1>1, <1>3, <2>2, <3>1
    <3>3. /\ IsList(l) /\ Len(l) >= 1 /\ Distinct(l) /\ A[n + 1] = Above(l)
          /\ IsList(m) /\ Len(m) >= 1 /\ Distinct(m) /\ B[n + 1] = Above(m)
      BY <1>3, <3>2, LayersShrink, LayersDistinct, HeightFacts
    <3> HIDE DEF l, m
    <3>4. QED
      BY <3>2, <3>3, AboveTells
  <2>3. Nat \subseteq S
    <3> HIDE DEF S
    <3>1. QED
      BY <2>1, <2>2, AllNaturals
  <2> DEFINE l == A[H]
             m == B[H]
  <2>4. l # m
    BY <1>1, <2>3
  <2>5. /\ IsList(l) /\ Len(l) = 1 /\ Root(a) = l[1]
        /\ IsList(m) /\ Len(m) = 1 /\ Root(b) = m[1]
    BY <1>1, <1>3, HeightFacts, LayersShrink
  <2> HIDE DEF l, m
  <2>6. QED
    BY <2>4, <2>5, ListsEqual
<1>4. QED
  BY <1>2, <1>3

----------------------------------------------------------------------------
(* What ott verify and ott verify-chunk show.                              *)

LEMMA FirstIndex ==
    ASSUME NEW ls, IsList(ls), NEW i \in 1 .. Len(ls)
    PROVE  \E j \in 1 .. Len(ls) : IsIndex(j, ls, ls[i])
<1> DEFINE T == {j \in 1 .. Len(ls) : ls[j] = ls[i]}
<1>1. Len(ls) \in Nat
  BY ListFacts
<1>2. T \subseteq Nat /\ i \in T
  BY <1>1
<1> HIDE DEF T
<1>3. PICK j \in T : \A k \in T : j <= k
  BY <1>2, LeastElement
<1> USE DEF T
<1>4. ASSUME NEW k \in 1 .. j - 1 PROVE ls[k] # ls[i]
  <2>1. k \in 1 .. Len(ls) /\ ~(j <= k)
    BY <1>1
  <2>2. QED
    BY <1>3, <2>1
<1>5. QED
  BY <1>4 DEF IsIndex

MerkleInv == leaves \in Seq(Hashes)

LEMMA MerkleInvariant == MerkleSpec => []MerkleInv
<1>1. MerkleInit => MerkleInv
  BY DEF MerkleInit, MerkleInv
<1>2. MerkleInv /\ [MerkleNext]_leaves => MerkleInv'
  BY DEF MerkleInv, MerkleNext, AddLeaf
<1>3. QED
  BY <1>1, <1>2, PTL DEF MerkleSpec

LEMMA LeavesList ==
    ASSUME MerkleInv
    PROVE  /\ IsList(leaves) /\ DOMAIN leaves = 1 .. Len(leaves) /\ Len(leaves) \in Nat
           /\ \A i \in 1 .. Len(leaves) : leaves[i] \in Hashes
<1>1. /\ DOMAIN leaves = 1 .. Len(leaves) /\ Len(leaves) \in Nat
      /\ \A i \in 1 .. Len(leaves) : leaves[i] \in Hashes
      /\ leaves = [i \in 1 .. Len(leaves) |-> leaves[i]]
  BY DEF MerkleInv
<1>2. QED
  BY <1>1, ListOf

\* ott verify's proof of every file of a manifest of any length is a proof.
THEOREM EveryProofVerifies == MerkleSpec => []ProofsVerify
<1>1. ASSUME MerkleInv PROVE ProofsVerify
  <2>1. ASSUME NEW i \in 1 .. Len(leaves)
        PROVE  /\ VerifyProof(leaves[i], Proof(leaves, i), Root(leaves))
               /\ Verifies(leaves[i], leaves)
    <3>1. VerifyProof(leaves[i], Proof(leaves, i), Root(leaves))
      BY <1>1, LeavesList, LeafVerifies
    <3>2. PICK j \in 1 .. Len(leaves) : IsIndex(j, leaves, leaves[i])
      BY <1>1, LeavesList, FirstIndex
    <3>3. VerifyProof(leaves[j], Proof(leaves, j), Root(leaves)) /\ leaves[j] = leaves[i]
      BY <1>1, <3>2, LeavesList, LeafVerifies DEF IsIndex
    <3>4. QED
      BY <1>1, <3>1, <3>2, <3>3, LeavesList DEF Verifies
  <2>2. QED
    BY <1>1, <2>1, LeavesList DEF ProofsVerify
<1>2. QED
  BY <1>1, MerkleInvariant, PTL

\* A proof is of one hash only, the one in its leaf's place.
THEOREM EveryProofBinds == MerkleSpec => []ProofsBind
<1>1. ASSUME MerkleInv PROVE ProofsBind
  BY <1>1, LeavesList, LeafBinds DEF ProofsBind
<1>2. QED
  BY <1>1, MerkleInvariant, PTL

\* Good marks of verify-chunk are good only for the chunks that were archived, of a
\* file with any number of them.
THEOREM EveryChunkBinds == MerkleSpec => []ChunksBind
<1>1. ASSUME MerkleInv, NEW i \in DOMAIN leaves, NEW k \in DOMAIN leaves, NEW h \in Hashes,
             NEW at \in 1 .. 3, NEW chunks, NEW manifest,
             chunks = [leaves EXCEPT ![k] = h],
             manifest = [n \in 1 .. 3 |-> IF n = at THEN Root(leaves) ELSE Zero]
      PROVE  VerifiesChunk(chunks[i], chunks, i, Root(leaves), manifest) <=> chunks = leaves
  <2>1. IsList(leaves) /\ DOMAIN leaves = 1 .. Len(leaves) /\ Len(leaves) >= 1
        /\ Len(leaves) \in Nat
    BY <1>1, LeavesList
  <2>2. chunks \in Seq(Hashes) /\ Len(chunks) = Len(leaves)
    BY <1>1 DEF MerkleInv
  <2>3. IsList(chunks)
    <3>1. chunks = [n \in 1 .. Len(leaves) |-> chunks[n]]
      BY <1>1, <2>1
    <3>2. QED
      BY <2>1, <3>1, ListOf
  <2>4. IsList(manifest) /\ Len(manifest) = 3 /\ DOMAIN manifest = 1 .. 3
    <3>1. manifest = [n \in 1 .. 3 |-> manifest[n]]
      BY <1>1
    <3>2. QED
      BY <3>1, ListOf
  <2>5. i \in 1 .. Len(chunks)
    BY <2>1, <2>2
  <2>6. ASSUME VerifiesChunk(chunks[i], chunks, i, Root(leaves), manifest)
        PROVE  chunks = leaves
    <3>1. PICK j \in 1 .. 3 : /\ IsIndex(j, manifest, Root(leaves))
                              /\ VerifyProof(Root(chunks), Proof(manifest, j), Root(manifest))
      BY <2>4, <2>6 DEF VerifiesChunk
    <3>2. Root(chunks) = manifest[j]
      BY <2>4, <3>1, LeafBinds
    <3>3. Root(chunks) = Root(leaves)
      BY <3>1, <3>2 DEF IsIndex
    <3>4. QED
      BY <2>1, <2>2, <2>3, <3>3, RootInjective
  <2>7. ASSUME chunks = leaves
        PROVE  VerifiesChunk(chunks[i], chunks, i, Root(leaves), manifest)
    <3>1. VerifyProof(chunks[i], Proof(chunks, i), Root(chunks))
      BY <2>3, <2>5, LeafVerifies
    <3>2. at \in 1 .. Len(manifest) /\ manifest[at] = Root(leaves)
      BY <1>1, <2>4
    <3>3. PICK j \in 1 .. 3 : IsIndex(j, manifest, Root(leaves))
      BY <2>4, <3>2, FirstIndex
    <3>4. VerifyProof(manifest[j], Proof(manifest, j), Root(manifest))
      BY <2>4, LeafVerifies
    <3>5. manifest[j] = Root(chunks)
      BY <2>7, <3>3 DEF IsIndex
    <3>6. QED
      BY <2>4, <3>1, <3>3, <3>4, <3>5 DEF VerifiesChunk
  <2>8. QED
    BY <2>6, <2>7
<1>2. ASSUME MerkleInv PROVE ChunksBind
  BY <1>1, <1>2 DEF ChunksBind
<1>3. QED
  BY <1>2, MerkleInvariant, PTL

LEMMA EmptyList ==
    ASSUME NEW s, IsList(s), s # <<>>
    PROVE  Len(s) >= 1
  BY DEF IsList

LEMMA RootNotZero ==
    ASSUME NEW ls, IsList(ls), Len(ls) >= 1, NoPairs, Zero \notin Hashes,
           \A i \in 1 .. Len(ls) : ls[i] \in Hashes
    PROVE  Root(ls) # Zero
<1> DEFINE H == Height(ls)
           l == Layers(ls)[H - 1]
<1>1. H \in Nat /\ H <= Len(ls) /\ Root(ls) = Layers(ls)[H][1] /\ Len(Layers(ls)[H]) = 1
  BY HeightFacts, ListFacts
<1>2. CASE H = 0
  <2>1. Root(ls) = ls[1]
    BY <1>1, <1>2, LayerStep
  <2>2. 1 \in 1 .. Len(ls)
    BY <1>1, ListFacts
  <2>3. QED
    BY <2>1, <2>2
<1>3. CASE H # 0
  <2>1. H - 1 \in 0 .. H - 1 /\ H - 1 \in 0 .. Len(ls) /\ (H - 1) + 1 = H
    BY <1>1, <1>3, ListFacts
  <2>2. IsList(l) /\ Len(l) >= 1 /\ Layers(ls)[H] = Above(l)
    BY <2>1, HeightFacts, LayersShrink
  <2> HIDE DEF l
  <2>3. 1 \in 1 .. Len(Above(l))
    <3>1. Len(Above(l)) = 1
      BY <1>1, <2>2
    <3>2. QED
      BY <3>1
  <2>4. Above(l)[1] = <<l[2 * 1 - 1], Padded(l)[2 * 1]>>
    BY <2>2, <2>3, AboveFacts
  <2>5. QED
    BY <1>1, <2>2, <2>4 DEF NoPairs
<1>4. QED
  BY <1>2, <1>3

\* Two lists of distinct leaves have one root only if they are one list.
LEMMA ManifestRoots ==
    ASSUME NEW a, NEW b, IsList(a), IsList(b), Distinct(a), Distinct(b),
           NoPairs, Zero \notin Hashes,
           \A i \in 1 .. Len(a) : a[i] \in Hashes, \A i \in 1 .. Len(b) : b[i] \in Hashes
    PROVE  Root(a) = Root(b) <=> a = b
<1> SUFFICES ASSUME Root(a) = Root(b) PROVE a = b
  OBVIOUS
<1>1. CASE a = <<>> \/ b = <<>>
  <2>1. /\ a # <<>> => Len(a) >= 1 /\ Root(a) # Zero
        /\ b # <<>> => Len(b) >= 1 /\ Root(b) # Zero
    BY EmptyList, RootNotZero
  <2>2. Root(<<>>) = Zero
    BY DEF Root
  <2>3. QED
    BY <1>1, <2>1, <2>2
<1>2. CASE a # <<>> /\ b # <<>>
  <2>1. Len(a) >= 1 /\ Len(b) >= 1
    BY <1>2, EmptyList
  <2>2. QED
    BY <2>1, DistinctRoots
<1>3. QED
  BY <1>1, <1>2

\* Two manifests of distinct files, however long, never share a root: no commit can
\* be taken for one of other files, or of the same in another order.
THEOREM EveryManifestItsRoot ==
    ASSUME NoPairs, Zero \notin Hashes
    PROVE  MerkleSpec => []ManifestRootsDiffer
<1>1. ASSUME MerkleInv PROVE ManifestRootsDiffer
  <2>1. ASSUME NEW n \in Nat, NEW other \in [1 .. n -> Hashes], Distinct(leaves),
               Distinct(other), Root(other) = Root(leaves)
        PROVE  other = leaves
    <3>1. IsList(other) /\ Len(other) = n /\ DOMAIN other = 1 .. n
      <4>1. other = [i \in 1 .. n |-> other[i]]
        OBVIOUS
      <4>2. QED
        BY <4>1, ListOf
    <3>2. IsList(leaves) /\ Len(leaves) \in Nat
          /\ \A i \in 1 .. Len(leaves) : leaves[i] \in Hashes
      BY <1>1, LeavesList
    <3>3. \A i \in 1 .. Len(other) : other[i] \in Hashes
      BY <3>1
    <3>4. QED
      BY <2>1, <3>1, <3>2, <3>3, ManifestRoots
  <2>2. QED
    BY <2>1 DEF ManifestRootsDiffer, ListsUpTo
<1>2. QED
  BY <1>1, MerkleInvariant, PTL

----------------------------------------------------------------------------
(* Pick, which leaves out lines and entries.                               *)

Rank(I, i) == Cardinality({j \in I : j <= i})

\* The elements of a set of positions are counted off by their ranks.
LEMMA RankFacts ==
    ASSUME NEW n \in Nat, NEW I \in SUBSET (1 .. n)
    PROVE  /\ IsFiniteSet(I) /\ Cardinality(I) \in Nat
           /\ \A i \in I : Rank(I, i) \in 1 .. Cardinality(I)
           /\ \A i, j \in I : i < j => Rank(I, i) < Rank(I, j)
           /\ \A i, j \in I : Rank(I, i) = Rank(I, j) => i = j
<1> DEFINE To(i) == {j \in I : j <= i}
<1>1. IsFiniteSet(I) /\ Cardinality(I) \in Nat
  <2>1. IsFiniteSet(1 .. n)
    BY FS_Interval
  <2>2. QED
    BY <2>1, FS_Subset, FS_CardinalityType
<1>2. \A i \in I : /\ IsFiniteSet(To(i)) /\ Cardinality(To(i)) \in Nat
                   /\ Cardinality(To(i)) <= Cardinality(I)
  <2>1. \A i \in I : To(i) \in SUBSET I
    OBVIOUS
  <2>2. QED
    BY <1>1, <2>1, FS_Subset, FS_CardinalityType
<1>3. \A i \in I : i \in To(i) /\ i \in Nat
  OBVIOUS
<1>4. \A i, j \in I : i < j => j \notin To(i) /\ To(i) \cup {j} \in SUBSET To(j)
  <2>1. ASSUME NEW i \in I, NEW j \in I, i < j
        PROVE  j \notin To(i) /\ To(i) \cup {j} \in SUBSET To(j)
    <3>1. \A k \in I : k \in Nat
      OBVIOUS
    <3>2. ~(j <= i) /\ j <= j /\ \A k \in I : k <= i => k <= j
      BY <2>1, <3>1
    <3>3. QED
      BY <3>2
  <2>2. QED
    BY <2>1
<1> HIDE DEF To
<1>5. \A i \in I : Cardinality(To(i)) \in 1 .. Cardinality(I)
  <2>1. ASSUME NEW i \in I PROVE Cardinality(To(i)) # 0
    BY <1>2, <1>3, FS_EmptySet
  <2>2. QED
    BY <1>1, <1>2, <2>1
<1>6. ASSUME NEW i \in I, NEW j \in I, i < j
      PROVE  Cardinality(To(i)) < Cardinality(To(j))
  <2>1. Cardinality(To(i) \cup {j}) = Cardinality(To(i)) + 1
    BY <1>2, <1>4, <1>6, FS_AddElement
  <2>2. Cardinality(To(i) \cup {j}) <= Cardinality(To(j))
    BY <1>2, <1>4, <1>6, FS_Subset
  <2>3. QED
    BY <1>2, <2>1, <2>2
<1>7. ASSUME NEW i \in I, NEW j \in I, Cardinality(To(i)) = Cardinality(To(j)) PROVE i = j
  <2>1. ~(i < j) /\ ~(j < i)
    BY <1>2, <1>6, <1>7
  <2>2. QED
    BY <1>3, <2>1
<1>8. \A i \in I : Rank(I, i) = Cardinality(To(i))
  BY DEF Rank, To
<1>9. QED
  BY <1>1, <1>5, <1>6, <1>7, <1>8

\* Each rank up to the number of elements is that of one.
LEMMA RankOnto ==
    \A n \in Nat : \A I \in SUBSET (1 .. n) :
        \A k \in 1 .. Cardinality(I) : \E i \in I : Rank(I, i) = k
<1> DEFINE S == {n \in Nat : \A I \in SUBSET (1 .. n) :
                    \A k \in 1 .. Cardinality(I) : \E i \in I : Rank(I, i) = k}
<1>1. 0 \in S
  <2>1. \A I \in SUBSET (1 .. 0) : I = {}
    OBVIOUS
  <2>2. Cardinality({}) = 0
    BY FS_EmptySet
  <2>3. QED
    BY <2>1, <2>2
<1>2. ASSUME NEW n \in Nat, n \in S PROVE n + 1 \in S
  <2>1. ASSUME NEW I \in SUBSET (1 .. n + 1), NEW k \in 1 .. Cardinality(I)
        PROVE  \E i \in I : Rank(I, i) = k
    <3> DEFINE J == I \ {n + 1}
    <3>1. J \in SUBSET (1 .. n)
      OBVIOUS
    <3>2. IsFiniteSet(I) /\ IsFiniteSet(J) /\ Cardinality(J) \in Nat /\ Cardinality(I) \in Nat
      <4>1. IsFiniteSet(I) /\ Cardinality(I) \in Nat
        <5>1. n + 1 \in Nat
          OBVIOUS
        <5>2. QED
          BY <5>1, RankFacts
      <4> HIDE DEF J
      <4>2. IsFiniteSet(J) /\ Cardinality(J) \in Nat
        BY <3>1, RankFacts
      <4>3. QED
        BY <4>1, <4>2
    <3>3. \A i \in J : {j \in I : j <= i} = {j \in J : j <= i}
      OBVIOUS
    <3>4. \A i \in J : Rank(I, i) = Rank(J, i)
      BY <3>3 DEF Rank
    <3>5. \A m \in 1 .. Cardinality(J) : \E i \in J : Rank(J, i) = m
      BY <1>2, <3>1
    <3>6. CASE n + 1 \notin I
      <4>1. J = I
        BY <3>6
      <4>2. QED
        BY <3>5, <4>1
    <3>7. CASE n + 1 \in I
      <4>1. Cardinality(J) = Cardinality(I) - 1
        BY <3>2, <3>7, FS_RemoveElement
      <4>2. {j \in I : j <= n + 1} = I
        <5>1. \A j \in I : j <= n + 1
          OBVIOUS
        <5>2. QED
          BY <5>1
      <4>3. Rank(I, n + 1) = Cardinality(I)
        BY <4>2 DEF Rank
      <4> HIDE DEF J
      <4>4. CASE k = Cardinality(I)
        BY <3>7, <4>3, <4>4
      <4>5. CASE k # Cardinality(I)
        <5>1. k \in 1 .. Cardinality(J)
          BY <3>2, <4>1, <4>5
        <5>2. PICK i \in J : Rank(J, i) = k
          BY <3>5, <5>1
        <5>3. QED
          BY <3>4, <5>2 DEF J
      <4>6. QED
        BY <4>4, <4>5
    <3>8. QED
      BY <3>6, <3>7
  <2>2. QED
    BY <2>1
<1>3. Nat \subseteq S
  <2> HIDE DEF S
  <2>1. QED
    BY <1>1, <1>2, AllNaturals
<1>4. QED
  BY <1>3

\* p lists the positions in I from the first to the last.
Lists(p, n, I) ==
    /\ p \in [1 .. n -> I]
    /\ \A k, m \in 1 .. n : k < m => p[k] < p[m]
    /\ \A i \in I : \E k \in 1 .. n : p[k] = i

\* so does p when it picks them from s
Picks(p, s, I) ==
    /\ Lists(p, Cardinality(I), I)
    /\ \A k \in 1 .. Cardinality(I) : Pick(s, I)[k] = s[p[k]] /\ Rank(I, p[k]) = k

LEMMA PickFacts ==
    ASSUME NEW n \in Nat, NEW I \in SUBSET (1 .. n), NEW s
    PROVE  /\ IsList(Pick(s, I)) /\ Len(Pick(s, I)) = Cardinality(I)
           /\ DOMAIN Pick(s, I) = 1 .. Cardinality(I)
           /\ \E p : Picks(p, s, I)
<1> DEFINE c == Cardinality(I)
           p == [k \in 1 .. c |-> CHOOSE i \in I : Rank(I, i) = k]
<1>1. /\ c \in Nat
      /\ \A i \in I : Rank(I, i) \in 1 .. c
      /\ \A i, j \in I : i < j => Rank(I, i) < Rank(I, j)
      /\ \A i, j \in I : Rank(I, i) = Rank(I, j) => i = j
  BY RankFacts
<1>2. \A k \in 1 .. c : \E i \in I : Rank(I, i) = k
  BY RankOnto
<1>3. Pick(s, I) = [k \in 1 .. c |-> s[CHOOSE i \in I : Rank(I, i) = k]]
  BY DEF Pick, Rank
<1> HIDE DEF c
<1>4. \A k \in 1 .. c : p[k] \in I /\ Rank(I, p[k]) = k
  BY <1>2
<1>5. \A k \in 1 .. c : Pick(s, I)[k] = s[p[k]]
  BY <1>3
<1>6. p \in [1 .. c -> I]
  BY <1>4
<1> HIDE DEF p
<1>7. \A k, m \in 1 .. c : k < m => p[k] < p[m]
  <2>1. ASSUME NEW k \in 1 .. c, NEW m \in 1 .. c, k < m PROVE p[k] < p[m]
    <3>1. p[k] \in I /\ p[m] \in I /\ p[k] \in Nat /\ p[m] \in Nat
      <4>1. I \subseteq Nat
        OBVIOUS
      <4>2. QED
        BY <1>4, <4>1
    <3>2. Rank(I, p[k]) = k /\ Rank(I, p[m]) = m /\ ~(m < k) /\ k # m
      BY <1>1, <1>4, <2>1
    <3>3. ~(p[m] < p[k]) /\ p[k] # p[m]
      BY <1>1, <3>1, <3>2
    <3>4. QED
      BY <3>1, <3>3
  <2>2. QED
    BY <2>1
<1>8. \A i \in I : \E k \in 1 .. c : p[k] = i
  BY <1>1, <1>4
<1>9. IsList(Pick(s, I)) /\ Len(Pick(s, I)) = c /\ DOMAIN Pick(s, I) = 1 .. c
  <2>1. Pick(s, I) = [k \in 1 .. c |-> Pick(s, I)[k]]
    BY <1>3
  <2>2. QED
    BY <1>1, <2>1, ListOf
<1>10. Picks(p, s, I)
  BY <1>4, <1>5, <1>6, <1>7, <1>8 DEF c, Lists, Picks
<1>11. QED
  BY <1>9, <1>10 DEF c

\* There is one such list of a set.
LEMMA ListsUnique ==
    ASSUME NEW I \in SUBSET Nat, NEW a \in Nat, NEW b \in Nat,
           NEW p, NEW q, Lists(p, a, I), Lists(q, b, I)
    PROVE  a = b /\ \A k \in 1 .. a : p[k] = q[k]
<1>0. /\ \A k \in 1 .. a : p[k] \in I /\ p[k] \in Nat
      /\ \A k \in 1 .. b : q[k] \in I /\ q[k] \in Nat
      /\ \A k, m \in 1 .. a : k < m => p[k] < p[m]
      /\ \A k, m \in 1 .. b : k < m => q[k] < q[m]
      /\ \A i \in I : (\E k \in 1 .. a : p[k] = i) /\ (\E k \in 1 .. b : q[k] = i)
  BY DEF Lists
<1> DEFINE S == {k \in 1 .. a : ~(k \in 1 .. b /\ p[k] = q[k])}
<1>1. S = {}
  <2>1. SUFFICES ASSUME S # {} PROVE FALSE
    OBVIOUS
  <2>2. S \subseteq Nat
    OBVIOUS
  <2>3. PICK k \in S : \A m \in S : k <= m
    BY <2>1, <2>2, LeastElement
  <2>4. k \in 1 .. a /\ ~(k \in 1 .. b /\ p[k] = q[k])
    OBVIOUS
  <2>5. \A m \in 1 .. k - 1 : m \in 1 .. a /\ m \in 1 .. b /\ p[m] = q[m]
    BY <2>3, <2>4
  <2> HIDE DEF S
  <2>6. PICK i \in 1 .. b : q[i] = p[k]
    BY <1>0, <2>4
  <2>7. ~(i < k)
    <3>1. ASSUME i < k PROVE FALSE
      <4>1. i \in 1 .. k - 1
        BY <2>4, <2>6, <3>1
      <4>2. p[i] = p[k] /\ p[i] < p[k] /\ p[k] \in Nat
        BY <1>0, <2>4, <2>5, <2>6, <3>1, <4>1
      <4>3. QED
        BY <4>2
    <3>2. QED
      BY <3>1
  <2>8. k \in 1 .. b
    BY <2>4, <2>6, <2>7
  <2>9. i # k
    BY <2>4, <2>6, <2>8
  <2>10. k < i
    BY <2>4, <2>6, <2>7, <2>9
  <2>11. q[k] < q[i]
    BY <1>0, <2>6, <2>8, <2>10
  <2>12. PICK j \in 1 .. a : p[j] = q[k]
    BY <1>0, <2>8
  <2>13. ~(k < j) /\ j # k
    BY <1>0, <2>4, <2>6, <2>8, <2>11, <2>12
  <2>14. j \in 1 .. k - 1
    BY <2>4, <2>12, <2>13
  <2>15. q[j] = q[k] /\ q[j] < q[k] /\ q[k] \in Nat
    BY <1>0, <2>5, <2>8, <2>12, <2>14
  <2>16. QED
    BY <2>15
<1>2. \A k \in 1 .. a : k \in 1 .. b /\ p[k] = q[k]
  BY <1>1
<1>3. ASSUME a < b PROVE FALSE
  <2>1. b \in 1 .. b
    BY <1>3
  <2>2. PICK k \in 1 .. a : p[k] = q[b]
    BY <1>0, <2>1
  <2>3. q[k] = q[b] /\ q[k] < q[b] /\ q[b] \in Nat
    BY <1>0, <1>2, <1>3, <2>1, <2>2
  <2>4. QED
    BY <2>3
<1>4. ~(b < a)
  <2>1. ASSUME b < a PROVE FALSE
    <3>1. a \in 1 .. a
      BY <2>1
    <3>2. a \in 1 .. b
      BY <1>2, <3>1
    <3>3. QED
      BY <2>1, <3>2
  <2>2. QED
    BY <2>1
<1>5. QED
  BY <1>2, <1>3, <1>4

LEMMA PickAgree ==
    ASSUME NEW n \in Nat, NEW I \in SUBSET (1 .. n), NEW s, NEW t,
           \A i \in I : s[i] = t[i]
    PROVE  Pick(s, I) = Pick(t, I)
<1>1. \A k \in 1 .. Cardinality(I) : (CHOOSE i \in I : Rank(I, i) = k) \in I
  BY RankOnto
<1>2. \A k \in 1 .. Cardinality(I) :
        s[CHOOSE i \in I : Rank(I, i) = k] = t[CHOOSE i \in I : Rank(I, i) = k]
  BY <1>1
<1>3. \A u : Pick(u, I) = [k \in 1 .. Cardinality(I) |-> u[CHOOSE i \in I : Rank(I, i) = k]]
  BY DEF Pick, Rank
<1> DEFINE c == Cardinality(I)
           at(k) == CHOOSE i \in I : Rank(I, i) = k
<1>4. \A k \in 1 .. c : s[at(k)] = t[at(k)]
  BY <1>2
<1>5. Pick(s, I) = [k \in 1 .. c |-> s[at(k)]] /\ Pick(t, I) = [k \in 1 .. c |-> t[at(k)]]
  BY <1>3
<1> HIDE DEF c, at
<1>6. QED
  BY <1>4, <1>5

\* One position more, behind the others, is one element more.
LEMMA PickMore ==
    ASSUME NEW n \in Nat, NEW I \in SUBSET (1 .. n), NEW s
    PROVE  Pick(s, I \cup {n + 1}) = Append(Pick(s, I), s[n + 1])
<1> DEFINE J == I \cup {n + 1}
           c == Cardinality(I)
           a == Append(Pick(s, I), s[n + 1])
<1>1. J \in SUBSET (1 .. n + 1) /\ n + 1 \in Nat /\ n + 1 \notin I /\ n + 1 \in J /\ I \subseteq J
  OBVIOUS
<1>2. IsFiniteSet(I) /\ c \in Nat
  BY RankFacts
<1>3. Cardinality(J) = c + 1
  BY <1>1, <1>2, FS_AddElement
<1>4. \A i \in I : {j \in J : j <= i} = {j \in I : j <= i}
  OBVIOUS
<1>5. {j \in J : j <= n + 1} = J
  <2>1. \A j \in J : j <= n + 1
    OBVIOUS
  <2>2. QED
    BY <2>1
<1> HIDE DEF J
<1>6. (\A i \in I : Rank(J, i) = Rank(I, i)) /\ Rank(J, n + 1) = c + 1
  BY <1>3, <1>4, <1>5 DEF Rank
<1>7. \A i, j \in J : Rank(J, i) = Rank(J, j) => i = j
  BY <1>1, RankFacts
<1>8. PICK p : Picks(p, s, I)
  BY PickFacts
<1>9. PICK q : Picks(q, s, J)
  BY <1>1, PickFacts
<1>10. /\ \A k \in 1 .. c : /\ p[k] \in I
                          /\ Pick(s, I)[k] = s[p[k]] /\ Rank(I, p[k]) = k
       /\ \A k \in 1 .. c + 1 : /\ q[k] \in J
                              /\ Pick(s, J)[k] = s[q[k]] /\ Rank(J, q[k]) = k
  BY <1>3, <1>8, <1>9 DEF Picks, Lists
<1> HIDE DEF c
<1>11. /\ IsList(Pick(s, I)) /\ Len(Pick(s, I)) = c /\ DOMAIN Pick(s, I) = 1 .. c
       /\ IsList(Pick(s, J)) /\ Len(Pick(s, J)) = c + 1
  BY <1>1, <1>3, PickFacts DEF c
<1>12. \A k \in 1 .. c : Pick(s, J)[k] = Pick(s, I)[k]
  <2>1. ASSUME NEW k \in 1 .. c PROVE q[k] = p[k]
    <3>1. k \in 1 .. c + 1
      BY <1>2 DEF c
    <3>2. p[k] \in I /\ q[k] \in J /\ Rank(J, q[k]) = k /\ Rank(J, p[k]) = k
      BY <1>6, <1>10, <3>1
    <3>3. QED
      BY <1>1, <1>7, <3>2
  <2>2. \A k \in 1 .. c : k \in 1 .. c + 1
    BY <1>2 DEF c
  <2>3. QED
    BY <1>10, <2>1, <2>2
<1>13. Pick(s, J)[c + 1] = s[n + 1]
  <2>1. c + 1 \in 1 .. c + 1
    BY <1>2 DEF c
  <2>2. q[c + 1] \in J /\ Rank(J, q[c + 1]) = c + 1
    BY <1>10, <2>1
  <2>3. q[c + 1] = n + 1
    BY <1>1, <1>6, <1>7, <2>2
  <2>4. QED
    BY <1>10, <2>1, <2>3
<1>14. /\ IsList(a) /\ Len(a) = c + 1 /\ a[c + 1] = s[n + 1]
       /\ \A k \in 1 .. c : a[k] = Pick(s, I)[k]
  BY <1>11, AppendList
<1> HIDE DEF a
<1>15. \A k \in 1 .. c + 1 : Pick(s, J)[k] = a[k]
  <2>1. \A k \in 1 .. c + 1 : k = c + 1 \/ k \in 1 .. c
    BY <1>2 DEF c
  <2>2. QED
    BY <1>12, <1>13, <1>14, <2>1
<1>16. Pick(s, J) = a
  BY <1>11, <1>14, <1>15, ListsEqual
<1>17. QED
  BY <1>16 DEF J, a

----------------------------------------------------------------------------
(* The rows of a file, and what an append makes of its lines.              *)

Good(lines) == {i \in DOMAIN lines : lines[i] # <<>>}

\* p lists the lines that the rows are read from
Reads(p, f) ==
    /\ Lists(p, Len(Rows(f)), Good(f.lines))
    /\ \A k \in 1 .. Len(Rows(f)) : Rows(f)[k] = f.lines[p[k]][1]

LEMMA GoodLines ==
    ASSUME NEW lines, IsList(lines)
    PROVE  Len(lines) \in Nat /\ Good(lines) \in SUBSET (1 .. Len(lines))
<1>1. Len(lines) \in Nat /\ DOMAIN lines = 1 .. Len(lines)
  BY ListFacts
<1>2. QED
  BY <1>1 DEF Good

LEMMA RowsFacts ==
    ASSUME NEW f, IsList(f.lines)
    PROVE  /\ IsList(Rows(f)) /\ Len(Rows(f)) \in Nat
           /\ DOMAIN Rows(f) = 1 .. Len(Rows(f))
           /\ \E p : Reads(p, f)
<1> DEFINE I == Good(f.lines)
           good == Pick(f.lines, I)
           c == Cardinality(I)
<1>1. Len(f.lines) \in Nat /\ I \in SUBSET (1 .. Len(f.lines))
  BY GoodLines
<1>2. Rows(f) = [i \in DOMAIN good |-> good[i][1]]
  BY DEF Rows, Good
<1> HIDE DEF I
<1>3. /\ IsList(good) /\ Len(good) = c /\ DOMAIN good = 1 .. c
      /\ \E p : Picks(p, f.lines, I)
  BY <1>1, PickFacts
<1>4. PICK p : Picks(p, f.lines, I)
  BY <1>3
<1>5. Lists(p, c, I) /\ \A k \in 1 .. c : good[k] = f.lines[p[k]]
  BY <1>4 DEF Picks
<1>6. c \in Nat
  BY <1>3, ListFacts
<1> HIDE DEF good, c
<1>7. Rows(f) = [i \in 1 .. c |-> good[i][1]]
  BY <1>2, <1>3
<1>8. Rows(f) = [i \in 1 .. c |-> Rows(f)[i]]
  BY <1>7
<1>9. IsList(Rows(f)) /\ Len(Rows(f)) = c /\ DOMAIN Rows(f) = 1 .. c
  BY <1>6, <1>8, ListOf
<1>10. \A k \in 1 .. c : Rows(f)[k] = f.lines[p[k]][1]
  BY <1>5, <1>7
<1>11. Reads(p, f)
  BY <1>5, <1>9, <1>10 DEF Reads, I
<1>12. QED
  BY <1>6, <1>9, <1>11

LEMMA RowsSet ==
    ASSUME NEW f, IsList(f.lines)
    PROVE  /\ \A i \in DOMAIN f.lines : f.lines[i] # <<>> =>
                 \E k \in DOMAIN Rows(f) : Rows(f)[k] = f.lines[i][1]
           /\ \A k \in DOMAIN Rows(f) : \E i \in DOMAIN f.lines :
                 f.lines[i] # <<>> /\ Rows(f)[k] = f.lines[i][1]
<1>1. PICK p : Reads(p, f)
  BY RowsFacts
<1>2. DOMAIN Rows(f) = 1 .. Len(Rows(f))
  BY RowsFacts
<1>3. /\ \A k \in 1 .. Len(Rows(f)) : p[k] \in Good(f.lines) /\ Rows(f)[k] = f.lines[p[k]][1]
      /\ \A i \in Good(f.lines) : \E k \in 1 .. Len(Rows(f)) : p[k] = i
  BY <1>1 DEF Reads, Lists
<1>4. QED
  BY <1>2, <1>3 DEF Good

\* The rows depend on the lines alone.
LEMMA SameRows ==
    ASSUME NEW f, NEW g, f.lines = g.lines
    PROVE  Rows(f) = Rows(g)
  BY DEF Rows

LEMMA RowsAppend ==
    ASSUME NEW f, NEW g, NEW line, IsList(f.lines), g.lines = Append(f.lines, line)
    PROVE  Rows(g) = IF line = <<>> THEN Rows(f) ELSE Append(Rows(f), line[1])
<1> DEFINE n == Len(f.lines)
           I == Good(f.lines)
           J == Good(g.lines)
<1>1. /\ n \in Nat /\ I \in SUBSET (1 .. n) /\ DOMAIN f.lines = 1 .. n
      /\ DOMAIN g.lines = DOMAIN f.lines \cup {n + 1}
      /\ \A i \in DOMAIN f.lines : g.lines[i] = f.lines[i]
      /\ g.lines[n + 1] = line
  BY AppendList, GoodLines, ListFacts
<1>2. J = IF line = <<>> THEN I ELSE I \cup {n + 1}
  BY <1>1 DEF Good
<1>3. \A i \in I : g.lines[i] = f.lines[i]
  BY <1>1
<1>4. /\ Rows(f) = [i \in DOMAIN Pick(f.lines, I) |-> Pick(f.lines, I)[i][1]]
      /\ Rows(g) = [i \in DOMAIN Pick(g.lines, J) |-> Pick(g.lines, J)[i][1]]
  BY DEF Rows, Good
<1> HIDE DEF n, I, J
<1>5. Pick(g.lines, I) = Pick(f.lines, I)
  BY <1>1, <1>3, PickAgree
<1>6. CASE line = <<>>
  BY <1>2, <1>4, <1>5, <1>6
<1>7. CASE line # <<>>
  <2> DEFINE p == Pick(f.lines, I)
             q == Pick(g.lines, J)
             a == Append(Rows(f), line[1])
  <2>1. q = Append(p, line)
    BY <1>1, <1>2, <1>5, <1>7, PickMore
  <2>2. IsList(p)
    BY <1>1, PickFacts
  <2> HIDE DEF p, q
  <2>3. /\ Len(p) \in Nat /\ DOMAIN p = 1 .. Len(p)
        /\ IsList(q) /\ Len(q) = Len(p) + 1 /\ DOMAIN q = 1 .. Len(p) + 1
        /\ \A i \in 1 .. Len(p) : q[i] = p[i]
        /\ q[Len(p) + 1] = line
    BY <2>1, <2>2, AppendList, ListFacts
  <2>4. Rows(f) = [i \in 1 .. Len(p) |-> p[i][1]] /\ Rows(g) = [i \in 1 .. Len(p) + 1 |-> q[i][1]]
    BY <1>4, <2>3 DEF p, q
  <2>5. Rows(f) = [i \in 1 .. Len(p) |-> Rows(f)[i]] /\ Rows(g) = [i \in 1 .. Len(p) + 1 |-> Rows(g)[i]]
    BY <2>4
  <2>6. IsList(Rows(f)) /\ Len(Rows(f)) = Len(p) /\ DOMAIN Rows(f) = 1 .. Len(p)
    BY <2>3, <2>5, ListOf
  <2>7. Len(p) + 1 \in Nat
    BY <2>3
  <2>8. IsList(Rows(g)) /\ Len(Rows(g)) = Len(p) + 1
    BY <2>5, <2>7, ListOf
  <2>9. /\ IsList(a) /\ Len(a) = Len(p) + 1 /\ a[Len(p) + 1] = line[1]
        /\ \A i \in 1 .. Len(p) : a[i] = Rows(f)[i]
    BY <2>6, AppendList
  <2> HIDE DEF a
  <2>10. \A i \in 1 .. Len(p) + 1 : Rows(g)[i] = a[i]
    <3>1. \A i \in 1 .. Len(p) + 1 : i = Len(p) + 1 \/ i \in 1 .. Len(p)
      BY <2>3
    <3>2. QED
      BY <2>3, <2>4, <2>9, <3>1
  <2>11. Rows(g) = a
    BY <2>8, <2>9, <2>10, ListsEqual
  <2>12. QED
    BY <1>7, <2>11 DEF a
<1>8. QED
  BY <1>6, <1>7

----------------------------------------------------------------------------
(* A torn line costs one row.                                              *)

\* what the code leaves of a file at any time
FileOK(f) ==
    /\ f = [lines |-> f.lines, open |-> f.open] /\ f.open \in BOOLEAN
    /\ IsList(f.lines)
    /\ f.open => Len(f.lines) >= 1
    /\ \A i \in DOMAIN f.lines : f.lines[i] # <<>> => f.lines[i] = <<f.lines[i][1]>>

LEMMA WithLineFacts ==
    ASSUME NEW f, NEW line, FileOK(f), line # <<>> => line = <<line[1]>>
    PROVE  /\ IsList(WithLine(f, line)) /\ Len(WithLine(f, line)) >= 1
           /\ DOMAIN f.lines \subseteq DOMAIN WithLine(f, line)
           /\ f.open => /\ Len(f.lines) \in DOMAIN f.lines
                        /\ WithLine(f, line)[Len(f.lines)] = <<>>
                        /\ Len(WithLine(f, line)) = Len(f.lines)
                        /\ \A i \in DOMAIN f.lines : i # Len(f.lines) =>
                               WithLine(f, line)[i] = f.lines[i]
           /\ ~f.open => /\ Len(WithLine(f, line)) = Len(f.lines) + 1
                         /\ Len(f.lines) + 1 \notin DOMAIN f.lines
                         /\ Len(f.lines) + 1 \in DOMAIN WithLine(f, line)
                         /\ WithLine(f, line)[Len(f.lines) + 1] = line
                         /\ \A i \in DOMAIN f.lines : WithLine(f, line)[i] = f.lines[i]
           /\ \A i \in DOMAIN WithLine(f, line) : WithLine(f, line)[i] # <<>> =>
                 WithLine(f, line)[i] = <<WithLine(f, line)[i][1]>>
<1> DEFINE n == Len(f.lines)
           w == WithLine(f, line)
<1>1. /\ n \in Nat /\ DOMAIN f.lines = 1 .. n
      /\ f.open => n >= 1
      /\ \A i \in DOMAIN f.lines : f.lines[i] # <<>> => f.lines[i] = <<f.lines[i][1]>>
  BY ListFacts DEF FileOK
<1>2. CASE f.open
  <2>1. w = [f.lines EXCEPT ![n] = <<>>]
    BY <1>2 DEF WithLine
  <2>2. DOMAIN w = 1 .. n /\ n \in 1 .. n
    BY <1>1, <1>2, <2>1
  <2>3. w[n] = <<>> /\ \A i \in 1 .. n : i # n => w[i] = f.lines[i]
    BY <1>1, <2>1, <2>2
  <2>4. w = [i \in 1 .. n |-> w[i]]
    BY <1>1, <2>1
  <2>5. IsList(w) /\ Len(w) = n
    BY <1>1, <2>4, ListOf
  <2>6. QED
    BY <1>1, <1>2, <2>2, <2>3, <2>5
<1>3. CASE ~f.open
  <2>1. w = Append(f.lines, line)
    BY <1>3 DEF WithLine
  <2>2. /\ IsList(w) /\ Len(w) = n + 1 /\ DOMAIN w = DOMAIN f.lines \cup {n + 1}
        /\ w[n + 1] = line /\ \A i \in DOMAIN f.lines : w[i] = f.lines[i]
    BY <2>1, AppendList DEF FileOK
  <2>3. n + 1 \notin DOMAIN f.lines /\ n + 1 >= 1
    BY <1>1
  <2> HIDE DEF w
  <2>4. \A i \in DOMAIN w : w[i] # <<>> => w[i] = <<w[i][1]>>
    BY <1>1, <2>2
  <2>5. QED
    BY <1>3, <2>2, <2>3, <2>4 DEF w
<1>4. QED
  BY <1>2, <1>3 DEF FileOK

\* Each acknowledged row has a line of its own, which holds it unless the line was
\* spoiled; an open line is nobody's.
PlacedBy(g, A, f) ==
    /\ g \in [A -> DOMAIN f.lines]
    /\ \A r, q \in A : g[r] = g[q] => r = q
    /\ \A r \in A : f.lines[g[r]] \in {<<r>>, <<>>}
    /\ f.open => \A r \in A : g[r] # Len(f.lines)
Placed(A, f) == \E g : PlacedBy(g, A, f)

\* Acknowledged rows that are not read had their lines spoiled.
LEMMA PlacedBounds ==
    ASSUME NEW f, NEW A, FileOK(f), Placed(A, f)
    PROVE  Cardinality(A \ ToSet(Rows(f)))
               <= Cardinality({i \in DOMAIN f.lines : f.lines[i] = <<>>})
<1> DEFINE lost == A \ ToSet(Rows(f))
           bad == {i \in DOMAIN f.lines : f.lines[i] = <<>>}
<1>1. PICK g : PlacedBy(g, A, f)
  BY DEF Placed
<1>2. Len(f.lines) \in Nat /\ DOMAIN f.lines = 1 .. Len(f.lines)
  BY ListFacts DEF FileOK
<1>3. IsFiniteSet(bad)
  <2>1. IsFiniteSet(1 .. Len(f.lines))
    BY <1>2, FS_Interval
  <2>2. QED
    BY <1>2, <2>1, FS_Subset
<1>4. \A r \in lost : g[r] \in bad
  <2>1. ASSUME NEW r \in lost, f.lines[g[r]] # <<>> PROVE FALSE
    <3>1. r \in A /\ g[r] \in DOMAIN f.lines /\ f.lines[g[r]] = <<r>>
      BY <1>1, <2>1 DEF PlacedBy
    <3>2. \E k \in DOMAIN Rows(f) : Rows(f)[k] = r
      BY <2>1, <3>1, RowsSet DEF FileOK
    <3>3. r \in ToSet(Rows(f))
      BY <3>2 DEF ToSet
    <3>4. QED
      BY <3>3
  <2>2. QED
    BY <1>1, <2>1 DEF PlacedBy
<1>5. [r \in lost |-> g[r]] \in Injection(lost, bad)
  <2> DEFINE h == [r \in lost |-> g[r]]
  <2>1. h \in [lost -> bad]
    BY <1>4
  <2>2. \A r, q \in lost : h[r] = h[q] => r = q
    BY <1>1 DEF PlacedBy
  <2> HIDE DEF h, lost, bad
  <2>3. QED
    BY <2>1, <2>2 DEF Injection, IsInjective, h
<1> HIDE DEF lost, bad
<1>6. Cardinality(lost) <= Cardinality(bad)
  BY <1>3, <1>5, FS_Injection
<1>7. QED
  BY <1>6 DEF lost, bad

\* A row that is written, whole or in part, leaves the others their lines.
LEMMA PlacedAppend ==
    ASSUME NEW f, NEW A, FileOK(f), Placed(A, f), NEW row
    PROVE  FileOK(AppendLine(f, row)) /\ Placed(A \cup {row}, AppendLine(f, row))
<1> DEFINE w == WithLine(f, <<row>>)
           n == Len(f.lines)
           e == AppendLine(f, row)
<1>1. <<row>> # <<>> /\ <<row>> = <<<<row>>[1]>>
  OBVIOUS
<1>2. e.lines = w /\ e.open = FALSE /\ e = [lines |-> w, open |-> FALSE]
  BY DEF AppendLine
<1> HIDE DEF e
<1>3. /\ IsList(w) /\ DOMAIN f.lines \subseteq DOMAIN w
      /\ f.open => /\ n \in DOMAIN f.lines /\ w[n] = <<>>
                   /\ \A i \in DOMAIN f.lines : i # n => w[i] = f.lines[i]
      /\ ~f.open => /\ n + 1 \notin DOMAIN f.lines /\ n + 1 \in DOMAIN w /\ w[n + 1] = <<row>>
                    /\ \A i \in DOMAIN f.lines : w[i] = f.lines[i]
      /\ \A i \in DOMAIN w : w[i] # <<>> => w[i] = <<w[i][1]>>
  BY <1>1, WithLineFacts
<1> HIDE DEF w
<1>4. FileOK(e)
  BY <1>2, <1>3 DEF FileOK
<1>5. PICK g : PlacedBy(g, A, f)
  BY DEF Placed
<1>6. /\ g \in [A -> DOMAIN f.lines]
      /\ \A r, q \in A : g[r] = g[q] => r = q
      /\ \A r \in A : f.lines[g[r]] \in {<<r>>, <<>>}
      /\ f.open => \A r \in A : g[r] # n
  BY <1>5 DEF PlacedBy
<1>7. PICK k \in DOMAIN w : w[k] \in {<<row>>, <<>>} /\ \A r \in A : g[r] # k /\ w[g[r]] = f.lines[g[r]]
  <2>1. CASE f.open
    <3>1. n \in DOMAIN w /\ w[n] \in {<<row>>, <<>>}
      BY <1>3, <2>1
    <3>2. \A r \in A : g[r] \in DOMAIN f.lines /\ g[r] # n
      BY <1>6, <2>1
    <3>3. \A r \in A : w[g[r]] = f.lines[g[r]]
      BY <1>3, <2>1, <3>2
    <3>4. QED
      BY <3>1, <3>2, <3>3
  <2>2. CASE ~f.open
    <3>1. n + 1 \in DOMAIN w /\ w[n + 1] \in {<<row>>, <<>>}
      BY <1>3, <2>2
    <3>2. \A r \in A : g[r] \in DOMAIN f.lines /\ g[r] # n + 1
      BY <1>3, <1>6, <2>2
    <3>3. \A r \in A : w[g[r]] = f.lines[g[r]]
      BY <1>3, <2>2, <3>2
    <3>4. QED
      BY <3>1, <3>2, <3>3
  <2>3. QED
    BY <2>1, <2>2
<1> DEFINE B == A \cup {row}
           h == [r \in B |-> IF r \in A THEN g[r] ELSE k]
<1>8. h \in [B -> DOMAIN w]
  <2>1. \A r \in A : g[r] \in DOMAIN w
    BY <1>3, <1>6
  <2>2. QED
    BY <1>7, <2>1
<1>9. \A r \in B : (r \in A /\ h[r] = g[r]) \/ (r \notin A /\ r = row /\ h[r] = k)
  OBVIOUS
<1> HIDE DEF B, h
<1>10. \A r, q \in B : h[r] = h[q] => r = q
  BY <1>6, <1>7, <1>9
<1>11. \A r \in B : w[h[r]] \in {<<r>>, <<>>}
  <2>1. ASSUME NEW r \in B PROVE w[h[r]] \in {<<r>>, <<>>}
    <3>1. CASE r \in A /\ h[r] = g[r]
      <4>1. w[h[r]] = f.lines[g[r]] /\ f.lines[g[r]] \in {<<r>>, <<>>}
        BY <1>6, <1>7, <3>1
      <4>2. QED
        BY <4>1
    <3>2. CASE r = row /\ h[r] = k
      BY <1>7, <3>2
    <3>3. QED
      BY <1>9, <3>1, <3>2
  <2>2. QED
    BY <2>1
<1>12. PlacedBy(h, B, e)
  BY <1>2, <1>8, <1>10, <1>11 DEF PlacedBy
<1>13. QED
  BY <1>4, <1>12 DEF Placed, B, e

LEMMA PlacedTorn ==
    ASSUME NEW f, NEW A, FileOK(f), Placed(A, f), NEW row, NEW tear
    PROVE  FileOK(TornLine(f, row, tear)) /\ Placed(A, TornLine(f, row, tear))
<1> DEFINE line == IF tear = "line" THEN <<row>> ELSE <<>>
           w == WithLine(f, line)
           n == Len(f.lines)
           e == TornLine(f, row, tear)
<1>1. line # <<>> => line = <<line[1]>>
  OBVIOUS
<1>2. e.lines = w /\ e.open = TRUE /\ e = [lines |-> w, open |-> TRUE]
  BY DEF TornLine
<1> HIDE DEF e, line
<1>3. /\ IsList(w) /\ DOMAIN f.lines \subseteq DOMAIN w /\ Len(w) >= 1
      /\ f.open => /\ Len(w) = n
                   /\ \A i \in DOMAIN f.lines : i # n => w[i] = f.lines[i]
      /\ ~f.open => /\ Len(w) = n + 1 /\ n + 1 \notin DOMAIN f.lines
                    /\ \A i \in DOMAIN f.lines : w[i] = f.lines[i]
      /\ \A i \in DOMAIN w : w[i] # <<>> => w[i] = <<w[i][1]>>
  BY <1>1, WithLineFacts
<1> HIDE DEF w
<1>4. FileOK(e)
  BY <1>2, <1>3 DEF FileOK
<1>5. PICK g : PlacedBy(g, A, f)
  BY DEF Placed
<1>6. /\ g \in [A -> DOMAIN f.lines]
      /\ \A r, q \in A : g[r] = g[q] => r = q
      /\ \A r \in A : f.lines[g[r]] \in {<<r>>, <<>>}
      /\ f.open => \A r \in A : g[r] # n
  BY <1>5 DEF PlacedBy
<1>7. g \in [A -> DOMAIN w]
  BY <1>3, <1>6
<1>8. \A r \in A : w[g[r]] = f.lines[g[r]] /\ g[r] # Len(w)
  <2>1. f.open \in BOOLEAN
    BY DEF FileOK
  <2>2. QED
    BY <1>3, <1>6, <2>1
<1>9. PlacedBy(g, A, e)
  BY <1>2, <1>6, <1>7, <1>8 DEF PlacedBy
<1>10. QED
  BY <1>4, <1>9 DEF Placed, e

----------------------------------------------------------------------------
\* What every step but an append leaves alone, and which steps append.
LEMMA StepWrites ==
    ASSUME [MigrateNext]_migrateVars
    PROVE  \/ files' = files /\ acked' = acked
           \/ \E n \in FileNames : \E row : AppendRow(n, row) \/ TearRow(n, row)
<1>0. {"images", "anchors", "manifest", "ledger"} \subseteq FileNames
  BY FileNamesAssumption, OttFilesAssumption
<1>1. CASE UNCHANGED migrateVars
  BY <1>1 DEF migrateVars
<1>2. CASE ImgFsCommand
  BY <1>0, <1>2 DEF ImgFsCommand, ImgCommit, ImgAdd
<1>3. CASE ImgTick /\ UNCHANGED ottVars
  BY <1>3 DEF ImgTick, storage
<1>4. CASE \E migrate \in BOOLEAN : InitStore(migrate)
  BY <1>4 DEF InitStore, storage
<1>5. CASE MigrateBegin \/ MigrateLedger \/ MigrateEnd \/ Die
  BY <1>5 DEF MigrateBegin, MigrateLedger, MigrateEnd, Die, storage
<1>6. CASE MigrateEntry
  BY <1>0, <1>6 DEF MigrateEntry, AppendNext
<1>7. CASE MigrateRow
  BY <1>0, <1>7 DEF MigrateRow, AppendNext
<1>8. CASE Commit
  BY <1>0, <1>8 DEF Commit
<1>9. CASE \E d \in Digests : Rm(d)
  BY <1>0, <1>9 DEF Rm
<1>10. QED
  BY <1>1, <1>2, <1>3, <1>4, <1>5, <1>6, <1>7, <1>8, <1>9 DEF MigrateNext

FilesInv ==
    /\ files = [n \in FileNames |-> files[n]]
    /\ acked = [n \in FileNames |-> acked[n]]
    /\ \A n \in FileNames : FileOK(files[n]) /\ Placed(acked[n], files[n])

LEMMA FilesInvInit == MigrateInit => FilesInv
<1> SUFFICES ASSUME MigrateInit PROVE FilesInv
  OBVIOUS
<1>1. /\ files = [n \in FileNames |-> [lines |-> <<>>, open |-> FALSE]]
      /\ acked = [n \in FileNames |-> {}]
  BY DEF MigrateInit, ImgInit, EmptyFile
<1>2. IsList(<<>>) /\ DOMAIN <<>> = {}
  BY DEF IsList
<1>3. ASSUME NEW n \in FileNames PROVE FileOK(files[n]) /\ Placed(acked[n], files[n])
  <2>1. files[n] = [lines |-> <<>>, open |-> FALSE] /\ acked[n] = {}
    BY <1>1
  <2>2. /\ files[n].lines = <<>> /\ files[n].open = FALSE
        /\ files[n] = [lines |-> files[n].lines, open |-> files[n].open]
    BY <2>1
  <2>3. FileOK(files[n])
    BY <1>2, <2>2 DEF FileOK
  <2>4. PlacedBy([r \in {} |-> 1], acked[n], files[n])
    BY <2>1, <2>2 DEF PlacedBy
  <2>5. QED
    BY <2>3, <2>4 DEF Placed
<1>4. QED
  BY <1>1, <1>3 DEF FilesInv

LEMMA FilesInvNext == FilesInv /\ [MigrateNext]_migrateVars => FilesInv'
<1> SUFFICES ASSUME FilesInv, [MigrateNext]_migrateVars PROVE FilesInv'
  OBVIOUS
<1>1. CASE files' = files /\ acked' = acked
  BY <1>1 DEF FilesInv
<1>2. ASSUME NEW n \in FileNames, NEW row, AppendRow(n, row) PROVE FilesInv'
  <2>1. /\ files' = [files EXCEPT ![n] = AppendLine(files[n], row)]
        /\ acked' = [acked EXCEPT ![n] = acked[n] \cup {row}]
    BY <1>2 DEF AppendRow
  <2>2. /\ FileOK(AppendLine(files[n], row))
        /\ Placed(acked[n] \cup {row}, AppendLine(files[n], row))
    BY PlacedAppend DEF FilesInv
  <2>3. /\ files'[n] = AppendLine(files[n], row) /\ acked'[n] = acked[n] \cup {row}
        /\ \A m \in FileNames : m # n => files'[m] = files[m] /\ acked'[m] = acked[m]
        /\ files' = [m \in FileNames |-> files'[m]]
        /\ acked' = [m \in FileNames |-> acked'[m]]
    BY <2>1 DEF FilesInv
  <2>4. ASSUME NEW m \in FileNames PROVE FileOK(files'[m]) /\ Placed(acked'[m], files'[m])
    <3>1. CASE m = n
      BY <2>2, <2>3, <3>1
    <3>2. CASE m # n
      BY <2>3, <3>2 DEF FilesInv
    <3>3. QED
      BY <3>1, <3>2
  <2>5. QED
    BY <2>3, <2>4 DEF FilesInv
<1>3. ASSUME NEW n \in FileNames, NEW row, TearRow(n, row) PROVE FilesInv'
  <2>1. PICK tear \in Torn : files' = [files EXCEPT ![n] = TornLine(files[n], row, tear)]
    BY <1>3 DEF TearRow
  <2>2. acked' = acked
    BY <1>3 DEF TearRow
  <2>3. FileOK(TornLine(files[n], row, tear)) /\ Placed(acked[n], TornLine(files[n], row, tear))
    BY PlacedTorn DEF FilesInv
  <2>4. /\ files'[n] = TornLine(files[n], row, tear)
        /\ \A m \in FileNames : m # n => files'[m] = files[m]
        /\ files' = [m \in FileNames |-> files'[m]]
    BY <2>1 DEF FilesInv
  <2>5. ASSUME NEW m \in FileNames PROVE FileOK(files'[m]) /\ Placed(acked'[m], files'[m])
    <3>1. CASE m = n
      BY <2>2, <2>3, <2>4, <3>1
    <3>2. CASE m # n
      BY <2>2, <2>4, <3>2 DEF FilesInv
    <3>3. QED
      BY <3>1, <3>2
  <2>6. QED
    BY <2>2, <2>4, <2>5 DEF FilesInv
<1>4. QED
  BY <1>1, <1>2, <1>3, StepWrites

LEMMA FilesInvariant == MigrateSpec => []FilesInv
<1>1. QED
  BY FilesInvInit, FilesInvNext, PTL DEF MigrateSpec

\* A line that does not parse costs at most one acknowledged row of its file: the
\* appends of imgfs.py and ott.py to a .jsonl file, whole or cut short in either
\* way, whatever is appended and however often.
THEOREM TornLinesCostOneRow == MigrateSpec => []LossBounded
<1>1. FilesInv => LossBounded
  BY PlacedBounds DEF FilesInv, LossBounded, Load
<1>2. QED
  BY <1>1, FilesInvariant, PTL

----------------------------------------------------------------------------
(* What an append does, when no line is torn by its newline alone.         *)

LastLine(f) == f.lines[Len(f.lines)]
Unread(f) == f.open => LastLine(f) = <<>>

\* the row is read from a line of its own
Wrote(f, g, row) ==
    /\ ~f.open /\ ~g.open
    /\ g.lines = Append(f.lines, <<row>>)
    /\ Rows(g) = Append(Rows(f), row)

\* no row is read but those that were
Spoiled(f, g) ==
    /\ Rows(g) = Rows(f)
    /\ g.lines \in {f.lines, Append(f.lines, <<>>)}
    /\ \E i \in DOMAIN g.lines : g.lines[i] = <<>>

LEMMA Extended ==
    ASSUME NEW f, NEW line, FileOK(f), Unread(f)
    PROVE  /\ f.open => /\ WithLine(f, line) = f.lines
                        /\ Len(f.lines) \in DOMAIN f.lines /\ LastLine(f) = <<>>
           /\ ~f.open => WithLine(f, line) = Append(f.lines, line)
<1>1. CASE f.open
  <2>1. f.lines[Len(f.lines)] = <<>> /\ WithLine(f, line) = [f.lines EXCEPT ![Len(f.lines)] = <<>>]
    BY <1>1 DEF WithLine, Unread, LastLine
  <2>2. f.lines = [i \in 1 .. Len(f.lines) |-> f.lines[i]] /\ DOMAIN f.lines = 1 .. Len(f.lines)
    BY ListFacts DEF FileOK
  <2>3. Len(f.lines) \in 1 .. Len(f.lines)
    <3>1. Len(f.lines) \in Nat /\ Len(f.lines) >= 1
      BY <1>1, ListFacts DEF FileOK
    <3>2. QED
      BY <3>1
  <2>4. WithLine(f, line) = f.lines
    BY <2>1, <2>2
  <2>5. QED
    BY <1>1, <2>1, <2>2, <2>3, <2>4 DEF LastLine
<1>2. CASE ~f.open
  BY <1>2 DEF WithLine
<1>3. QED
  BY <1>1, <1>2

LEMMA AppendedLine ==
    ASSUME NEW f, NEW row, FileOK(f), Unread(f)
    PROVE  /\ Unread(AppendLine(f, row)) /\ ~AppendLine(f, row).open
           /\ f.open => Spoiled(f, AppendLine(f, row))
           /\ ~f.open => Wrote(f, AppendLine(f, row), row)
<1> DEFINE g == AppendLine(f, row)
<1>1. g.lines = WithLine(f, <<row>>) /\ g.open = FALSE
  BY DEF AppendLine
<1> HIDE DEF g
<1>2. IsList(f.lines)
  BY DEF FileOK
<1>3. CASE f.open
  <2>1. g.lines = f.lines /\ \E i \in DOMAIN g.lines : g.lines[i] = <<>>
    BY <1>1, <1>3, Extended DEF LastLine
  <2>2. QED
    BY <1>1, <1>3, <2>1, SameRows DEF Spoiled, Unread, g
<1>4. CASE ~f.open
  <2>1. g.lines = Append(f.lines, <<row>>)
    BY <1>1, <1>4, Extended
  <2>2. <<row>> # <<>> /\ <<row>>[1] = row
    OBVIOUS
  <2>3. Rows(g) = Append(Rows(f), row)
    BY <1>2, <2>1, <2>2, RowsAppend
  <2>4. QED
    BY <1>1, <1>4, <2>1, <2>3 DEF Wrote, Unread, g
<1>5. QED
  BY <1>3, <1>4 DEF g

LEMMA TornLines ==
    ASSUME NEW f, NEW row, NEW tear, FileOK(f), Unread(f), tear # "line"
    PROVE  Unread(TornLine(f, row, tear)) /\ Spoiled(f, TornLine(f, row, tear))
<1> DEFINE g == TornLine(f, row, tear)
<1>1. g.lines = WithLine(f, <<>>) /\ g.open = TRUE
  BY DEF TornLine
<1> HIDE DEF g
<1>2. IsList(f.lines)
  BY DEF FileOK
<1>3. CASE f.open
  <2>1. /\ g.lines = f.lines /\ LastLine(g) = <<>>
        /\ \E i \in DOMAIN g.lines : g.lines[i] = <<>>
    BY <1>1, <1>3, Extended DEF LastLine
  <2>2. QED
    BY <1>1, <1>3, <2>1, SameRows DEF Spoiled, Unread, g
<1>4. CASE ~f.open
  <2>1. g.lines = Append(f.lines, <<>>)
    BY <1>1, <1>4, Extended
  <2>2. Rows(g) = Rows(f)
    BY <1>2, <2>1, RowsAppend
  <2>3. /\ LastLine(g) = <<>> /\ \E i \in DOMAIN g.lines : g.lines[i] = <<>>
    BY <1>2, <2>1, AppendList DEF LastLine
  <2>4. QED
    BY <1>1, <2>1, <2>2, <2>3 DEF Spoiled, Unread, g
<1>5. QED
  BY <1>3, <1>4 DEF g

UnreadInv == \A n \in FileNames : Unread(files[n])

Others(n) == \A m \in FileNames : m # n => files'[m] = files[m]

LEMMA AppendWrites ==
    ASSUME FilesInv, UnreadInv, NEW n \in FileNames, NEW row, AppendRow(n, row)
    PROVE  /\ Others(n) /\ Unread(files'[n]) /\ ~files'[n].open
           /\ \/ Wrote(files[n], files'[n], row)
              \/ files[n].open /\ Spoiled(files[n], files'[n])
<1>1. files' = [files EXCEPT ![n] = AppendLine(files[n], row)]
  BY DEF AppendRow
<1>2. files'[n] = AppendLine(files[n], row) /\ Others(n)
  BY <1>1 DEF FilesInv, Others
<1>3. FileOK(files[n]) /\ Unread(files[n])
  BY DEF FilesInv, UnreadInv
<1>4. QED
  BY <1>2, <1>3, AppendedLine

LEMMA TearWrites ==
    ASSUME FilesInv, UnreadInv, "line" \notin Torn, NEW n \in FileNames, NEW row, TearRow(n, row)
    PROVE  Others(n) /\ Unread(files'[n]) /\ Spoiled(files[n], files'[n])
<1>1. PICK tear \in Torn : files' = [files EXCEPT ![n] = TornLine(files[n], row, tear)]
  BY DEF TearRow
<1>2. files'[n] = TornLine(files[n], row, tear) /\ Others(n)
  BY <1>1 DEF FilesInv, Others
<1>3. FileOK(files[n]) /\ Unread(files[n]) /\ tear # "line"
  BY DEF FilesInv, UnreadInv
<1>4. QED
  BY <1>2, <1>3, TornLines

\* A row is appended to one file.
Writes(n, row) ==
    /\ Others(n) /\ Unread(files'[n])
    /\ Wrote(files[n], files'[n], row) \/ Spoiled(files[n], files'[n])

LEMMA EitherWrites ==
    ASSUME FilesInv, UnreadInv, "line" \notin Torn, NEW n \in FileNames, NEW row,
           AppendRow(n, row) \/ TearRow(n, row)
    PROVE  Writes(n, row)
  BY AppendWrites, TearWrites DEF Writes

LEMMA UnreadInvInit == MigrateInit => UnreadInv
  BY DEF MigrateInit, ImgInit, EmptyFile, UnreadInv, Unread

LEMMA UnreadInvNext ==
    ASSUME "line" \notin Torn, FilesInv, UnreadInv, [MigrateNext]_migrateVars
    PROVE  UnreadInv'
<1>1. CASE files' = files
  BY <1>1 DEF UnreadInv
<1>2. ASSUME NEW n \in FileNames, NEW row, AppendRow(n, row) \/ TearRow(n, row) PROVE UnreadInv'
  <2>1. Others(n) /\ Unread(files'[n])
    BY <1>2, EitherWrites DEF Writes
  <2>2. ASSUME NEW m \in FileNames PROVE Unread(files'[m])
    <3>1. CASE m = n
      BY <2>1, <3>1
    <3>2. CASE m # n
      <4>1. files'[m] = files[m]
        BY <2>1, <3>2 DEF Others
      <4>2. QED
        BY <4>1 DEF UnreadInv
    <3>3. QED
      BY <3>1, <3>2
  <2>3. QED
    BY <2>2 DEF UnreadInv
<1>3. QED
  BY <1>1, <1>2, StepWrites

----------------------------------------------------------------------------
(* The steps, by the files they write.                                     *)

Import == Load("images")
Anchors == Load("anchors")
Ledger == Load("ledger")

Names == {"images", "anchors", "manifest", "ledger"}

LEMMA FourFiles ==
    /\ "images" \in FileNames /\ "anchors" \in FileNames
    /\ "manifest" \in FileNames /\ "ledger" \in FileNames
  BY FileNamesAssumption, OttFilesAssumption

\* a step that writes no file
Quiet ==
    /\ files' = files
    /\ Import' = Import /\ Anchors' = Anchors /\ Ledger' = Ledger /\ Lines' = Lines

\* a step that writes the file n
WritesOnly(n, row) ==
    /\ Writes(n, row)
    /\ n # "images" => Import' = Import
    /\ n # "anchors" => Anchors' = Anchors
    /\ n # "ledger" => Ledger' = Ledger
    /\ n # "manifest" => Lines' = Lines

LEMMA QuietFacts ==
    ASSUME files' = files PROVE Quiet
  BY DEF Quiet, Import, Anchors, Ledger, Lines, Load

LEMMA WritesFacts ==
    ASSUME NEW n \in FileNames, NEW row, Writes(n, row)
    PROVE  WritesOnly(n, row)
<1>1. \A m \in FileNames : m # n => files'[m] = files[m]
  BY DEF Writes, Others
<1>2. QED
  BY <1>1, FourFiles DEF WritesOnly, Import, Anchors, Ledger, Lines, Load

Tombstone(d) == [Entry(d) EXCEPT !.deleted = TRUE, !.added = 0]

LEMMA TombstoneFields ==
    ASSUME NEW d
    PROVE  /\ Entry(d).digest = d /\ Entry(d).added = now /\ Entry(d).deleted = FALSE
           /\ Tombstone(d).digest = d /\ Tombstone(d).deleted = TRUE
           /\ Tombstone(d).added = 0
<1>1. Entry(d) = [digest |-> d, added |-> now, deleted |-> FALSE]
  BY DEF Entry
<1>2. QED
  BY <1>1 DEF Tombstone

\* what the steps do beside
Kinds ==
    \/ /\ Quiet /\ UNCHANGED <<now, made, job, pending, own>>
    \/ /\ Quiet /\ now' = now + 1 /\ UNCHANGED <<made, job, pending, own>>
    \/ \E migrate \in BOOLEAN : InitStore(migrate) /\ Quiet
    \/ MigrateBegin /\ Quiet
    \/ MigrateLedger /\ Quiet
    \/ MigrateEnd /\ Quiet
    \/ Die /\ Quiet
    \/ \E d \in Digests : job = Idle /\ ImgAdd(d) /\ WritesOnly("images", Entry(d)) /\ UNCHANGED ottVars
    \/ /\ job = Idle /\ ImgCommit /\ WritesOnly("anchors", LedgerRow(ImgLeaves)) /\ UNCHANGED ottVars
    \/ /\ MigrateEntry /\ WritesOnly("manifest", Head(job.todo))
    \/ /\ MigrateRow /\ WritesOnly("ledger", Head(job.todo))
    \/ \E d \in Digests : Rm(d) /\ WritesOnly("manifest", Tombstone(d))
    \/ Commit /\ WritesOnly("ledger", LedgerRow(Leaves))

LEMMA StepKinds ==
    ASSUME "line" \notin Torn, FilesInv, UnreadInv, [MigrateNext]_migrateVars
    PROVE  Kinds
<1>1. CASE UNCHANGED migrateVars
  <2>1. files' = files /\ UNCHANGED <<now, made, job, pending, own>>
    BY <1>1 DEF migrateVars
  <2>2. QED
    BY <2>1, QuietFacts DEF Kinds
<1>2. CASE ImgTick /\ UNCHANGED ottVars
  <2>1. files' = files /\ now' = now + 1 /\ UNCHANGED <<made, job, pending, own>>
    BY <1>2 DEF ImgTick, storage, ottVars
  <2>2. QED
    BY <2>1, QuietFacts DEF Kinds
<1>3. ASSUME NEW migrate \in BOOLEAN, InitStore(migrate) PROVE Kinds
  BY <1>3, QuietFacts DEF Kinds, InitStore, storage
<1>4. CASE MigrateBegin
  BY <1>4, QuietFacts DEF Kinds, MigrateBegin, storage
<1>5. CASE MigrateLedger
  BY <1>5, QuietFacts DEF Kinds, MigrateLedger, storage
<1>6. CASE MigrateEnd
  BY <1>6, QuietFacts DEF Kinds, MigrateEnd, storage
<1>7. CASE Die
  BY <1>7, QuietFacts DEF Kinds, Die
<1>8. CASE ImgFsCommand
  <2>1. CASE ImgCommit
    <3>1. WritesOnly("anchors", LedgerRow(ImgLeaves))
      BY <2>1, FourFiles, EitherWrites, WritesFacts DEF ImgCommit
    <3>2. QED
      BY <1>8, <2>1, <3>1 DEF Kinds, ImgFsCommand
  <2>2. ASSUME NEW d \in Digests, ImgAdd(d) PROVE Kinds
    <3>1. WritesOnly("images", Entry(d))
      BY <2>2, FourFiles, EitherWrites, WritesFacts DEF ImgAdd
    <3>2. QED
      BY <1>8, <2>2, <3>1 DEF Kinds, ImgFsCommand
  <2>3. QED
    BY <1>8, <2>1, <2>2 DEF ImgFsCommand
<1>9. CASE MigrateEntry
  <2>1. WritesOnly("manifest", Head(job.todo))
    BY <1>9, FourFiles, EitherWrites, WritesFacts DEF MigrateEntry, AppendNext
  <2>2. QED
    BY <1>9, <2>1 DEF Kinds
<1>10. CASE MigrateRow
  <2>1. WritesOnly("ledger", Head(job.todo))
    BY <1>10, FourFiles, EitherWrites, WritesFacts DEF MigrateRow, AppendNext
  <2>2. QED
    BY <1>10, <2>1 DEF Kinds
<1>11. CASE Commit
  <2>1. WritesOnly("ledger", LedgerRow(Leaves))
    BY <1>11, FourFiles, EitherWrites, WritesFacts DEF Commit
  <2>2. QED
    BY <1>11, <2>1 DEF Kinds
<1>12. ASSUME NEW d \in Digests, Rm(d) PROVE Kinds
  <2>1. WritesOnly("manifest", Tombstone(d))
    BY <1>12, FourFiles, EitherWrites, WritesFacts DEF Rm, Tombstone
  <2>2. QED
    BY <1>12, <2>1 DEF Kinds
<1>13. QED
  BY <1>1, <1>2, <1>3, <1>4, <1>5, <1>6, <1>7, <1>8, <1>9, <1>10, <1>11, <1>12 DEF MigrateNext

----------------------------------------------------------------------------
(* imgfs: a manifest of distinct files, a ledger in the order of time.     *)

ImgInv ==
    /\ now \in Nat
    /\ \A i, j \in DOMAIN Import : Import[i].digest = Import[j].digest => i = j
    /\ \A i \in DOMAIN Import : ~Import[i].deleted /\ Import[i].added \in Nat
    /\ \A i, j \in DOMAIN Anchors : i < j => Anchors[i].ts <= Anchors[j].ts
    /\ \A i \in DOMAIN Anchors : Anchors[i].ts \in Nat /\ Anchors[i].ts <= now

LEMMA LoadFacts ==
    ASSUME FilesInv, NEW n \in FileNames
    PROVE  /\ IsList(Load(n)) /\ Len(Load(n)) \in Nat /\ DOMAIN Load(n) = 1 .. Len(Load(n))
           /\ IsList(files[n].lines)
<1>1. IsList(files[n].lines)
  BY DEF FilesInv, FileOK
<1>2. QED
  BY <1>1, RowsFacts DEF Load

LEMMA WritesLoad ==
    ASSUME NEW n, NEW row, Writes(n, row)
    PROVE  Load(n)' \in {Load(n), Append(Load(n), row)}
  BY DEF Writes, Wrote, Spoiled, Load

LEMMA NoRows ==
    ASSUME MigrateInit, NEW n \in FileNames
    PROVE  Load(n) = <<>> /\ files[n].lines = <<>> /\ files[n].open = FALSE
<1>1. files[n] = [lines |-> <<>>, open |-> FALSE]
  BY DEF MigrateInit, ImgInit, EmptyFile
<1>2. files[n].lines = <<>> /\ IsList(<<>>) /\ DOMAIN <<>> = {}
  BY <1>1 DEF IsList
<1>3. DOMAIN Load(n) = {} /\ IsList(Load(n))
  <2>1. \A k \in DOMAIN Rows(files[n]) : \E i \in DOMAIN <<>> : TRUE
    BY <1>2, RowsSet
  <2>2. QED
    BY <1>2, <2>1, RowsFacts DEF Load
<1>4. Load(n) = <<>>
  <2>1. Len(Load(n)) = 0
    BY <1>3, ListFacts
  <2>2. Len(<<>>) = 0 /\ \A i \in 1 .. 0 : FALSE
    OBVIOUS
  <2>3. QED
    BY <1>2, <1>3, <2>1, <2>2, ListsEqual
<1>5. QED
  BY <1>1, <1>4

LEMMA ImgInvInit == MigrateInit => ImgInv
<1> SUFFICES ASSUME MigrateInit PROVE ImgInv
  OBVIOUS
<1>1. Import = <<>> /\ Anchors = <<>>
  BY FourFiles, NoRows DEF Import, Anchors
<1>2. now = 0 /\ DOMAIN <<>> = {}
  BY DEF MigrateInit, ImgInit
<1>3. QED
  BY <1>1, <1>2 DEF ImgInv

LEMMA ImgInvNext ==
    ASSUME FilesInv, ImgInv, Kinds PROVE ImgInv'
<1> DEFINE a == Len(Import)
           b == Len(Anchors)
<1>1. /\ IsList(Import) /\ a \in Nat /\ DOMAIN Import = 1 .. a
      /\ IsList(Anchors) /\ b \in Nat /\ DOMAIN Anchors = 1 .. b
  BY FourFiles, LoadFacts DEF Import, Anchors
<1>2. CASE Import' = Import /\ Anchors' = Anchors /\ now' \in {now, now + 1}
  BY <1>2 DEF ImgInv
<1>3. ASSUME NEW d \in Digests, ImgAdd(d), WritesOnly("images", Entry(d)) PROVE ImgInv'
  <2>1. Anchors' = Anchors /\ now' = now
    BY <1>3 DEF ImgAdd, WritesOnly
  <2>2. Import' \in {Import, Append(Import, Entry(d))}
    BY <1>3, WritesLoad DEF WritesOnly, Import
  <2>3. CASE Import' = Import
    BY <1>2, <2>1, <2>3
  <2>4. CASE Import' = Append(Import, Entry(d))
    <3>1. /\ DOMAIN Import' = 1 .. a \cup {a + 1} /\ Import'[a + 1] = Entry(d)
          /\ \A i \in 1 .. a : Import'[i] = Import[i]
      BY <1>1, <2>4, AppendList
    <3>2. Entry(d).digest = d /\ ~Entry(d).deleted /\ Entry(d).added \in Nat
      BY TombstoneFields DEF ImgInv
    <3>3. \A i \in 1 .. a : Import[i].digest # d
      <4>1. d \notin {DigestsOf(Import)[i] : i \in DOMAIN DigestsOf(Import)}
        BY <1>3 DEF ImgAdd, ImgLeaves, ToSet, Import
      <4>2. QED
        BY <1>1, <4>1 DEF DigestsOf
    <3>4. \A i, j \in DOMAIN Import' : Import'[i].digest = Import'[j].digest => i = j
      BY <1>1, <3>1, <3>2, <3>3 DEF ImgInv
    <3>5. \A i \in DOMAIN Import' : ~Import'[i].deleted /\ Import'[i].added \in Nat
      BY <1>1, <3>1, <3>2 DEF ImgInv
    <3>6. QED
      BY <2>1, <3>4, <3>5 DEF ImgInv
  <2>5. QED
    BY <2>2, <2>3, <2>4
<1>4. ASSUME ImgCommit, WritesOnly("anchors", LedgerRow(ImgLeaves)) PROVE ImgInv'
  <2> DEFINE row == LedgerRow(ImgLeaves)
  <2>1. Import' = Import /\ now' = now
    BY <1>4 DEF ImgCommit, WritesOnly
  <2>2. Anchors' \in {Anchors, Append(Anchors, row)}
    BY <1>4, WritesLoad DEF WritesOnly, Anchors
  <2>3. row.ts = now
    BY DEF LedgerRow
  <2> HIDE DEF row
  <2>4. CASE Anchors' = Anchors
    BY <1>2, <2>1, <2>4
  <2>5. CASE Anchors' = Append(Anchors, row)
    <3>1. /\ DOMAIN Anchors' = 1 .. b \cup {b + 1} /\ Anchors'[b + 1] = row
          /\ \A i \in 1 .. b : Anchors'[i] = Anchors[i]
      BY <1>1, <2>5, AppendList
    <3>2. \A i \in DOMAIN Anchors' : Anchors'[i].ts \in Nat /\ Anchors'[i].ts <= now
      BY <1>1, <2>3, <3>1 DEF ImgInv
    <3>3. \A i, j \in DOMAIN Anchors' : i < j => Anchors'[i].ts <= Anchors'[j].ts
      <4>1. ASSUME NEW i \in DOMAIN Anchors', NEW j \in DOMAIN Anchors', i < j
            PROVE  Anchors'[i].ts <= Anchors'[j].ts
        <5>1. i \in 1 .. b
          BY <1>1, <3>1, <4>1
        <5>2. CASE j \in 1 .. b
          BY <1>1, <3>1, <4>1, <5>1, <5>2 DEF ImgInv
        <5>3. CASE j = b + 1
          BY <2>3, <3>1, <3>2, <5>3
        <5>4. QED
          BY <3>1, <5>2, <5>3
      <4>2. QED
        BY <4>1
    <3>4. QED
      BY <2>1, <3>2, <3>3 DEF ImgInv
  <2>6. QED
    BY <2>2, <2>4, <2>5
<1>5. QED
  <2>1. CASE \/ \E migrate \in BOOLEAN : InitStore(migrate) /\ Quiet
             \/ (MigrateBegin \/ MigrateLedger \/ MigrateEnd \/ Die) /\ Quiet
    BY <1>2, <2>1 DEF InitStore, MigrateBegin, MigrateLedger, MigrateEnd, Die, Quiet
  <2>2. CASE \/ MigrateEntry /\ WritesOnly("manifest", Head(job.todo))
             \/ MigrateRow /\ WritesOnly("ledger", Head(job.todo))
    BY <1>2, <2>2 DEF MigrateEntry, MigrateRow, AppendNext, WritesOnly
  <2>3. CASE \/ \E d \in Digests : Rm(d) /\ WritesOnly("manifest", Tombstone(d))
             \/ Commit /\ WritesOnly("ledger", LedgerRow(Leaves))
    BY <1>2, <2>3 DEF Rm, Commit, WritesOnly
  <2>4. CASE Quiet /\ now' \in {now, now + 1}
    BY <1>2, <2>4 DEF Quiet
  <2>5. QED
    BY <1>3, <1>4, <2>1, <2>2, <2>3, <2>4 DEF Kinds

----------------------------------------------------------------------------
(* What a migration has still to append.                                   *)

SuffixOf(todo, rows) ==
    /\ IsList(todo) /\ Len(todo) <= Len(rows)
    /\ \A j \in 1 .. Len(todo) : todo[j] = rows[Len(rows) - Len(todo) + j]

JobInv ==
    /\ job = [name |-> job.name, todo |-> job.todo]
    /\ \/ job = Idle
       \/ job.name = "entries" /\ SuffixOf(job.todo, Import)
       \/ job.name = "rows" /\ SuffixOf(job.todo, Anchors)

LEMMA NotEmpty ==
    ASSUME NEW s, IsList(s)
    PROVE  s # <<>> <=> Len(s) # 0
<1>1. IsList(<<>>) /\ Len(<<>>) = 0
  BY DEF IsList
<1>2. ASSUME Len(s) = 0 PROVE s = <<>>
  <2>1. \A i \in 1 .. 0 : FALSE
    OBVIOUS
  <2>2. QED
    BY <1>1, <1>2, <2>1, ListsEqual
<1>3. QED
  BY <1>1, <1>2

LEMMA SuffixAll ==
    ASSUME NEW rows, IsList(rows)
    PROVE  SuffixOf(rows, rows)
<1>1. Len(rows) \in Nat
  BY ListFacts
<1>2. \A j \in 1 .. Len(rows) : Len(rows) - Len(rows) + j = j
  BY <1>1
<1>3. QED
  BY <1>1, <1>2 DEF SuffixOf

LEMMA SuffixTail ==
    ASSUME NEW rows, NEW todo, IsList(rows), SuffixOf(todo, rows), todo # <<>>
    PROVE  /\ Len(rows) - Len(todo) + 1 \in 1 .. Len(rows)
           /\ Head(todo) = rows[Len(rows) - Len(todo) + 1]
           /\ SuffixOf(Tail(todo), rows) /\ Len(Tail(todo)) = Len(todo) - 1
<1> DEFINE m == Len(todo)
           n == Len(rows)
           S == {todo[i] : i \in DOMAIN todo}
           t == Tail(todo)
<1>1. n \in Nat /\ m \in Nat /\ m # 0 /\ m <= n
  BY ListFacts, NotEmpty DEF SuffixOf
<1>2. todo \in Seq(S)
  BY DEF SuffixOf, IsList
<1> HIDE DEF S
<1>3. Head(todo) = todo[1] /\ t \in Seq(S) /\ Len(t) = m - 1
  BY <1>1, <1>2
<1>4. \A j \in 1 .. m - 1 : t[j] = todo[j + 1]
  BY <1>1, <1>2
<1>5. IsList(t)
  <2> HIDE DEF t
  <2>1. Len(t) \in Nat /\ t = [i \in 1 .. Len(t) |-> t[i]]
    BY <1>3
  <2>2. QED
    BY <2>1, ListOf
<1>6. \A j \in 1 .. m : todo[j] = rows[n - m + j]
  BY DEF SuffixOf
<1> HIDE DEF m, n, t
<1>7. \A j \in 1 .. Len(t) : t[j] = rows[n - Len(t) + j]
  <2>1. ASSUME NEW j \in 1 .. Len(t) PROVE t[j] = rows[n - Len(t) + j]
    <3>1. j \in 1 .. m - 1 /\ j + 1 \in 1 .. m /\ n - m + (j + 1) = n - Len(t) + j
      BY <1>1, <1>3
    <3>2. t[j] = todo[j + 1] /\ todo[j + 1] = rows[n - m + (j + 1)]
      BY <1>4, <1>6, <3>1
    <3>3. QED
      BY <3>1, <3>2
  <2>2. QED
    BY <2>1
<1>8. Len(t) <= n /\ n - m + 1 \in 1 .. n /\ 1 \in 1 .. m
  BY <1>1, <1>3
<1>9. Head(todo) = rows[n - m + 1]
  BY <1>3, <1>6, <1>8
<1>10. SuffixOf(t, rows)
  BY <1>5, <1>7, <1>8 DEF SuffixOf, n
<1>11. QED
  BY <1>3, <1>8, <1>9, <1>10 DEF m, n, t

\* the command at work has appended its next row, or it was cut short
LEMMA Proceeds ==
    ASSUME JobInv, NEW n, AppendNext(n)
    PROVE  /\ job.todo # <<>> /\ UNCHANGED <<now, made, pending, own>>
           /\ \/ /\ AppendRow(n, Head(job.todo))
                 /\ job' = [name |-> job.name, todo |-> Tail(job.todo)]
                 /\ job'.name = job.name /\ job'.todo = Tail(job.todo)
              \/ TearRow(n, Head(job.todo)) /\ job' = Idle
<1>1. ASSUME job' = [job EXCEPT !.todo = Tail(job.todo)]
      PROVE  /\ job' = [name |-> job.name, todo |-> Tail(job.todo)]
             /\ job'.name = job.name /\ job'.todo = Tail(job.todo)
  <2>1. job = [name |-> job.name, todo |-> job.todo]
    BY DEF JobInv
  <2>2. QED
    BY <1>1, <2>1
<1>2. QED
  BY <1>1 DEF AppendNext

LEMMA ListsHere ==
    ASSUME FilesInv
    PROVE  /\ IsList(Import) /\ Len(Import) \in Nat /\ DOMAIN Import = 1 .. Len(Import)
           /\ IsList(Anchors) /\ Len(Anchors) \in Nat /\ DOMAIN Anchors = 1 .. Len(Anchors)
           /\ IsList(Ledger) /\ Len(Ledger) \in Nat /\ DOMAIN Ledger = 1 .. Len(Ledger)
           /\ IsList(Lines) /\ Len(Lines) \in Nat /\ DOMAIN Lines = 1 .. Len(Lines)
<1>1. IsList(Lines)
  BY FourFiles, LoadFacts DEF Lines
<1>2. QED
  BY <1>1, FourFiles, LoadFacts, ListFacts DEF Import, Anchors, Ledger

LEMMA IdleJob ==
    /\ Idle = [name |-> "idle", todo |-> <<>>]
    /\ Idle = [name |-> Idle.name, todo |-> Idle.todo]
    /\ Idle.name # "entries" /\ Idle.name # "rows"
  BY DEF Idle

\* the jobs a step may begin
LEMMA ImportsJob ==
    ASSUME FilesInv
    PROVE  /\ Imports.name = "entries" /\ Imports.todo = Import
           /\ Imports = [name |-> Imports.name, todo |-> Imports.todo]
           /\ SuffixOf(Import, Import)
<1>1. SuffixOf(Import, Import)
  BY ListsHere, SuffixAll
<1>2. QED
  BY <1>1 DEF Imports, Import

LEMMA RowsJob ==
    ASSUME FilesInv, MigrateLedger
    PROVE  /\ job.name = "entries" /\ job.todo = <<>>
           /\ job'.name = "rows" /\ job'.todo = Anchors
           /\ job' = [name |-> job'.name, todo |-> job'.todo]
           /\ SuffixOf(Anchors, Anchors)
<1>1. SuffixOf(Anchors, Anchors)
  BY ListsHere, SuffixAll
<1>2. QED
  BY <1>1 DEF MigrateLedger, Anchors

LEMMA JobInvInit == MigrateInit => JobInv
  BY IdleJob DEF MigrateInit, JobInv

LEMMA JobInvNext ==
    ASSUME FilesInv, JobInv, Kinds PROVE JobInv'
<1>1. CASE job' = Idle
  BY <1>1, IdleJob DEF JobInv
<1>2. CASE job' = job /\ Import' = Import /\ Anchors' = Anchors
  BY <1>2 DEF JobInv
<1>3. CASE job' = Imports /\ Quiet
  <2>1. Import' = Import
    BY <1>3 DEF Quiet
  <2>2. QED
    BY <1>3, <2>1, ImportsJob DEF JobInv
<1>4. CASE MigrateLedger /\ Quiet
  <2>1. Anchors' = Anchors
    BY <1>4 DEF Quiet
  <2>2. QED
    BY <1>4, <2>1, RowsJob DEF JobInv
<1>5. CASE MigrateEntry /\ WritesOnly("manifest", Head(job.todo))
  <2>1. Import' = Import /\ job.name = "entries" /\ AppendNext("manifest")
    BY <1>5 DEF WritesOnly, MigrateEntry
  <2>2. SuffixOf(job.todo, Import)
    BY <2>1, IdleJob DEF JobInv
  <2>3. CASE /\ job' = [name |-> job.name, todo |-> Tail(job.todo)]
             /\ job'.name = job.name /\ job'.todo = Tail(job.todo)
    <3>1. SuffixOf(Tail(job.todo), Import)
      BY <2>1, <2>2, ListsHere, Proceeds, SuffixTail
    <3>2. QED
      BY <2>1, <2>3, <3>1 DEF JobInv
  <2>4. QED
    BY <1>1, <2>1, <2>3, Proceeds
<1>6. CASE MigrateRow /\ WritesOnly("ledger", Head(job.todo))
  <2>1. Anchors' = Anchors /\ job.name = "rows" /\ AppendNext("ledger")
    BY <1>6 DEF WritesOnly, MigrateRow
  <2>2. SuffixOf(job.todo, Anchors)
    BY <2>1, IdleJob DEF JobInv
  <2>3. CASE /\ job' = [name |-> job.name, todo |-> Tail(job.todo)]
             /\ job'.name = job.name /\ job'.todo = Tail(job.todo)
    <3>1. SuffixOf(Tail(job.todo), Anchors)
      BY <2>1, <2>2, ListsHere, Proceeds, SuffixTail
    <3>2. QED
      BY <2>1, <2>3, <3>1 DEF JobInv
  <2>4. QED
    BY <1>1, <2>1, <2>3, Proceeds
<1>7. CASE \E d \in Digests : Rm(d) /\ WritesOnly("manifest", Tombstone(d))
  <2>1. job' = job /\ Import' = Import /\ Anchors' = Anchors
    BY <1>7 DEF Rm, ottVars, WritesOnly
  <2>2. QED
    BY <1>2, <2>1
<1>8. CASE Commit /\ WritesOnly("ledger", LedgerRow(Leaves))
  <2>1. job' = job /\ Import' = Import /\ Anchors' = Anchors
    BY <1>8 DEF Commit, WritesOnly
  <2>2. QED
    BY <1>2, <2>1
<1>9. CASE Quiet /\ job' = job
  BY <1>2, <1>9 DEF Quiet
<1>10. ASSUME NEW migrate \in BOOLEAN, InitStore(migrate) /\ Quiet PROVE JobInv'
  BY <1>1, <1>3, <1>10 DEF InitStore
<1>11. QED
  BY <1>1, <1>3, <1>4, <1>5, <1>6, <1>7, <1>8, <1>9, <1>10
     DEF Kinds, MigrateBegin, MigrateEnd, Die, ottVars

----------------------------------------------------------------------------
(* load_manifest.                                                          *)

LEMMA FirstsFacts ==
    ASSUME IsList(Lines)
    PROVE  /\ Len(Lines) \in Nat /\ Firsts \in SUBSET (1 .. Len(Lines))
           /\ \A i \in Firsts : i \in LinesOf(Lines[i][1].digest)
           /\ \A d : LinesOf(d) \subseteq DOMAIN Lines /\ LinesOf(d) \subseteq Nat
           /\ \A d : LinesOf(d) # {} =>
                 \E i \in Firsts : i \in LinesOf(d) /\ \A j \in LinesOf(d) : i <= j
<1>1. Len(Lines) \in Nat /\ DOMAIN Lines = 1 .. Len(Lines)
  BY ListFacts
<1>2. \A d : LinesOf(d) \subseteq DOMAIN Lines /\ LinesOf(d) \subseteq Nat
  BY <1>1 DEF LinesOf
<1>3. ASSUME NEW d, LinesOf(d) # {}
      PROVE  \E i \in Firsts : i \in LinesOf(d) /\ \A j \in LinesOf(d) : i <= j
  <2>1. PICK i \in LinesOf(d) : \A j \in LinesOf(d) : i <= j
    BY <1>2, <1>3, LeastElement
  <2>2. i \in Firsts
    <3>1. i \in DOMAIN Lines /\ Lines[i] # <<>> /\ Lines[i][1].digest = d
      BY <2>1 DEF LinesOf
    <3>2. QED
      BY <2>1, <3>1 DEF Firsts
  <2>3. QED
    BY <2>1, <2>2
<1>4. QED
  BY <1>1, <1>2, <1>3 DEF Firsts, LinesOf

\* The latest line of a digest, when there is one.
LEMMA LatestFacts ==
    ASSUME IsList(Lines), NEW d, LinesOf(d) # {}
    PROVE  \E i \in LinesOf(d) : /\ \A j \in LinesOf(d) : j <= i
                                 /\ Latest(d) = Lines[i][1] /\ Latest(d).digest = d
<1>1. LinesOf(d) \subseteq Nat /\ LinesOf(d) \subseteq 1 .. Len(Lines) /\ Len(Lines) \in Nat
  BY FirstsFacts, ListFacts
<1> DEFINE back == {Len(Lines) - i : i \in LinesOf(d)}
<1>2. back \subseteq Nat /\ back # {}
  BY <1>1
<1>3. PICK b \in back : \A c \in back : b <= c
  <2> HIDE DEF back
  <2>1. QED
    BY <1>2, LeastElement
<1>4. PICK i \in LinesOf(d) : b = Len(Lines) - i
  OBVIOUS
<1>5. \A j \in LinesOf(d) : j <= i
  <2>1. ASSUME NEW j \in LinesOf(d) PROVE j <= i
    <3>1. Len(Lines) - i <= Len(Lines) - j
      BY <1>3, <1>4
    <3>2. QED
      BY <1>1, <3>1
  <2>2. QED
    BY <2>1
<1> DEFINE c == CHOOSE k \in LinesOf(d) : \A j \in LinesOf(d) : j <= k
<1>6. c \in LinesOf(d) /\ \A j \in LinesOf(d) : j <= c
  BY <1>5
<1>7. Latest(d) = Lines[c][1]
  BY DEF Latest
<1> HIDE DEF c
<1>8. Lines[c][1].digest = d
  BY <1>6 DEF LinesOf
<1>9. QED
  BY <1>6, <1>7, <1>8

\* the places of the entries that are live
Alive == {i \in Firsts : ~Latest(Lines[i][1].digest).deleted}

LEMMA LiveFacts ==
    ASSUME IsList(Lines)
    PROVE  /\ IsList(Live) /\ Len(Live) \in Nat /\ DOMAIN Live = 1 .. Len(Live)
           /\ Alive \subseteq Nat
           /\ \E p : /\ Lists(p, Len(Live), Alive)
                     /\ \A k \in 1 .. Len(Live) : Live[k] = Latest(Lines[p[k]][1].digest)
<1> DEFINE latest == [i \in Firsts |-> Latest(Lines[i][1].digest)]
           n == Len(Lines)
           c == Cardinality(Alive)
<1>1. n \in Nat /\ Alive \in SUBSET (1 .. n) /\ Alive \subseteq Firsts
  BY FirstsFacts DEF Alive
<1>2. {i \in Firsts : ~latest[i].deleted} = Alive
  BY DEF Alive
<1>3. Live = Pick(latest, Alive)
  BY <1>2 DEF Live
<1> HIDE DEF latest, n
<1>4. IsList(Live) /\ Len(Live) = c /\ DOMAIN Live = 1 .. c /\ \E p : Picks(p, latest, Alive)
  BY <1>1, <1>3, PickFacts
<1>5. PICK p : Picks(p, latest, Alive)
  BY <1>4
<1>6. Lists(p, c, Alive) /\ \A k \in 1 .. c : Live[k] = latest[p[k]]
  BY <1>3, <1>5 DEF Picks
<1>7. \A k \in 1 .. c : p[k] \in Firsts
  BY <1>1, <1>6 DEF Lists
<1>8. \A k \in 1 .. c : Live[k] = Latest(Lines[p[k]][1].digest)
  BY <1>6, <1>7 DEF latest
<1>9. Alive \subseteq Nat
  BY <1>1
<1>10. QED
  BY <1>4, <1>6, <1>8, <1>9, ListFacts

LEMMA LiveIsThere ==
    ASSUME IsList(Lines), NEW k \in DOMAIN Live
    PROVE  \E i \in DOMAIN Lines : Lines[i] # <<>> /\ Lines[i][1].digest = Live[k].digest
<1>1. PICK p : /\ Lists(p, Len(Live), Alive)
               /\ \A m \in 1 .. Len(Live) : Live[m] = Latest(Lines[p[m]][1].digest)
  BY LiveFacts
<1>2. k \in 1 .. Len(Live)
  BY LiveFacts
<1>3. p[k] \in Firsts
  BY <1>1, <1>2 DEF Lists, Alive
<1> DEFINE d == Lines[p[k]][1].digest
<1>4. p[k] \in LinesOf(d)
  BY <1>3, FirstsFacts
<1>5. Latest(d).digest = d
  BY <1>4, LatestFacts
<1>6. Live[k].digest = d
  BY <1>1, <1>2, <1>5
<1>7. QED
  BY <1>4, <1>6 DEF LinesOf

----------------------------------------------------------------------------
(* The order of the manifest that is imported to.                          *)

At(lines, d) == {i \in DOMAIN lines : lines[i] # <<>> /\ lines[i][1].digest = d}

\* the latest row of d does not delete it
Undeleted(lines, d) ==
    \E i \in At(lines, d) : ~lines[i][1].deleted /\ \A j \in At(lines, d) : j <= i

\* before the first line of a digest there is one of each digest imgfs had before it
InOrder(lines, rows) ==
    \A i \in DOMAIN lines : lines[i] # <<>> =>
        \E k \in DOMAIN rows : /\ lines[i][1].digest = rows[k].digest
                               /\ \A m \in 1 .. k : \E j \in At(lines, rows[m].digest) : j <= i

Whole(lines) == \A i \in DOMAIN lines : lines[i] # <<>>

LEMMA AtAppend ==
    ASSUME NEW lines, NEW line, IsList(lines), NEW d
    PROVE  LET n == Len(lines) + 1
           IN  /\ n \notin DOMAIN lines /\ \A j \in At(lines, d) : j < n /\ j \in Nat
               /\ n \in Nat /\ Append(lines, line)[n] = line
               /\ DOMAIN Append(lines, line) = DOMAIN lines \cup {n}
               /\ \A i \in DOMAIN lines : Append(lines, line)[i] = lines[i]
               /\ At(Append(lines, line), d) =
                    IF line # <<>> /\ line[1].digest = d THEN At(lines, d) \cup {n} ELSE At(lines, d)
<1> DEFINE n == Len(lines) + 1
           a == Append(lines, line)
<1>1. /\ n \in Nat /\ DOMAIN lines = 1 .. Len(lines) /\ Len(lines) \in Nat
      /\ a[n] = line /\ DOMAIN a = DOMAIN lines \cup {n}
      /\ \A i \in DOMAIN lines : a[i] = lines[i] /\ i < n
  BY AppendList
<1>2. n \notin DOMAIN lines
  BY <1>1
<1> HIDE DEF a, n
<1>3. At(a, d) = IF line # <<>> /\ line[1].digest = d THEN At(lines, d) \cup {n} ELSE At(lines, d)
  BY <1>1, <1>2 DEF At
<1>4. \A j \in At(lines, d) : j < n /\ j \in Nat
  <2>1. At(lines, d) \subseteq DOMAIN lines
    BY DEF At
  <2>2. QED
    BY <1>1, <2>1
<1>5. QED
  BY <1>1, <1>2, <1>3, <1>4 DEF a, n

LEMMA AtMore ==
    ASSUME NEW lines, NEW line, IsList(lines), NEW d
    PROVE  /\ At(lines, d) \subseteq At(Append(lines, line), d)
           /\ \A j \in At(lines, d) : j <= Len(lines) + 1
  BY AtAppend

LEMMA UndeletedAppend ==
    ASSUME NEW lines, NEW line, IsList(lines), NEW d
    PROVE  /\ line # <<>> /\ line[1].digest = d =>
                (Undeleted(Append(lines, line), d) <=> ~line[1].deleted)
           /\ ~(line # <<>> /\ line[1].digest = d) =>
                (Undeleted(Append(lines, line), d) <=> Undeleted(lines, d))
<1> DEFINE n == Len(lines) + 1
           a == Append(lines, line)
<1>1. /\ n \notin DOMAIN lines /\ \A j \in At(lines, d) : j < n /\ j \in Nat
      /\ n \in Nat /\ a[n] = line
      /\ \A i \in DOMAIN lines : a[i] = lines[i]
      /\ At(a, d) = IF line # <<>> /\ line[1].digest = d THEN At(lines, d) \cup {n} ELSE At(lines, d)
  BY AtAppend
<1>2. At(lines, d) \subseteq DOMAIN lines
  BY DEF At
<1> HIDE DEF a, n
<1>3. CASE line # <<>> /\ line[1].digest = d
  <2>1. n \in At(a, d) /\ \A j \in At(a, d) : j <= n
    BY <1>1, <1>3
  <2>2. \A i \in At(a, d) : n <= i => i = n
    BY <1>1, <1>3
  <2>3. Undeleted(a, d) <=> ~line[1].deleted
    BY <1>1, <2>1, <2>2 DEF Undeleted
  <2>4. QED
    BY <1>3, <2>3 DEF a
<1>4. CASE ~(line # <<>> /\ line[1].digest = d)
  <2>1. At(a, d) = At(lines, d) /\ \A i \in At(lines, d) : a[i] = lines[i]
    BY <1>1, <1>2, <1>4
  <2>2. Undeleted(a, d) <=> Undeleted(lines, d)
    BY <2>1 DEF Undeleted
  <2>3. QED
    BY <1>4, <2>2 DEF a
<1>5. QED
  BY <1>3, <1>4

\* A line more keeps the order if its digest is in its place.
LEMMA OrderAppend ==
    ASSUME NEW lines, NEW row, NEW rows, IsList(lines), InOrder(lines, rows),
           \E k \in DOMAIN rows :
               /\ row.digest = rows[k].digest
               /\ \A m \in 1 .. k : rows[m].digest = row.digest
                                      \/ \E j \in DOMAIN lines : j \in At(lines, rows[m].digest)
    PROVE  InOrder(Append(lines, <<row>>), rows)
<1> DEFINE n == Len(lines) + 1
           a == Append(lines, <<row>>)
<1>1. /\ n \in Nat /\ a[n] = <<row>> /\ DOMAIN a = DOMAIN lines \cup {n}
      /\ \A i \in DOMAIN lines : a[i] = lines[i]
      /\ \A d : At(lines, d) \subseteq At(a, d)
      /\ \A d : \A j \in At(lines, d) : j <= n
      /\ n \in At(a, row.digest)
  <2>1. n \in Nat /\ a[n] = <<row>> /\ DOMAIN a = DOMAIN lines \cup {n}
        /\ \A i \in DOMAIN lines : a[i] = lines[i]
    BY AppendList
  <2>2. <<row>> # <<>> /\ <<row>>[1] = row
    OBVIOUS
  <2>3. ASSUME NEW d
        PROVE  At(lines, d) \subseteq At(a, d) /\ \A j \in At(lines, d) : j <= n
    BY AtMore
  <2> HIDE DEF a, n
  <2>4. n \in At(a, row.digest)
    BY <2>1, <2>2 DEF At
  <2>5. QED
    BY <2>1, <2>3, <2>4
<1> HIDE DEF a, n
<1>2. <<row>>[1] = row
  OBVIOUS
<1>3. ASSUME NEW i \in DOMAIN a, a[i] # <<>>
      PROVE  \E k \in DOMAIN rows : /\ a[i][1].digest = rows[k].digest
                                    /\ \A m \in 1 .. k : \E j \in At(a, rows[m].digest) : j <= i
  <2>1. CASE i \in DOMAIN lines
    <3>1. a[i] = lines[i]
      BY <1>1, <2>1
    <3>2. PICK k \in DOMAIN rows :
               /\ lines[i][1].digest = rows[k].digest
               /\ \A m \in 1 .. k : \E j \in At(lines, rows[m].digest) : j <= i
      BY <1>3, <2>1, <3>1 DEF InOrder
    <3>3. \A m \in 1 .. k : \E j \in At(a, rows[m].digest) : j <= i
      BY <1>1, <3>2
    <3>4. QED
      BY <3>1, <3>2, <3>3
  <2>2. CASE i = n
    <3>1. PICK k \in DOMAIN rows :
               /\ row.digest = rows[k].digest
               /\ \A m \in 1 .. k : rows[m].digest = row.digest
                                      \/ \E j \in DOMAIN lines : j \in At(lines, rows[m].digest)
      OBVIOUS
    <3>2. \A m \in 1 .. k : \E j \in At(a, rows[m].digest) : j <= n
      <4>1. ASSUME NEW m \in 1 .. k PROVE \E j \in At(a, rows[m].digest) : j <= n
        <5>1. CASE rows[m].digest = row.digest
          BY <1>1, <5>1
        <5>2. CASE \E j \in DOMAIN lines : j \in At(lines, rows[m].digest)
          BY <1>1, <5>2
        <5>3. QED
          BY <3>1, <5>1, <5>2
      <4>2. QED
        BY <4>1
    <3>3. QED
      BY <1>1, <1>2, <2>2, <3>1, <3>2
  <2>3. QED
    BY <1>1, <2>1, <2>2
<1>4. QED
  BY <1>3 DEF InOrder, a

LEMMA OrderMore ==
    ASSUME NEW lines, NEW rows, NEW row, IsList(rows), InOrder(lines, rows)
    PROVE  InOrder(lines, Append(rows, row))
<1> DEFINE b == Append(rows, row)
<1>1. /\ DOMAIN rows = 1 .. Len(rows) /\ Len(rows) \in Nat /\ DOMAIN rows \subseteq DOMAIN b
      /\ \A k \in DOMAIN rows : b[k] = rows[k]
  BY AppendList
<1> HIDE DEF b
<1>2. \A k \in DOMAIN rows : \A m \in 1 .. k : m \in DOMAIN rows
  BY <1>1
<1>3. InOrder(lines, b)
  BY <1>1, <1>2 DEF InOrder
<1>4. QED
  BY <1>3 DEF b

OrderInv ==
    Whole(Lines) =>
      /\ InOrder(Lines, Import)
      /\ job.name = "entries" =>
            \A k \in 1 .. Len(Import) - Len(job.todo) : Undeleted(Lines, Import[k].digest)
      /\ job.name = "rows" => \A k \in DOMAIN Import : Undeleted(Lines, Import[k].digest)

LEMMA OrderInvInit == MigrateInit => OrderInv
<1> SUFFICES ASSUME MigrateInit PROVE OrderInv
  OBVIOUS
<1>1. Lines = <<>> /\ job = Idle
  BY FourFiles, NoRows DEF Lines, MigrateInit
<1>2. InOrder(<<>>, Import)
  BY DEF InOrder
<1>3. QED
  BY <1>1, <1>2, IdleJob DEF OrderInv

\* the entry that is imported next
LEMMA ImportStep ==
    ASSUME FilesInv, ImgInv, JobInv, OrderInv,
           MigrateEntry, WritesOnly("manifest", Head(job.todo))
    PROVE  OrderInv'
<1> DEFINE t == Len(Import) - Len(job.todo) + 1
           row == Head(job.todo)
<1>1. job.name = "entries" /\ AppendNext("manifest") /\ Import' = Import
  BY DEF MigrateEntry, WritesOnly
<1>2. SuffixOf(job.todo, Import) /\ job.todo # <<>>
  BY <1>1, IdleJob, Proceeds DEF JobInv
<1>3. /\ t \in 1 .. Len(Import) /\ row = Import[t]
      /\ Len(Tail(job.todo)) = Len(job.todo) - 1
  BY <1>2, ListsHere, SuffixTail
<1>4. Len(job.todo) \in Nat /\ Len(Import) \in Nat /\ DOMAIN Import = 1 .. Len(Import) /\ IsList(Lines)
  BY <1>2, ListsHere, ListFacts DEF SuffixOf
<1>5. \A k \in 1 .. t : k = t \/ (k \in 1 .. Len(Import) - Len(job.todo) /\ k \in DOMAIN Import)
  BY <1>3, <1>4
<1> HIDE DEF t, row
<1>6. SUFFICES ASSUME Whole(Lines') PROVE OrderInv'
  BY DEF OrderInv
<1>7. Lines' = Append(Lines, <<row>>)
  <2>1. ~Spoiled(files["manifest"], files'["manifest"])
    BY <1>6 DEF Spoiled, Whole, Lines
  <2>2. QED
    BY <2>1 DEF WritesOnly, Writes, Wrote, Lines, row
<1>8. Whole(Lines)
  BY <1>4, <1>6, <1>7, AppendList DEF Whole
<1>9. /\ InOrder(Lines, Import)
      /\ \A k \in 1 .. t : k # t => Undeleted(Lines, Import[k].digest)
  BY <1>1, <1>5, <1>8 DEF OrderInv
<1>10. InOrder(Lines', Import)
  <2>1. \A k \in 1 .. t : Import[k].digest = row.digest
                            \/ \E j \in DOMAIN Lines : j \in At(Lines, Import[k].digest)
    BY <1>3, <1>9 DEF Undeleted, At
  <2>2. t \in DOMAIN Import /\ row.digest = Import[t].digest
    BY <1>3, <1>4
  <2>3. QED
    BY <1>4, <1>7, <1>9, <2>1, <2>2, OrderAppend
<1>11. \A k \in 1 .. t : Undeleted(Lines', Import[k].digest)
  <2>1. ASSUME NEW k \in 1 .. t PROVE Undeleted(Lines', Import[k].digest)
    <3>1. <<row>> # <<>> /\ <<row>>[1] = row
      OBVIOUS
    <3>2. t \in DOMAIN Import /\ ~row.deleted /\ row.digest = Import[t].digest
      BY <1>3, <1>4 DEF ImgInv
    <3>3. CASE k = t
      BY <1>4, <1>7, <3>1, <3>2, <3>3, UndeletedAppend
    <3>4. CASE k # t
      <4>1. k \in DOMAIN Import /\ Undeleted(Lines, Import[k].digest)
        BY <1>5, <1>9, <3>4
      <4>2. row.digest # Import[k].digest
        BY <3>2, <3>4, <4>1 DEF ImgInv
      <4>3. QED
        BY <1>4, <1>7, <3>1, <4>1, <4>2, UndeletedAppend
    <3>5. QED
      BY <3>3, <3>4
  <2>2. QED
    BY <2>1
<1>12. job'.name = "entries" => Len(Import) - Len(job'.todo) = t
  <2>1. ASSUME job'.name = "entries" PROVE Len(Import) - Len(job'.todo) = t
    <3>1. job'.todo = Tail(job.todo)
      BY <1>1, <2>1, Proceeds, IdleJob
    <3>2. Len(job'.todo) = Len(job.todo) - 1
      BY <1>3, <3>1
    <3>3. QED
      BY <1>4, <3>2 DEF t
  <2>2. QED
    BY <2>1
<1>13. job'.name # "rows"
  BY <1>1, Proceeds, IdleJob
<1>14. QED
  BY <1>1, <1>10, <1>11, <1>12, <1>13 DEF OrderInv

LEMMA OrderInvNext ==
    ASSUME FilesInv, ImgInv, JobInv, OrderInv, Kinds PROVE OrderInv'
<1>0. Idle.name # "entries" /\ Idle.name # "rows"
  BY IdleJob
<1>1. CASE job' = Idle /\ Import' = Import /\ Lines' = Lines
  BY <1>0, <1>1 DEF OrderInv
<1>2. CASE job' = job /\ Import' = Import /\ Lines' = Lines
  BY <1>2 DEF OrderInv
<1>3. CASE job' = Imports /\ Quiet
  <2>1. Import' = Import /\ Lines' = Lines /\ job'.name = "entries" /\ job'.todo = Import
    BY <1>3, ImportsJob DEF Quiet
  <2>2. Len(Import) - Len(Import) = 0 /\ \A k \in 1 .. 0 : FALSE
    BY ListsHere
  <2>3. QED
    BY <2>1, <2>2 DEF OrderInv
<1>4. CASE MigrateLedger /\ Quiet
  <2>1. /\ Import' = Import /\ Lines' = Lines
        /\ job.name = "entries" /\ job.todo = <<>> /\ job'.name = "rows"
    BY <1>4, RowsJob DEF Quiet
  <2>2. 1 .. Len(Import) - Len(job.todo) = DOMAIN Import
    <3>1. Len(<<>>) = 0
      OBVIOUS
    <3>2. QED
      BY <2>1, <3>1, ListsHere
  <2>3. QED
    BY <2>1, <2>2 DEF OrderInv
<1>5. CASE MigrateEntry /\ WritesOnly("manifest", Head(job.todo))
  BY <1>5, ImportStep
<1>6. CASE MigrateRow /\ WritesOnly("ledger", Head(job.todo))
  <2>1. /\ Import' = Import /\ Lines' = Lines
        /\ job.name = "rows" /\ (job'.name = "rows" \/ job' = Idle)
    BY <1>6, Proceeds DEF WritesOnly, MigrateRow
  <2>2. QED
    BY <1>0, <2>1 DEF OrderInv
<1>7. ASSUME NEW d \in Digests, Rm(d) /\ WritesOnly("manifest", Tombstone(d)) PROVE OrderInv'
  <2>1. Import' = Import /\ job = Idle /\ job' = Idle
    BY <1>7 DEF Rm, ottVars, WritesOnly
  <2>2. SUFFICES ASSUME Whole(Lines') PROVE InOrder(Lines', Import)
    BY <1>0, <2>1 DEF OrderInv
  <2>3. Lines' = Append(Lines, <<Tombstone(d)>>)
    <3>1. ~Spoiled(files["manifest"], files'["manifest"])
      BY <2>2 DEF Spoiled, Whole, Lines
    <3>2. QED
      BY <1>7, <3>1 DEF WritesOnly, Writes, Wrote, Lines
  <2>4. IsList(Lines) /\ DOMAIN Import = 1 .. Len(Import)
    BY ListsHere
  <2>5. Whole(Lines)
    BY <2>2, <2>3, <2>4, AppendList DEF Whole
  <2>6. InOrder(Lines, Import)
    BY <2>5 DEF OrderInv
  <2>7. PICK i \in DOMAIN Lines : Lines[i] # <<>> /\ Lines[i][1].digest = d
    BY <1>7, <2>4, LiveIsThere DEF Rm
  <2>8. PICK k \in DOMAIN Import :
             /\ Lines[i][1].digest = Import[k].digest
             /\ \A m \in 1 .. k : \E j \in At(Lines, Import[m].digest) : j <= i
    BY <2>6, <2>7 DEF InOrder
  <2>9. \A m \in 1 .. k : \E j \in DOMAIN Lines : j \in At(Lines, Import[m].digest)
    BY <2>8 DEF At
  <2>10. Tombstone(d).digest = Import[k].digest
    BY <2>7, <2>8, TombstoneFields
  <2>11. QED
    BY <2>3, <2>4, <2>6, <2>8, <2>9, <2>10, OrderAppend
<1>8. CASE Commit /\ WritesOnly("ledger", LedgerRow(Leaves))
  <2>1. job' = job /\ Import' = Import /\ Lines' = Lines
    BY <1>8 DEF Commit, WritesOnly
  <2>2. QED
    BY <1>2, <2>1
<1>9. CASE Quiet /\ job' \in {job, Idle}
  BY <1>1, <1>2, <1>9 DEF Quiet
<1>10. ASSUME NEW migrate \in BOOLEAN, InitStore(migrate) /\ Quiet PROVE OrderInv'
  BY <1>3, <1>9, <1>10 DEF InitStore
<1>11. ASSUME NEW d \in Digests, job = Idle, ImgAdd(d), WritesOnly("images", Entry(d)), UNCHANGED ottVars
       PROVE  OrderInv'
  <2>1. Lines' = Lines /\ job' = Idle
    BY <1>11 DEF WritesOnly, ottVars
  <2>2. Import' \in {Import, Append(Import, Entry(d))}
    BY <1>11, WritesLoad DEF WritesOnly, Import
  <2>3. Whole(Lines) => InOrder(Lines, Import')
    BY <2>2, ListsHere, OrderMore DEF OrderInv
  <2>4. QED
    BY <1>0, <2>1, <2>3 DEF OrderInv
<1>12. CASE job = Idle /\ ImgCommit /\ WritesOnly("anchors", LedgerRow(ImgLeaves)) /\ UNCHANGED ottVars
  BY <1>2, <1>12 DEF WritesOnly, ottVars
<1>13. QED
  BY <1>3, <1>4, <1>5, <1>6, <1>7, <1>8, <1>9, <1>10, <1>11, <1>12
     DEF Kinds, MigrateBegin, MigrateEnd, Die

----------------------------------------------------------------------------
(* The ledger that is imported to.                                         *)

Appended == Len(Anchors) - Len(job.todo)

LedgerInv ==
    ~own =>
      /\ \A i \in DOMAIN Ledger : \E k \in DOMAIN Anchors : Ledger[i] = Anchors[k]
      /\ job.name = "rows" =>
           /\ Appended >= 1 => ~files["ledger"].open
           /\ Appended >= 2 \/ (Appended >= 1 /\ Whole(files["ledger"].lines)) =>
                 Ledger # <<>> /\ Last(Ledger) = Anchors[Appended]

LEMMA LedgerInvInit == MigrateInit => LedgerInv
<1> SUFFICES ASSUME MigrateInit PROVE LedgerInv
  OBVIOUS
<1>1. Ledger = <<>> /\ job = Idle
  BY FourFiles, NoRows DEF Ledger, MigrateInit
<1>2. QED
  BY <1>1, IdleJob DEF LedgerInv

\* the row that is imported next
LEMMA RowStep ==
    ASSUME FilesInv, UnreadInv, JobInv, LedgerInv,
           MigrateRow, WritesOnly("ledger", Head(job.todo))
    PROVE  LedgerInv'
<1> DEFINE t == Appended + 1
           row == Head(job.todo)
<1>1. /\ job.name = "rows" /\ AppendNext("ledger") /\ Anchors' = Anchors
      /\ own' = own
  BY Proceeds DEF MigrateRow, WritesOnly
<1>2. SuffixOf(job.todo, Anchors) /\ job.todo # <<>>
  BY <1>1, IdleJob, Proceeds DEF JobInv
<1>3. /\ t \in 1 .. Len(Anchors) /\ row = Anchors[t] /\ t \in DOMAIN Anchors
      /\ Len(Tail(job.todo)) = Len(job.todo) - 1
  BY <1>2, ListsHere, SuffixTail DEF Appended
<1>4. Len(job.todo) \in Nat /\ Len(Anchors) \in Nat /\ IsList(Ledger) /\ DOMAIN Ledger = 1 .. Len(Ledger)
  BY <1>2, ListsHere, ListFacts DEF SuffixOf
<1> HIDE DEF t, row
<1>5. SUFFICES ASSUME ~own PROVE LedgerInv'
  BY <1>1 DEF LedgerInv
<1>6. \A i \in DOMAIN Ledger' : \E k \in DOMAIN Anchors : Ledger'[i] = Anchors[k]
  <2>1. Ledger' \in {Ledger, Append(Ledger, row)}
    BY WritesLoad DEF WritesOnly, Ledger, row
  <2>2. CASE Ledger' = Ledger
    BY <1>5, <2>2 DEF LedgerInv
  <2>3. CASE Ledger' = Append(Ledger, row)
    <3>1. /\ DOMAIN Ledger' = DOMAIN Ledger \cup {Len(Ledger) + 1}
          /\ Ledger'[Len(Ledger) + 1] = row
          /\ \A i \in DOMAIN Ledger : Ledger'[i] = Ledger[i]
      BY <1>4, <2>3, AppendList
    <3>2. QED
      BY <1>3, <1>5, <3>1 DEF LedgerInv
  <2>4. QED
    BY <2>1, <2>2, <2>3
<1>7. CASE job' = Idle
  BY <1>1, <1>6, <1>7, IdleJob DEF LedgerInv
<1>8. CASE AppendRow("ledger", row) /\ job'.name = job.name /\ job'.todo = Tail(job.todo)
  <2>1. Appended' = t
    <3>1. Len(job'.todo) = Len(job.todo) - 1
      BY <1>3, <1>8
    <3>2. Len(Anchors') = Len(Anchors)
      BY <1>1
    <3>3. Appended' = Len(Anchors') - Len(job'.todo)
      BY DEF Appended
    <3>4. QED
      BY <1>4, <3>1, <3>2, <3>3 DEF t, Appended
  <2>2. /\ ~files'["ledger"].open
        /\ \/ Wrote(files["ledger"], files'["ledger"], row)
           \/ files["ledger"].open /\ Spoiled(files["ledger"], files'["ledger"])
    BY <1>8, FourFiles, AppendWrites
  <2>3. CASE Wrote(files["ledger"], files'["ledger"], row)
    <3>1. Ledger' = Append(Ledger, row)
      BY <2>3 DEF Wrote, Ledger, Load
    <3>2. /\ IsList(Ledger') /\ Len(Ledger') = Len(Ledger) + 1 /\ Len(Ledger) \in Nat
          /\ Ledger'[Len(Ledger) + 1] = row
      BY <1>4, <3>1, AppendList
    <3>3. Ledger' # <<>>
      <4>1. Len(Ledger') # 0
        BY <3>2
      <4>2. QED
        BY <3>2, <4>1, NotEmpty
    <3>4. Last(Ledger') = row
      BY <3>2 DEF Last
    <3>5. QED
      BY <1>1, <1>3, <1>6, <2>1, <2>2, <3>3, <3>4 DEF LedgerInv
  <2>4. CASE files["ledger"].open /\ Spoiled(files["ledger"], files'["ledger"])
    <3>1. ~(Appended >= 1)
      BY <1>1, <1>5, <2>4 DEF LedgerInv
    <3>2. ~(Appended' >= 2)
      <4>1. Appended \in Int
        BY <1>4 DEF Appended
      <4>2. QED
        BY <2>1, <3>1, <4>1 DEF t
    <3>3. ~Whole(files'["ledger"].lines)
      BY <2>4 DEF Spoiled, Whole
    <3>4. QED
      BY <1>1, <1>6, <2>2, <3>2, <3>3 DEF LedgerInv
  <2>5. QED
    BY <2>2, <2>3, <2>4
<1>9. QED
  BY <1>1, <1>7, <1>8, Proceeds DEF row

LEMMA LedgerInvNext ==
    ASSUME FilesInv, UnreadInv, JobInv, LedgerInv, Kinds PROVE LedgerInv'
<1>0. Idle.name # "entries" /\ Idle.name # "rows"
  BY IdleJob
<1>1. CASE Anchors' = Anchors /\ Ledger' = Ledger /\ own' = own /\ job'.name # "rows"
  BY <1>1 DEF LedgerInv
<1>2. CASE Quiet /\ own' = own /\ job' \in {job, Idle}
  <2>1. CASE job' = Idle
    BY <1>0, <1>1, <1>2, <2>1 DEF Quiet
  <2>2. CASE job' = job
    BY <1>2, <2>2 DEF Quiet, LedgerInv, Appended
  <2>3. QED
    BY <1>2, <2>1, <2>2
<1>3. CASE Quiet /\ own' = own /\ job' = Imports
  <2>1. job'.name # "rows"
    BY <1>3, ImportsJob
  <2>2. QED
    BY <1>1, <1>3, <2>1 DEF Quiet
<1>4. CASE MigrateLedger /\ Quiet
  <2>1. /\ Anchors' = Anchors /\ Ledger' = Ledger /\ files' = files /\ own' = own
        /\ job'.todo = Anchors
    BY <1>4, RowsJob DEF Quiet, MigrateLedger
  <2>2. Appended' = 0
    BY <2>1, ListsHere DEF Appended
  <2>3. ~(Appended' >= 1) /\ ~(Appended' >= 2)
    BY <2>2
  <2>4. QED
    BY <2>1, <2>3 DEF LedgerInv
<1>5. CASE MigrateEntry /\ WritesOnly("manifest", Head(job.todo))
  <2>1. /\ Anchors' = Anchors /\ Ledger' = Ledger /\ own' = own
        /\ job.name = "entries" /\ (job'.name = "entries" \/ job' = Idle)
    BY <1>5, Proceeds DEF WritesOnly, MigrateEntry
  <2>2. QED
    BY <1>0, <1>1, <2>1
<1>6. CASE MigrateRow /\ WritesOnly("ledger", Head(job.todo))
  BY <1>6, RowStep
<1>7. ASSUME NEW d \in Digests, Rm(d) /\ WritesOnly("manifest", Tombstone(d)) PROVE LedgerInv'
  <2>1. /\ Anchors' = Anchors /\ Ledger' = Ledger /\ own' = own /\ job' = Idle
    BY <1>7 DEF Rm, ottVars, WritesOnly
  <2>2. QED
    BY <1>0, <1>1, <2>1
<1>8. CASE Commit /\ WritesOnly("ledger", LedgerRow(Leaves))
  <2>1. own'
    BY <1>8 DEF Commit
  <2>2. QED
    BY <2>1 DEF LedgerInv
<1>9. ASSUME NEW migrate \in BOOLEAN, InitStore(migrate) /\ Quiet PROVE LedgerInv'
  BY <1>2, <1>3, <1>9 DEF InitStore
<1>10. ASSUME NEW d \in Digests, job = Idle, ImgAdd(d), WritesOnly("images", Entry(d)), UNCHANGED ottVars
       PROVE  LedgerInv'
  BY <1>0, <1>1, <1>10 DEF WritesOnly, ottVars
<1>11. CASE job = Idle /\ ImgCommit /\ WritesOnly("anchors", LedgerRow(ImgLeaves)) /\ UNCHANGED ottVars
  <2>1. Ledger' = Ledger /\ own' = own /\ job' = Idle
    BY <1>11 DEF WritesOnly, ottVars
  <2>2. Anchors' \in {Anchors, Append(Anchors, LedgerRow(ImgLeaves))}
    BY <1>11, WritesLoad DEF WritesOnly, Anchors
  <2>3. \A k \in DOMAIN Anchors : k \in DOMAIN Anchors' /\ Anchors'[k] = Anchors[k]
    BY <2>2, ListsHere, AppendList
  <2>4. QED
    BY <1>0, <2>1, <2>3 DEF LedgerInv
<1>12. QED
  BY <1>2, <1>3, <1>4, <1>5, <1>6, <1>7, <1>8, <1>9, <1>10, <1>11
     DEF Kinds, MigrateBegin, MigrateEnd, Die

----------------------------------------------------------------------------
(* What migrate imports keeps its root.                                    *)

MigrateInv ==
    FilesInv /\ UnreadInv /\ ImgInv /\ JobInv /\ OrderInv /\ LedgerInv

LEMMA MigrateInvNext ==
    ASSUME "line" \notin Torn, MigrateInv, [MigrateNext]_migrateVars
    PROVE  MigrateInv' /\ Kinds
<1>1. Kinds
  BY StepKinds DEF MigrateInv
<1>2. FilesInv' /\ UnreadInv'
  BY FilesInvNext, UnreadInvNext DEF MigrateInv
<1>3. ImgInv' /\ JobInv' /\ OrderInv' /\ LedgerInv'
  BY <1>1, ImgInvNext, JobInvNext, OrderInvNext, LedgerInvNext DEF MigrateInv
<1>4. QED
  BY <1>1, <1>2, <1>3 DEF MigrateInv

LEMMA MigrateInvariant ==
    ASSUME "line" \notin Torn PROVE MigrateSpec => []MigrateInv
<1>1. MigrateInit => MigrateInv
  BY FilesInvInit, UnreadInvInit, ImgInvInit, JobInvInit, OrderInvInit, LedgerInvInit
     DEF MigrateInv
<1>2. MigrateInv /\ [MigrateNext]_migrateVars => MigrateInv'
  BY MigrateInvNext
<1>3. QED
  BY <1>1, <1>2, PTL DEF MigrateSpec

\* A manifest that is whole, in order and has all entries live has those of imgfs.
LEMMA SameLeaves ==
    ASSUME FilesInv, ImgInv, InOrder(Lines, Import),
           \A k \in DOMAIN Import : Undeleted(Lines, Import[k].digest)
    PROVE  Leaves = ImgLeaves
<1> DEFINE n == Len(Import)
           D(k) == Import[k].digest
<1>1. /\ n \in Nat /\ DOMAIN Import = 1 .. n /\ IsList(Lines)
  BY ListsHere
<1>2. \A d : LinesOf(d) = At(Lines, d)
  BY DEF LinesOf, At
<1>3. \A k \in 1 .. n : /\ LinesOf(D(k)) # {} /\ ~Latest(D(k)).deleted
                        /\ Latest(D(k)).digest = D(k)
  <2>1. ASSUME NEW k \in 1 .. n
        PROVE  /\ LinesOf(D(k)) # {} /\ ~Latest(D(k)).deleted
               /\ Latest(D(k)).digest = D(k)
    <3>1. Undeleted(Lines, D(k))
      BY <1>1
    <3> HIDE DEF D
    <3>2. PICK i \in LinesOf(D(k)) : /\ ~Lines[i][1].deleted
                                     /\ \A j \in LinesOf(D(k)) : j <= i
      BY <1>2, <3>1 DEF Undeleted
    <3>3. PICK c \in LinesOf(D(k)) : /\ \A j \in LinesOf(D(k)) : j <= c
                                     /\ Latest(D(k)) = Lines[c][1] /\ Latest(D(k)).digest = D(k)
      BY <1>1, LatestFacts
    <3>4. i = c
      <4>1. i \in Nat /\ c \in Nat /\ i <= c /\ c <= i
        BY <1>1, <3>2, <3>3, FirstsFacts
      <4>2. QED
        BY <4>1
    <3>5. QED
      BY <3>2, <3>3, <3>4
  <2>2. QED
    BY <2>1
<1>4. \A i \in Firsts : \E k \in 1 .. n :
        /\ Lines[i][1].digest = D(k)
        /\ \A m \in 1 .. k : \E j \in LinesOf(D(m)) : j <= i
  <2>1. ASSUME NEW i \in Firsts
        PROVE  \E k \in 1 .. n : /\ Lines[i][1].digest = D(k)
                                 /\ \A m \in 1 .. k : \E j \in LinesOf(D(m)) : j <= i
    <3>1. i \in DOMAIN Lines /\ Lines[i] # <<>>
      BY DEF Firsts
    <3>2. QED
      BY <1>1, <1>2, <3>1 DEF InOrder
  <2>2. QED
    BY <2>1
<1>5. \A k, m \in 1 .. n : D(k) = D(m) => k = m
  BY <1>1 DEF ImgInv
<1> HIDE DEF D
<1>6. Alive = Firsts
  <2>1. ASSUME NEW i \in Firsts PROVE ~Latest(Lines[i][1].digest).deleted
    BY <1>3, <1>4
  <2>2. QED
    BY <2>1 DEF Alive
<1> DEFINE p == [k \in 1 .. n |-> CHOOSE i \in Firsts : i \in LinesOf(D(k)) /\ \A j \in LinesOf(D(k)) : i <= j]
<1>7. \A k \in 1 .. n : p[k] \in Firsts /\ p[k] \in LinesOf(D(k)) /\ \A j \in LinesOf(D(k)) : p[k] <= j
  <2>1. ASSUME NEW k \in 1 .. n
        PROVE  \E i \in Firsts : i \in LinesOf(D(k)) /\ \A j \in LinesOf(D(k)) : i <= j
    BY <1>1, <1>3, FirstsFacts
  <2>2. QED
    BY <2>1
<1>8. p \in [1 .. n -> Firsts]
  BY <1>7
<1> HIDE DEF p
<1>9. Firsts \subseteq Nat /\ \A k \in 1 .. n : p[k] \in Nat
  BY <1>1, <1>7, FirstsFacts
<1>10. \A k \in 1 .. n : Lines[p[k]][1].digest = D(k)
  BY <1>7 DEF LinesOf
<1>11. \A k, m \in 1 .. n : k < m => p[k] < p[m]
  <2>1. ASSUME NEW k \in 1 .. n, NEW m \in 1 .. n, k < m PROVE p[k] < p[m]
    <3>1. PICK l \in 1 .. n : /\ Lines[p[m]][1].digest = D(l)
                              /\ \A h \in 1 .. l : \E j \in LinesOf(D(h)) : j <= p[m]
      BY <1>4, <1>7
    <3>2. l = m
      BY <1>5, <1>10, <3>1
    <3>3. k \in 1 .. l
      BY <1>1, <2>1, <3>2
    <3>4. PICK j \in LinesOf(D(k)) : j <= p[m]
      BY <3>1, <3>3
    <3>5. p[k] <= j /\ j \in Nat
      BY <1>1, <1>7, FirstsFacts
    <3>6. p[k] # p[m]
      <4>1. ASSUME p[k] = p[m] PROVE FALSE
        <5>1. k = m
          BY <1>5, <1>10, <4>1
        <5>2. QED
          BY <1>1, <2>1, <5>1
      <4>2. QED
        BY <4>1
    <3>7. QED
      BY <1>9, <3>4, <3>5, <3>6
  <2>2. QED
    BY <2>1
<1>12. \A i \in Firsts : \E k \in 1 .. n : p[k] = i
  <2>1. ASSUME NEW i \in Firsts PROVE \E k \in 1 .. n : p[k] = i
    <3>1. PICK k \in 1 .. n : Lines[i][1].digest = D(k)
      BY <1>4
    <3>2. i \in LinesOf(D(k)) /\ \A j \in LinesOf(D(k)) : i <= j
      BY <1>1, <3>1, FirstsFacts DEF Firsts
    <3>3. p[k] <= i /\ i <= p[k] /\ i \in Nat /\ p[k] \in Nat
      BY <1>7, <1>9, <3>2
    <3>4. QED
      BY <3>3
  <2>2. QED
    BY <2>1
<1>13. Lists(p, n, Firsts)
  BY <1>8, <1>11, <1>12 DEF Lists
<1>14. PICK q : /\ Lists(q, Len(Live), Firsts)
                /\ \A k \in 1 .. Len(Live) : Live[k] = Latest(Lines[q[k]][1].digest)
  BY <1>1, <1>6, LiveFacts
<1>15. Len(Live) \in Nat /\ DOMAIN Live = 1 .. Len(Live)
  BY <1>1, LiveFacts
<1>16. Len(Live) = n /\ \A k \in 1 .. n : p[k] = q[k]
  <2> DEFINE len == Len(Live)
             I == Firsts
  <2>1. n \in Nat /\ len \in Nat /\ I \in SUBSET Nat /\ Lists(p, n, I) /\ Lists(q, len, I)
    BY <1>1, <1>9, <1>13, <1>14, <1>15
  <2> HIDE DEF len, I, n
  <2>2. n = len /\ \A k \in 1 .. n : p[k] = q[k]
    BY <2>1, ListsUnique
  <2>3. QED
    BY <2>2 DEF len
<1>17. \A k \in 1 .. n : Live[k].digest = D(k)
  <2>1. ASSUME NEW k \in 1 .. n PROVE Live[k].digest = D(k)
    <3>1. Live[k] = Latest(D(k))
      BY <1>10, <1>14, <1>16
    <3>2. QED
      BY <1>3, <3>1
  <2>2. QED
    BY <2>1
<1>18. /\ Leaves = [k \in 1 .. n |-> Live[k].digest]
       /\ ImgLeaves = [k \in 1 .. n |-> D(k)]
  BY <1>1, <1>15, <1>16 DEF Leaves, ImgLeaves, DigestsOf, Import, D
<1>19. QED
  BY <1>17, <1>18

\* What migrate has imported before ott commits has the root imgfs would commit to,
\* leaf by leaf, whatever was added, migrated, cut short, repeated or removed before,
\* when a line that is torn lacks more than its newline.
THEOREM MigrationKeepsRoot ==
    ASSUME "line" \notin Torn PROVE MigrateSpec => MigrateKeepsRoot
<1>1. ASSUME MigrateInv, MigrateEnd, ~own, Untorn("manifest")
      PROVE  /\ Leaves = ImgLeaves
             /\ Untorn("ledger") => ImgStatus \in {"raises", OttStatus}
  <2>1. Whole(Lines)
    BY <1>1 DEF Untorn, Whole, Lines
  <2>2. job.name = "rows" /\ job.todo = <<>>
    BY <1>1 DEF MigrateEnd
  <2>3. Leaves = ImgLeaves
    BY <1>1, <2>1, <2>2, SameLeaves DEF MigrateInv, OrderInv
  <2>4. ASSUME Untorn("ledger") PROVE ImgStatus \in {"raises", OttStatus}
    <3> DEFINE n == Len(Anchors)
    <3>1. /\ n \in Nat /\ DOMAIN Anchors = 1 .. n /\ IsList(Anchors)
          /\ IsList(Ledger) /\ Len(Ledger) \in Nat /\ DOMAIN Ledger = 1 .. Len(Ledger)
      BY <1>1, ListsHere DEF MigrateInv
    <3>2. Appended = n
      <4>1. Len(<<>>) = 0
        OBVIOUS
      <4>2. QED
        BY <2>2, <3>1, <4>1 DEF Appended
    <3>3. Whole(files["ledger"].lines)
      BY <2>4 DEF Untorn, Whole
    <3>4. /\ \A i \in DOMAIN Ledger : \E k \in DOMAIN Anchors : Ledger[i] = Anchors[k]
          /\ n >= 1 => Ledger # <<>> /\ Last(Ledger) = Anchors[n]
      BY <1>1, <2>2, <3>2, <3>3 DEF MigrateInv, LedgerInv
    <3>5. Status(Anchors, ImgLeaves) = Status(Ledger, ImgLeaves)
      <4>1. CASE n = 0
        <5>1. Anchors = <<>>
          BY <3>1, <4>1, NotEmpty
        <5>2. Ledger = <<>>
          <6>1. DOMAIN Ledger = {}
            BY <3>1, <3>4, <4>1
          <6>2. Len(Ledger) = 0
            BY <3>1, <6>1
          <6>3. QED
            BY <3>1, <6>2, NotEmpty
        <5>3. QED
          BY <5>1, <5>2
      <4>2. CASE n # 0
        <5>1. n >= 1 /\ Anchors # <<>>
          BY <3>1, <4>2, NotEmpty
        <5>2. Last(Anchors) = Anchors[n]
          BY DEF Last
        <5>3. QED
          BY <3>4, <5>1, <5>2 DEF Status
      <4>3. QED
        BY <4>1, <4>2
    <3>6. ImgStatus \in {"raises", Status(Anchors, ImgLeaves)}
      BY DEF ImgStatus, Anchors
    <3>7. OttStatus = Status(Ledger, ImgLeaves)
      BY <2>3 DEF OttStatus, Ledger
    <3>8. QED
      BY <3>5, <3>6, <3>7
  <2>5. QED
    BY <2>3, <2>4
<1>2. QED
  BY <1>1, MigrateInvariant, PTL DEF MigrateKeepsRoot, MigrateSpec

----------------------------------------------------------------------------
(* The rows that are imported next, and what the appends keep.             *)

LEMMA ImportedRow ==
    ASSUME MigrateInv, MigrateEntry
    PROVE  /\ \E t \in DOMAIN Import : Head(job.todo) = Import[t]
           /\ ~Head(job.todo).deleted /\ Head(job.todo).added \in Nat
<1>1. job.name = "entries" /\ AppendNext("manifest")
  BY DEF MigrateEntry
<1>2. SuffixOf(job.todo, Import) /\ job.todo # <<>>
  BY <1>1, IdleJob, Proceeds DEF MigrateInv, JobInv
<1>3. IsList(Import) /\ DOMAIN Import = 1 .. Len(Import)
  BY ListsHere DEF MigrateInv
<1>4. \E t \in DOMAIN Import : Head(job.todo) = Import[t]
  BY <1>2, <1>3, SuffixTail
<1>5. QED
  BY <1>4 DEF MigrateInv, ImgInv

LEMMA ImportedAnchor ==
    ASSUME MigrateInv, MigrateRow
    PROVE  /\ \E t \in DOMAIN Anchors : Head(job.todo) = Anchors[t]
           /\ Head(job.todo).ts \in Nat /\ Head(job.todo).ts <= now
<1>1. job.name = "rows" /\ AppendNext("ledger")
  BY DEF MigrateRow
<1>2. SuffixOf(job.todo, Anchors) /\ job.todo # <<>>
  BY <1>1, IdleJob, Proceeds DEF MigrateInv, JobInv
<1>3. IsList(Anchors) /\ DOMAIN Anchors = 1 .. Len(Anchors)
  BY ListsHere DEF MigrateInv
<1>4. \E t \in DOMAIN Anchors : Head(job.todo) = Anchors[t]
  BY <1>2, <1>3, SuffixTail
<1>5. QED
  BY <1>4 DEF MigrateInv, ImgInv

LEMMA AddedMore ==
    ASSUME IsList(Lines), NEW row, WritesOnly("manifest", row), row.added \in Nat,
           \A i \in DOMAIN Lines : Lines[i] # <<>> => Lines[i][1].added \in Nat
    PROVE  \A i \in DOMAIN Lines' : Lines'[i] # <<>> => Lines'[i][1].added \in Nat
<1>1. Lines' \in {Append(Lines, <<row>>), Lines, Append(Lines, <<>>)}
  BY DEF WritesOnly, Writes, Wrote, Spoiled, Lines
<1>2. ASSUME NEW line \in {<<row>>, <<>>}, Lines' = Append(Lines, line)
      PROVE  \A i \in DOMAIN Lines' : Lines'[i] # <<>> => Lines'[i][1].added \in Nat
  <2>1. /\ DOMAIN Lines' = DOMAIN Lines \cup {Len(Lines) + 1}
        /\ \A i \in DOMAIN Lines : Lines'[i] = Lines[i]
        /\ Lines'[Len(Lines) + 1] = line
    BY <1>2, AppendList
  <2>2. line # <<>> => line[1].added \in Nat
    OBVIOUS
  <2>3. QED
    BY <2>1, <2>2
<1>3. QED
  BY <1>1, <1>2

LEMMA NothingLive ==
    ASSUME IsList(Lines), Lines = <<>> PROVE Leaves = <<>>
<1>1. DOMAIN Live = {} /\ IsList(Live)
  <2>1. \A k \in DOMAIN Live : \E i \in DOMAIN Lines : TRUE
    BY LiveIsThere
  <2>2. DOMAIN Lines = {}
    OBVIOUS
  <2>3. QED
    BY <2>1, <2>2, LiveFacts
<1>2. Live = <<>>
  <2>1. Len(Live) = 0
    BY <1>1, ListFacts
  <2>2. QED
    BY <1>1, <2>1, NotEmpty
<1>3. QED
  BY <1>2 DEF Leaves, DigestsOf

----------------------------------------------------------------------------
(* What was committed stays.                                               *)

\* An entry is live when the latest row of its digest does not delete it, and is
\* that row.
LeafInv ==
    /\ \A d : Undeleted(Lines, d) => d \in ToSet(Leaves)
    /\ \A d \in ToSet(Leaves) : Undeleted(Lines, d)
    /\ \A k \in DOMAIN Live : /\ Undeleted(Lines, Live[k].digest)
                              /\ Live[k] = Latest(Live[k].digest)
                              /\ \E i \in DOMAIN Lines : Lines[i] # <<>> /\ Live[k] = Lines[i][1]

LEMMA LeavesAre == FilesInv => LeafInv
<1> SUFFICES ASSUME FilesInv PROVE LeafInv
  OBVIOUS
<1>1. IsList(Lines)
  BY ListsHere
<1>2. \A d : LinesOf(d) = At(Lines, d)
  BY DEF LinesOf, At
<1>3. PICK p : /\ Lists(p, Len(Live), Alive)
               /\ \A k \in 1 .. Len(Live) : Live[k] = Latest(Lines[p[k]][1].digest)
  BY <1>1, LiveFacts
<1>4. DOMAIN Live = 1 .. Len(Live)
  BY <1>1, LiveFacts
<1>5. ASSUME NEW d, LinesOf(d) # {}
      PROVE  /\ Undeleted(Lines, d) <=> ~Latest(d).deleted
             /\ Latest(d).digest = d
             /\ \E i \in DOMAIN Lines : Lines[i] # <<>> /\ Latest(d) = Lines[i][1]
  <2>1. PICK c \in LinesOf(d) : /\ \A j \in LinesOf(d) : j <= c
                                /\ Latest(d) = Lines[c][1] /\ Latest(d).digest = d
    BY <1>1, <1>5, LatestFacts
  <2>2. LinesOf(d) \subseteq Nat
    BY <1>1, FirstsFacts
  <2>3. \A i \in LinesOf(d) : (\A j \in LinesOf(d) : j <= i) => i = c
    <3>1. ASSUME NEW i \in LinesOf(d), \A j \in LinesOf(d) : j <= i PROVE i = c
      <4>1. i \in Nat /\ c \in Nat /\ i <= c /\ c <= i
        BY <2>1, <2>2, <3>1
      <4>2. QED
        BY <4>1
    <3>2. QED
      BY <3>1
  <2>4. Undeleted(Lines, d) <=> ~Latest(d).deleted
    BY <1>2, <2>1, <2>3 DEF Undeleted
  <2>5. c \in DOMAIN Lines /\ Lines[c] # <<>>
    BY <2>1 DEF LinesOf
  <2>6. QED
    BY <2>1, <2>4, <2>5
<1>6. ASSUME NEW k \in DOMAIN Live
      PROVE  /\ Undeleted(Lines, Live[k].digest)
             /\ Live[k] = Latest(Live[k].digest)
             /\ \E i \in DOMAIN Lines : Lines[i] # <<>> /\ Live[k] = Lines[i][1]
  <2> DEFINE d == Lines[p[k]][1].digest
  <2>1. p[k] \in Alive /\ Live[k] = Latest(d)
    BY <1>3, <1>4 DEF Lists
  <2>2. p[k] \in Firsts /\ ~Latest(d).deleted
    BY <2>1 DEF Alive
  <2>3. LinesOf(d) # {}
    BY <1>1, <2>2, FirstsFacts
  <2> HIDE DEF d
  <2>4. QED
    BY <1>5, <2>1, <2>2, <2>3
<1>7. /\ DOMAIN Leaves = DOMAIN Live /\ \A k \in DOMAIN Live : Leaves[k] = Live[k].digest
      /\ ToSet(Leaves) = {Leaves[k] : k \in DOMAIN Leaves}
  BY DEF Leaves, DigestsOf, ToSet
<1>8. ASSUME NEW d, Undeleted(Lines, d) PROVE d \in ToSet(Leaves)
  <2>1. LinesOf(d) # {}
    BY <1>2, <1>8 DEF Undeleted
  <2>2. PICK i \in Firsts : i \in LinesOf(d)
    BY <1>1, <2>1, FirstsFacts
  <2>3. Lines[i][1].digest = d
    BY <2>2 DEF LinesOf
  <2>4. ~Latest(d).deleted /\ Latest(d).digest = d
    BY <1>5, <1>8, <2>1
  <2>5. i \in Alive
    BY <2>2, <2>3, <2>4 DEF Alive
  <2>6. PICK k \in 1 .. Len(Live) : p[k] = i
    BY <1>3, <2>5 DEF Lists
  <2>7. k \in DOMAIN Live /\ Live[k].digest = d
    BY <1>3, <1>4, <2>3, <2>4, <2>6
  <2>8. QED
    BY <1>7, <2>7
<1>9. ASSUME NEW d \in ToSet(Leaves) PROVE Undeleted(Lines, d)
  BY <1>6, <1>7
<1>10. QED
  BY <1>6, <1>8, <1>9 DEF LeafInv

\* No migration is under way once ott has committed, and its ledger is in the order of
\* time but while rows are imported, or were when the migration was cut short.
TimeInv ==
    /\ own => made /\ job = Idle
    /\ ~made => ~pending /\ job = Idle /\ Lines = <<>>
    /\ job # Idle => pending
    /\ \A i \in DOMAIN Ledger : Ledger[i].ts \in Nat /\ Ledger[i].ts <= now
    /\ ~pending => \A i \in DOMAIN Ledger : Ledger[i].ts <= Last(Ledger).ts
    /\ \A i \in DOMAIN Lines : Lines[i] # <<>> => Lines[i][1].added \in Nat

LEMMA TimeInvInit == MigrateInit => TimeInv
<1> SUFFICES ASSUME MigrateInit PROVE TimeInv
  OBVIOUS
<1>1. Ledger = <<>> /\ Lines = <<>>
  BY FourFiles, NoRows DEF Ledger, Lines
<1>2. job = Idle /\ own = FALSE /\ pending = FALSE
  BY DEF MigrateInit
<1>3. DOMAIN <<>> = {}
  OBVIOUS
<1>4. QED
  BY <1>1, <1>2, <1>3 DEF TimeInv

\* at the end of a migration the last row is the latest
LEMMA LedgerInTime ==
    ASSUME MigrateInv, TimeInv, MigrateEnd
    PROVE  \A i \in DOMAIN Ledger : Ledger[i].ts <= Last(Ledger).ts
<1> DEFINE n == Len(Anchors)
<1>1. /\ n \in Nat /\ DOMAIN Anchors = 1 .. n
      /\ IsList(Ledger) /\ Len(Ledger) \in Nat /\ DOMAIN Ledger = 1 .. Len(Ledger)
  BY ListsHere DEF MigrateInv
<1>2. job.name = "rows" /\ job.todo = <<>>
  BY DEF MigrateEnd
<1>3. ~own
  BY <1>2, IdleJob DEF TimeInv
<1>4. Appended = n
  <2>1. Len(<<>>) = 0
    OBVIOUS
  <2>2. QED
    BY <1>1, <1>2, <2>1 DEF Appended
<1>5. /\ \A i \in DOMAIN Ledger : \E k \in DOMAIN Anchors : Ledger[i] = Anchors[k]
      /\ n >= 2 => Last(Ledger) = Anchors[n]
  BY <1>2, <1>3, <1>4 DEF MigrateInv, LedgerInv
<1>6. /\ \A i, j \in 1 .. n : i < j => Anchors[i].ts <= Anchors[j].ts
      /\ \A i \in 1 .. n : Anchors[i].ts \in Nat
  BY <1>1 DEF MigrateInv, ImgInv
<1>7. ASSUME NEW i \in DOMAIN Ledger PROVE Ledger[i].ts <= Last(Ledger).ts
  <2>1. PICK k \in 1 .. n : Ledger[i] = Anchors[k]
    BY <1>1, <1>5
  <2>2. CASE n >= 2
    <3>1. n \in 1 .. n /\ (k = n \/ k < n)
      BY <1>1, <2>1, <2>2
    <3>2. Anchors[k].ts <= Anchors[n].ts
      BY <1>6, <3>1
    <3>3. QED
      BY <1>5, <2>1, <2>2, <3>2
  <2>3. CASE ~(n >= 2)
    <3>1. \A m \in 1 .. n : m = 1
      BY <1>1, <2>3
    <3>2. Len(Ledger) \in DOMAIN Ledger
      BY <1>1
    <3>3. PICK m \in 1 .. n : Ledger[Len(Ledger)] = Anchors[m]
      BY <1>1, <1>5, <3>2
    <3>4. Last(Ledger) = Ledger[i]
      BY <2>1, <3>1, <3>3 DEF Last
    <3>5. QED
      BY <1>6, <2>1, <3>4
  <2>4. QED
    BY <2>2, <2>3
<1>8. QED
  BY <1>7

LEMMA TimeInvNext ==
    ASSUME ~Late, MigrateInv, TimeInv, Kinds PROVE TimeInv'
<1>0. /\ now \in Nat
      /\ IsList(Ledger) /\ Len(Ledger) \in Nat /\ DOMAIN Ledger = 1 .. Len(Ledger)
      /\ IsList(Lines)
  BY ListsHere DEF MigrateInv, ImgInv
<1>1. CASE /\ Lines' = Lines /\ Ledger' = Ledger /\ now' \in {now, now + 1}
           /\ UNCHANGED <<made, job, pending, own>>
  BY <1>0, <1>1 DEF TimeInv
<1>2. ASSUME NEW migrate \in BOOLEAN, InitStore(migrate) /\ Quiet PROVE TimeInv'
  <2>1. /\ ~made /\ made' /\ job' = (IF migrate THEN Imports ELSE Idle)
        /\ pending' = migrate /\ own' = own /\ now' = now
    BY <1>2 DEF InitStore
  <2>2. Lines' = Lines /\ Ledger' = Ledger
    BY <1>2 DEF Quiet
  <2>3. ~own /\ ~pending
    BY <2>1 DEF TimeInv
  <2>4. job' # Idle => pending'
    BY <2>1
  <2>5. QED
    BY <2>1, <2>2, <2>3, <2>4 DEF TimeInv
<1>3. CASE MigrateBegin /\ Quiet
  <2>1. /\ made /\ ~own /\ made' = made /\ own' = own /\ now' = now /\ pending'
        /\ Lines' = Lines /\ Ledger' = Ledger
    BY <1>3 DEF MigrateBegin, Quiet
  <2>2. QED
    BY <2>1 DEF TimeInv
<1>4. CASE MigrateLedger /\ Quiet
  <2>1. /\ job # Idle /\ made' = made /\ own' = own /\ now' = now /\ pending' = pending
        /\ Lines' = Lines /\ Ledger' = Ledger
    BY <1>4, IdleJob DEF MigrateLedger, Quiet
  <2>2. QED
    BY <2>1 DEF TimeInv
<1>5. CASE MigrateEnd /\ Quiet
  <2>1. /\ job # Idle /\ made' = made /\ own' = own /\ now' = now /\ ~pending' /\ job' = Idle
        /\ Lines' = Lines /\ Ledger' = Ledger
    BY <1>5, IdleJob DEF MigrateEnd, Quiet
  <2>2. \A i \in DOMAIN Ledger : Ledger[i].ts <= Last(Ledger).ts
    BY <1>5, LedgerInTime
  <2>3. QED
    BY <2>1, <2>2 DEF TimeInv
<1>6. CASE Die /\ Quiet
  <2>1. /\ job # Idle /\ made' = made /\ own' = own /\ now' = now /\ pending' = pending
        /\ job' = Idle /\ Lines' = Lines /\ Ledger' = Ledger
    BY <1>6 DEF Die, Quiet
  <2>2. QED
    BY <2>1 DEF TimeInv
<1>7. CASE MigrateEntry /\ WritesOnly("manifest", Head(job.todo))
  <2> DEFINE row == Head(job.todo)
  <2>1. /\ job # Idle /\ made' = made /\ own' = own /\ now' = now /\ pending' = pending
        /\ Ledger' = Ledger /\ AppendNext("manifest")
    BY <1>7, IdleJob, Proceeds DEF MigrateEntry, MigrateInv, WritesOnly
  <2>2. row.added \in Nat
    BY <1>7, ImportedRow DEF MigrateInv
  <2>3. \A i \in DOMAIN Lines' : Lines'[i] # <<>> => Lines'[i][1].added \in Nat
    BY <1>0, <1>7, <2>2, AddedMore DEF TimeInv
  <2>4. QED
    BY <2>1, <2>3 DEF TimeInv
<1>8. CASE MigrateRow /\ WritesOnly("ledger", Head(job.todo))
  <2> DEFINE row == Head(job.todo)
  <2>1. /\ job # Idle /\ made' = made /\ own' = own /\ now' = now /\ pending' = pending
        /\ Lines' = Lines
    BY <1>8, IdleJob, Proceeds DEF MigrateRow, MigrateInv, WritesOnly
  <2>2. row.ts \in Nat /\ row.ts <= now
    BY <1>8, ImportedAnchor DEF MigrateInv
  <2> HIDE DEF row
  <2>3. Ledger' \in {Ledger, Append(Ledger, row)}
    BY <1>8, WritesLoad DEF WritesOnly, Ledger, row
  <2>4. \A i \in DOMAIN Ledger' : Ledger'[i].ts \in Nat /\ Ledger'[i].ts <= now
    <3>1. CASE Ledger' = Ledger
      BY <3>1 DEF TimeInv
    <3>2. CASE Ledger' = Append(Ledger, row)
      BY <1>0, <2>2, <3>2, AppendList DEF TimeInv
    <3>3. QED
      BY <2>3, <3>1, <3>2
  <2>5. QED
    BY <2>1, <2>4 DEF TimeInv
<1>9. ASSUME NEW d \in Digests, Rm(d) /\ WritesOnly("manifest", Tombstone(d)) PROVE TimeInv'
  <2>1. /\ made /\ UNCHANGED <<now, made, job, pending, own>> /\ Ledger' = Ledger
    BY <1>9 DEF Rm, ottVars, WritesOnly
  <2>2. Tombstone(d).added \in Nat
    <3>1. Tombstone(d).added = 0
      BY TombstoneFields
    <3>2. QED
      BY <3>1
  <2>3. \A i \in DOMAIN Lines' : Lines'[i] # <<>> => Lines'[i][1].added \in Nat
    BY <1>0, <1>9, <2>2, AddedMore DEF TimeInv
  <2>4. QED
    BY <2>1, <2>3 DEF TimeInv
<1>10. CASE Commit /\ WritesOnly("ledger", LedgerRow(Leaves))
  <2> DEFINE row == LedgerRow(Leaves)
  <2>1. /\ UNCHANGED <<now, made, job, pending>> /\ own' = TRUE /\ Lines' = Lines
        /\ job = Idle /\ Leaves # <<>>
    BY <1>10 DEF Commit, WritesOnly
  <2>2. made
    BY <1>0, <2>1, NothingLive DEF TimeInv
  <2>3. row.ts = now
    BY DEF LedgerRow
  <2> HIDE DEF row
  <2>4. Ledger' \in {Ledger, Append(Ledger, row)}
    BY <1>10, WritesLoad DEF WritesOnly, Ledger, row
  <2>5. /\ \A i \in DOMAIN Ledger' : Ledger'[i].ts \in Nat /\ Ledger'[i].ts <= now
        /\ ~pending => \A i \in DOMAIN Ledger' : Ledger'[i].ts <= Last(Ledger').ts
    <3>1. CASE Ledger' = Ledger
      BY <2>1, <3>1 DEF TimeInv
    <3>2. CASE Ledger' = Append(Ledger, row)
      <4>1. /\ DOMAIN Ledger' = DOMAIN Ledger \cup {Len(Ledger) + 1}
            /\ \A i \in DOMAIN Ledger : Ledger'[i] = Ledger[i]
            /\ Ledger'[Len(Ledger) + 1] = row /\ Len(Ledger') = Len(Ledger) + 1
        BY <1>0, <3>2, AppendList
      <4>2. \A i \in DOMAIN Ledger' : Ledger'[i].ts \in Nat /\ Ledger'[i].ts <= now
        BY <1>0, <2>3, <4>1 DEF TimeInv
      <4>3. Last(Ledger').ts = now
        BY <2>3, <4>1 DEF Last
      <4>4. QED
        BY <4>2, <4>3
    <3>3. QED
      BY <2>4, <3>1, <3>2
  <2>6. QED
    BY <2>1, <2>2, <2>5 DEF TimeInv
<1>11. ASSUME NEW n \in {"images", "anchors"}, NEW row, WritesOnly(n, row), now' = now, UNCHANGED ottVars
       PROVE  TimeInv'
  BY <1>1, <1>11 DEF WritesOnly, ottVars
<1>12. CASE Quiet /\ now' \in {now, now + 1} /\ UNCHANGED <<made, job, pending, own>>
  BY <1>1, <1>12 DEF Quiet
<1>13. QED
  BY <1>2, <1>3, <1>4, <1>5, <1>6, <1>7, <1>8, <1>9, <1>10, <1>11, <1>12
     DEF Kinds, ImgAdd, ImgCommit

\* An append of a row that deletes nothing leaves all that is live.
LEMMA UndeletedStays ==
    ASSUME IsList(Lines), NEW row, WritesOnly("manifest", row), NEW d, Undeleted(Lines, d),
           row.digest = d => ~row.deleted
    PROVE  Undeleted(Lines', d)
<1>1. Lines' \in {Append(Lines, <<row>>), Lines, Append(Lines, <<>>)}
  BY DEF WritesOnly, Writes, Wrote, Spoiled, Lines
<1>2. CASE Lines' = Append(Lines, <<>>)
  BY <1>2, UndeletedAppend
<1>3. CASE Lines' = Append(Lines, <<row>>)
  <2>1. <<row>> # <<>> /\ <<row>>[1] = row
    OBVIOUS
  <2>2. QED
    BY <1>3, <2>1, UndeletedAppend
<1>4. QED
  BY <1>1, <1>2, <1>3

\* rm of an entry whose time is that of a commit, or before, is refused, if the row of
\* that commit is read and the last row is the latest
LEMMA RmRefused ==
    ASSUME MigrateInv, TimeInv, LeafInv, ~pending, Commits \subseteq ToSet(Ledger), NEW d, Rm(d)
    PROVE  d \notin Committed(Commits)
<1> SUFFICES ASSUME d \in Committed(Commits) PROVE FALSE
  OBVIOUS
<1>1. PICK k \in DOMAIN Live : /\ Live[k].digest = d
                               /\ \E row \in Commits : Live[k].added <= row.ts
  BY DEF Committed
<1>0. PICK row \in ToSet(Ledger) : Live[k].added <= row.ts
  BY <1>1
<1>2. PICK i \in DOMAIN Ledger : Live[k].added <= Ledger[i].ts
  BY <1>0 DEF ToSet
<1>3. PICK m \in DOMAIN Live : Live[m].digest = d /\ Live[m].added > LastCommitTs
  BY DEF Rm
<1>4. Live[k] = Live[m]
  BY <1>1, <1>3 DEF LeafInv
<1>5. IsList(Ledger) /\ Len(Ledger) \in Nat /\ DOMAIN Ledger = 1 .. Len(Ledger)
  BY ListsHere DEF MigrateInv
<1>6. Len(Ledger) \in DOMAIN Ledger /\ Ledger # <<>>
  <2>1. Len(Ledger) # 0
    BY <1>2, <1>5
  <2>2. QED
    BY <1>5, <2>1, NotEmpty
<1>8. Ledger[i].ts <= Last(Ledger).ts /\ Ledger[i].ts \in Nat /\ Last(Ledger).ts \in Nat
  BY <1>2, <1>6 DEF TimeInv, Last
<1>9. LastCommitTs = Last(Ledger).ts
  BY <1>6 DEF LastCommitTs, Ledger
<1>10. Live[k].added \in Nat
  <2>1. PICK l \in DOMAIN Lines : Lines[l] # <<>> /\ Live[k] = Lines[l][1]
    BY <1>1 DEF LeafInv
  <2>2. QED
    BY <2>1 DEF TimeInv
<1>11. QED
  BY <1>2, <1>3, <1>4, <1>8, <1>9, <1>10

\* Once committed, by imgfs or by ott, an entry is live for good: rm refuses it and an
\* import deletes nothing, while ott can read the row of every commit and no migration
\* that was cut short waits to be repeated, when none follows a commit by ott.
THEOREM CommittedStays ==
    ASSUME "line" \notin Torn, ~Late PROVE MigrateSpec => CommittedKept
<1>1. MigrateInv /\ TimeInv /\ [MigrateNext]_migrateVars => TimeInv'
  BY MigrateInvNext, TimeInvNext
<1>2. MigrateSpec => []TimeInv
  BY <1>1, TimeInvInit, MigrateInvariant, PTL DEF MigrateSpec
<1>3. MigrateInv => LeafInv
  BY LeavesAre DEF MigrateInv
<1>4. ASSUME MigrateInv, TimeInv, LeafInv, LeafInv', [MigrateNext]_migrateVars,
             ManifestChanges, ~CutShort, Commits \subseteq ToSet(Load("ledger"))
      PROVE  Committed(Commits) \subseteq ToSet(Leaves')
  <2>1. Kinds
    BY <1>4, MigrateInvNext
  <2>2. \A d : Undeleted(Lines', d) => d \in ToSet(Leaves')
    BY <1>4 DEF LeafInv
  <2>3. \A d \in Committed(Commits) : Undeleted(Lines, d)
    <3>1. \A d \in Committed(Commits) : \E k \in DOMAIN Live : d = Live[k].digest
      BY DEF Committed
    <3>2. QED
      BY <1>4, <3>1 DEF LeafInv
  <2>4. IsList(Lines)
    BY <1>4, ListsHere DEF MigrateInv
  <2>5. CASE MigrateEntry /\ WritesOnly("manifest", Head(job.todo))
    <3>1. ~Head(job.todo).deleted
      BY <1>4, <2>5, ImportedRow
    <3>2. QED
      BY <2>2, <2>3, <2>4, <2>5, <3>1, UndeletedStays
  <2>6. ASSUME NEW d \in Digests, Rm(d), WritesOnly("manifest", Tombstone(d))
        PROVE  Committed(Commits) \subseteq ToSet(Leaves')
    <3>0. job = Idle
      BY <2>6 DEF Rm
    <3>1. d \notin Committed(Commits) /\ Tombstone(d).digest = d
      BY <1>4, <2>6, <3>0, RmRefused, TombstoneFields DEF CutShort, Ledger
    <3>2. QED
      BY <2>2, <2>3, <2>4, <2>6, <3>1, UndeletedStays
  <2>7. ASSUME NEW n, NEW row, n # "manifest", WritesOnly(n, row) PROVE FALSE
    BY <1>4, <2>7, FourFiles DEF ManifestChanges, WritesOnly, Writes, Others
  <2>8. ~Quiet
    BY <1>4 DEF ManifestChanges, Quiet
  <2>9. QED
    BY <2>1, <2>5, <2>6, <2>7, <2>8 DEF Kinds
<1>5. QED
  BY <1>2, <1>3, <1>4, MigrateInvariant, PTL DEF CommittedKept, MigrateSpec

----------------------------------------------------------------------------
(* The roots that are compared.                                            *)

\* the leaves of a manifest of distinct files
IsManifest(ls) == IsList(ls) /\ Distinct(ls) /\ \A k \in DOMAIN ls : ls[k] \in Digests

RootsInv ==
    /\ \A k \in DOMAIN Import : Import[k].digest \in Digests
    /\ \A i \in DOMAIN Lines : Lines[i] # <<>> => Lines[i][1].digest \in Digests
    /\ \A i \in DOMAIN Anchors : IsManifest(Anchors[i].leaves)
    /\ \A i \in DOMAIN Ledger : IsManifest(Ledger[i].leaves)

LEMMA DigestsList ==
    ASSUME NEW rows, NEW n \in Nat, DOMAIN rows = 1 .. n
    PROVE  /\ IsList(DigestsOf(rows)) /\ DOMAIN DigestsOf(rows) = 1 .. n
           /\ \A k \in 1 .. n : DigestsOf(rows)[k] = rows[k].digest
<1> DEFINE ds == DigestsOf(rows)
<1>1. ds = [k \in 1 .. n |-> rows[k].digest]
  BY DEF DigestsOf
<1>2. ds = [k \in 1 .. n |-> ds[k]]
  BY <1>1
<1> HIDE DEF ds
<1>3. QED
  BY <1>1, <1>2, ListOf DEF ds

LEMMA ImgLeavesManifest ==
    ASSUME FilesInv, ImgInv, RootsInv
    PROVE  IsManifest(ImgLeaves)
<1>1. Len(Import) \in Nat /\ DOMAIN Import = 1 .. Len(Import)
  BY ListsHere
<1>2. ImgLeaves = DigestsOf(Import)
  BY DEF ImgLeaves, Import
<1>3. /\ IsList(ImgLeaves) /\ DOMAIN ImgLeaves = DOMAIN Import
      /\ \A k \in DOMAIN Import : ImgLeaves[k] = Import[k].digest
  BY <1>1, <1>2, DigestsList
<1>4. QED
  BY <1>3 DEF ImgInv, RootsInv, IsManifest, Distinct

LEMMA LeavesManifest ==
    ASSUME FilesInv, LeafInv, RootsInv
    PROVE  IsManifest(Leaves)
<1> DEFINE n == Len(Live)
<1>1. IsList(Lines)
  BY ListsHere
<1>2. n \in Nat /\ DOMAIN Live = 1 .. n
  BY <1>1, LiveFacts
<1>3. PICK p : /\ Lists(p, n, Alive)
               /\ \A k \in 1 .. n : Live[k] = Latest(Lines[p[k]][1].digest)
  BY <1>1, LiveFacts
<1>4. /\ IsList(Leaves) /\ DOMAIN Leaves = 1 .. n
      /\ \A k \in 1 .. n : Leaves[k] = Live[k].digest
  BY <1>2, DigestsList DEF Leaves
<1> HIDE DEF n
<1>5. \A k \in 1 .. n : /\ p[k] \in LinesOf(Live[k].digest) /\ p[k] \in Nat
                        /\ \A j \in LinesOf(Live[k].digest) : p[k] <= j
  <2>1. ASSUME NEW k \in 1 .. n
        PROVE  /\ p[k] \in LinesOf(Live[k].digest) /\ p[k] \in Nat
               /\ \A j \in LinesOf(Live[k].digest) : p[k] <= j
    <3>1. p[k] \in Firsts
      BY <1>3 DEF Lists, Alive
    <3> DEFINE d == Lines[p[k]][1].digest
    <3>2. p[k] \in LinesOf(d) /\ p[k] \in Nat
      BY <1>1, <3>1, FirstsFacts
    <3>3. \A j \in LinesOf(d) : p[k] <= j
      BY <3>1 DEF Firsts
    <3>4. Latest(d).digest = d
      BY <1>1, <3>2, LatestFacts
    <3>5. Live[k].digest = d
      BY <1>3, <3>4
    <3> HIDE DEF d
    <3>6. QED
      BY <3>2, <3>3, <3>5
  <2>2. QED
    BY <2>1
<1>6. ASSUME NEW k \in 1 .. n, NEW m \in 1 .. n, Live[k].digest = Live[m].digest
      PROVE  k = m
  <2>1. p[k] = p[m]
    <3>1. p[k] <= p[m] /\ p[m] <= p[k] /\ p[k] \in Nat /\ p[m] \in Nat
      BY <1>5, <1>6
    <3>2. QED
      BY <3>1
  <2>2. ~(k < m) /\ ~(m < k)
    <3>1. k < m => p[k] < p[m]
      BY <1>3 DEF Lists
    <3>2. m < k => p[m] < p[k]
      BY <1>3 DEF Lists
    <3>3. QED
      BY <1>5, <2>1, <3>1, <3>2
  <2>3. QED
    BY <1>2, <2>2
<1>7. \A k \in 1 .. n : Live[k].digest \in Digests
  BY <1>2 DEF LeafInv, RootsInv
<1>8. QED
  BY <1>4, <1>6, <1>7 DEF IsManifest, Distinct

LEMMA RootsInvInit == MigrateInit => RootsInv
<1> SUFFICES ASSUME MigrateInit PROVE RootsInv
  OBVIOUS
<1>1. Import = <<>> /\ Anchors = <<>> /\ Ledger = <<>> /\ Lines = <<>>
  BY FourFiles, NoRows DEF Import, Anchors, Ledger, Lines
<1>2. DOMAIN <<>> = {}
  OBVIOUS
<1>3. QED
  BY <1>1, <1>2 DEF RootsInv

\* what holds of each row holds with one more that has it
LEMMA EachRow ==
    ASSUME NEW rows, IsList(rows), NEW row
    PROVE  \A k \in DOMAIN Append(rows, row) : Append(rows, row)[k] = row
                \/ (k \in DOMAIN rows /\ Append(rows, row)[k] = rows[k])
  BY AppendList

LEMMA EachLine ==
    ASSUME IsList(Lines), NEW row, WritesOnly("manifest", row), row.digest \in Digests, RootsInv
    PROVE  \A i \in DOMAIN Lines' : Lines'[i] # <<>> => Lines'[i][1].digest \in Digests
<1>1. Lines' \in {Append(Lines, <<row>>), Lines, Append(Lines, <<>>)}
  BY DEF WritesOnly, Writes, Wrote, Spoiled, Lines
<1>2. ASSUME NEW line \in {<<row>>, <<>>}, Lines' = Append(Lines, line)
      PROVE  \A i \in DOMAIN Lines' : Lines'[i] # <<>> => Lines'[i][1].digest \in Digests
  <2>1. \A i \in DOMAIN Lines' : Lines'[i] = line \/ (i \in DOMAIN Lines /\ Lines'[i] = Lines[i])
    BY <1>2, EachRow
  <2>2. line # <<>> => line[1].digest \in Digests
    OBVIOUS
  <2>3. QED
    BY <2>1, <2>2 DEF RootsInv
<1>3. CASE Lines' = Lines
  BY <1>3 DEF RootsInv
<1>4. QED
  BY <1>1, <1>2, <1>3

LEMMA RootsInvNext ==
    ASSUME MigrateInv, LeafInv, RootsInv, Kinds PROVE RootsInv'
<1>0. IsList(Import) /\ IsList(Anchors) /\ IsList(Ledger) /\ IsList(Lines)
      /\ DOMAIN Import = 1 .. Len(Import) /\ DOMAIN Anchors = 1 .. Len(Anchors)
  BY ListsHere DEF MigrateInv
<1>1. CASE Quiet
  BY <1>1 DEF Quiet, RootsInv
<1>2. ASSUME NEW d \in Digests, WritesOnly("images", Entry(d)) PROVE RootsInv'
  <2>1. Import' \in {Import, Append(Import, Entry(d))}
    BY <1>2, WritesLoad DEF WritesOnly, Import
  <2>2. \A k \in DOMAIN Import' : Import'[k] = Entry(d) \/ (k \in DOMAIN Import /\ Import'[k] = Import[k])
    BY <1>0, <2>1, EachRow
  <2>3. Entry(d).digest = d
    BY TombstoneFields
  <2>4. \A k \in DOMAIN Import' : Import'[k].digest \in Digests
    BY <2>2, <2>3 DEF RootsInv
  <2>5. Lines' = Lines /\ Anchors' = Anchors /\ Ledger' = Ledger
    BY <1>2 DEF WritesOnly
  <2>6. QED
    BY <2>4, <2>5 DEF RootsInv
<1>3. CASE WritesOnly("anchors", LedgerRow(ImgLeaves))
  <2> DEFINE row == LedgerRow(ImgLeaves)
  <2>1. IsManifest(row.leaves)
    <3>1. row.leaves = ImgLeaves
      BY DEF LedgerRow
    <3>2. QED
      BY <3>1, ImgLeavesManifest DEF MigrateInv
  <2> HIDE DEF row
  <2>2. Anchors' \in {Anchors, Append(Anchors, row)}
    BY <1>3, WritesLoad DEF WritesOnly, Anchors, row
  <2>3. \A k \in DOMAIN Anchors' : Anchors'[k] = row \/ (k \in DOMAIN Anchors /\ Anchors'[k] = Anchors[k])
    BY <1>0, <2>2, EachRow
  <2>4. \A k \in DOMAIN Anchors' : IsManifest(Anchors'[k].leaves)
    BY <2>1, <2>3 DEF RootsInv
  <2>5. Lines' = Lines /\ Import' = Import /\ Ledger' = Ledger
    BY <1>3 DEF WritesOnly
  <2>6. QED
    BY <2>4, <2>5 DEF RootsInv
<1>4. ASSUME NEW row, WritesOnly("ledger", row), IsManifest(row.leaves) PROVE RootsInv'
  <2>1. Ledger' \in {Ledger, Append(Ledger, row)}
    BY <1>4, WritesLoad DEF WritesOnly, Ledger
  <2>2. \A k \in DOMAIN Ledger' : Ledger'[k] = row \/ (k \in DOMAIN Ledger /\ Ledger'[k] = Ledger[k])
    BY <1>0, <2>1, EachRow
  <2>3. \A k \in DOMAIN Ledger' : IsManifest(Ledger'[k].leaves)
    BY <1>4, <2>2 DEF RootsInv
  <2>4. Lines' = Lines /\ Import' = Import /\ Anchors' = Anchors
    BY <1>4 DEF WritesOnly
  <2>5. QED
    BY <2>3, <2>4 DEF RootsInv
<1>5. CASE Commit /\ WritesOnly("ledger", LedgerRow(Leaves))
  <2>1. LedgerRow(Leaves).leaves = Leaves
    BY DEF LedgerRow
  <2>2. IsManifest(Leaves)
    BY LeavesManifest DEF MigrateInv
  <2>3. QED
    BY <1>4, <1>5, <2>1, <2>2
<1>6. CASE MigrateRow /\ WritesOnly("ledger", Head(job.todo))
  <2>1. PICK t \in DOMAIN Anchors : Head(job.todo) = Anchors[t]
    BY <1>6, ImportedAnchor
  <2>2. QED
    BY <1>4, <1>6, <2>1 DEF RootsInv
<1>7. ASSUME NEW row, WritesOnly("manifest", row), row.digest \in Digests PROVE RootsInv'
  <2>1. \A i \in DOMAIN Lines' : Lines'[i] # <<>> => Lines'[i][1].digest \in Digests
    BY <1>0, <1>7, EachLine
  <2>2. Anchors' = Anchors /\ Import' = Import /\ Ledger' = Ledger
    BY <1>7 DEF WritesOnly
  <2>3. QED
    BY <2>1, <2>2 DEF RootsInv
<1>8. CASE MigrateEntry /\ WritesOnly("manifest", Head(job.todo))
  <2>1. PICK t \in DOMAIN Import : Head(job.todo) = Import[t]
    BY <1>8, ImportedRow
  <2>2. QED
    BY <1>7, <1>8, <2>1 DEF RootsInv
<1>9. ASSUME NEW d \in Digests, WritesOnly("manifest", Tombstone(d)) PROVE RootsInv'
  <2>1. Tombstone(d).digest = d
    BY TombstoneFields
  <2>2. QED
    BY <1>7, <1>9, <2>1
<1>10. QED
  BY <1>1, <1>2, <1>3, <1>5, <1>6, <1>8, <1>9 DEF Kinds

\* What the code compares are roots, what the model compares are the lists of leaves:
\* of the manifests that imgfs and ott commit to, two have one root exactly if they
\* are one list, so status says the same, and so does the root that is kept.
THEOREM RootsAreLeaves ==
    ASSUME "line" \notin Torn, NoPairs, Zero \notin Hashes, Digests \subseteq Hashes
    PROVE  MigrateSpec =>
             [](/\ Root(Leaves) = Root(ImgLeaves) <=> Leaves = ImgLeaves
                /\ \A i \in DOMAIN Load("ledger") :
                      Root(Load("ledger")[i].leaves) = Root(Leaves)
                        <=> Load("ledger")[i].leaves = Leaves
                /\ \A i \in DOMAIN Load("anchors") :
                      Root(Load("anchors")[i].leaves) = Root(ImgLeaves)
                        <=> Load("anchors")[i].leaves = ImgLeaves)
<1>1. MigrateInv => LeafInv
  BY LeavesAre DEF MigrateInv
<1>2. MigrateInv /\ LeafInv /\ RootsInv /\ [MigrateNext]_migrateVars => RootsInv'
  BY MigrateInvNext, RootsInvNext
<1>3. MigrateSpec => []RootsInv
  BY <1>1, <1>2, RootsInvInit, MigrateInvariant, PTL DEF MigrateSpec
<1>4. ASSUME NEW a, NEW b, IsManifest(a), IsManifest(b)
      PROVE  Root(a) = Root(b) <=> a = b
  <2>1. /\ DOMAIN a = 1 .. Len(a) /\ DOMAIN b = 1 .. Len(b)
        /\ IsList(a) /\ IsList(b) /\ Distinct(a) /\ Distinct(b)
    BY <1>4, ListFacts DEF IsManifest
  <2>2. (\A i \in 1 .. Len(a) : a[i] \in Hashes) /\ (\A i \in 1 .. Len(b) : b[i] \in Hashes)
    BY <1>4, <2>1 DEF IsManifest
  <2>3. QED
    BY <2>1, <2>2, ManifestRoots
<1>5. ASSUME MigrateInv, LeafInv, RootsInv
      PROVE  /\ Root(Leaves) = Root(ImgLeaves) <=> Leaves = ImgLeaves
             /\ \A i \in DOMAIN Ledger : Root(Ledger[i].leaves) = Root(Leaves)
                                           <=> Ledger[i].leaves = Leaves
             /\ \A i \in DOMAIN Anchors : Root(Anchors[i].leaves) = Root(ImgLeaves)
                                            <=> Anchors[i].leaves = ImgLeaves
  <2>1. IsManifest(Leaves) /\ IsManifest(ImgLeaves)
    BY <1>5, LeavesManifest, ImgLeavesManifest DEF MigrateInv
  <2>2. QED
    BY <1>4, <1>5, <2>1 DEF RootsInv
<1>6. QED
  BY <1>1, <1>3, <1>5, MigrateInvariant, PTL DEF Ledger, Anchors
=============================================================================
