------------------------ MODULE CurveTreeNodesProofs ------------------------
(***************************************************************************)
(* What the helpers of CurveTreeNodes compute, for every arity and height. *)
(***************************************************************************)
EXTENDS CurveTreeNodes, NatFacts, SequenceTheorems

USE LAssumption, HeightAssumption

-----------------------------------------------------------------------------
(* The recursive definitions mean what they say: a function satisfying     *)
(* each of the equations exists.                                           *)

LEMMA CapacityDef ==
  /\ Capacity[0] = 1
  /\ \A i \in Levels : Capacity[i + 1] = L * Capacity[i]
<1> DEFINE Eq(g, i) == IF i = 0 THEN 1 ELSE L * g[i - 1]
           Part(g, n) == g = [i \in 0 .. n |-> Eq(g, i)]
           Good == {n \in 0 .. Height : \E g : Part(g, n)}
<1>1. 0 \in Good
  <2> DEFINE g == [i \in 0 .. 0 |-> 1]
  <2>1. Part(g, 0)
    OBVIOUS
  <2> HIDE DEF Part, g
  <2> QED BY <2>1
<1>2. ASSUME NEW n \in 0 .. Height, n > 0, n - 1 \in Good PROVE n \in Good
  <2>1. PICK g : Part(g, n - 1)
    BY <1>2
  <2> DEFINE h == [i \in 0 .. n |-> IF i < n THEN g[i] ELSE L * g[n - 1]]
  <2>2. ASSUME NEW i \in 0 .. n PROVE h[i] = Eq(h, i)
    <3>1. CASE i = n
      BY <3>1, <1>2
    <3>2. CASE i # n
      <4>1. i \in 0 .. n - 1 /\ h[i] = g[i] /\ (i > 0 => h[i - 1] = g[i - 1])
        BY <3>2, <1>2
      <4>2. g[i] = Eq(g, i)
        BY <4>1, <2>1
      <4> QED BY <4>1, <4>2
    <3> QED BY <3>1, <3>2
  <2>3. Part(h, n)
    <3> HIDE DEF Eq
    <3> QED BY <2>2
  <2> HIDE DEF Part, h
  <2> QED BY <2>3
<1>3. Height \in Good
  <2> HIDE DEF Good
  <2> QED BY <1>1, <1>2, SegmentInduction
<1>4. \E g : g = [i \in 0 .. Height |-> Eq(g, i)]
  BY <1>3
<1> DEFINE C == Capacity
<1>5. C = [i \in 0 .. Height |-> Eq(C, i)]
  BY <1>4 DEF Capacity
<1> HIDE DEF C
<1>6. C[0] = 1 /\ \A i \in Levels : C[i + 1] = L * C[i]
  <2>1. C[0] = Eq(C, 0)
    BY <1>5
  <2>2. ASSUME NEW i \in Levels PROVE C[i + 1] = L * C[i]
    <3>1. i + 1 \in 0 .. Height /\ i + 1 # 0 /\ (i + 1) - 1 = i
      BY DEF Levels
    <3>2. C[i + 1] = Eq(C, i + 1)
      <4> HIDE DEF Eq
      <4> QED BY <1>5, <3>1
    <3> QED BY <3>1, <3>2
  <2> QED BY <2>1, <2>2
<1> QED BY <1>6 DEF C

LEMMA DefaultSubtreeDef ==
  /\ DefaultSubtree[0] = DefaultLeaf
  /\ \A i \in Levels : DefaultSubtree[i + 1] = [s \in Slots |-> X(DefaultSubtree[i])]
<1> DEFINE Eq(g, i) == IF i = 0 THEN DefaultLeaf ELSE combine_default(g[i - 1]).commitment
           Part(g, n) == g = [i \in 0 .. n |-> Eq(g, i)]
           Good == {n \in 0 .. Height : \E g : Part(g, n)}
<1>1. 0 \in Good
  <2> DEFINE g == [i \in 0 .. 0 |-> DefaultLeaf]
  <2>1. Part(g, 0)
    OBVIOUS
  <2> HIDE DEF Part, g
  <2> QED BY <2>1
<1>2. ASSUME NEW n \in 0 .. Height, n > 0, n - 1 \in Good PROVE n \in Good
  <2>1. PICK g : Part(g, n - 1)
    BY <1>2
  <2> DEFINE h == [i \in 0 .. n |-> IF i < n THEN g[i] ELSE combine_default(g[n - 1]).commitment]
  <2>2. ASSUME NEW i \in 0 .. n PROVE h[i] = Eq(h, i)
    <3>1. CASE i = n
      BY <3>1, <1>2
    <3>2. CASE i # n
      <4>1. i \in 0 .. n - 1 /\ h[i] = g[i] /\ (i > 0 => h[i - 1] = g[i - 1])
        BY <3>2, <1>2
      <4>2. g[i] = Eq(g, i)
        BY <4>1, <2>1
      <4> QED BY <4>1, <4>2
    <3> QED BY <3>1, <3>2
  <2>3. Part(h, n)
    <3> HIDE DEF Eq
    <3> QED BY <2>2
  <2> HIDE DEF Part, h
  <2> QED BY <2>3
<1>3. Height \in Good
  <2> HIDE DEF Good
  <2> QED BY <1>1, <1>2, SegmentInduction
<1>4. \E g : g = [i \in 0 .. Height |-> Eq(g, i)]
  BY <1>3
<1> DEFINE D == DefaultSubtree
<1>5. D = [i \in 0 .. Height |-> Eq(D, i)]
  BY <1>4 DEF DefaultSubtree
<1> HIDE DEF D
<1>6. D[0] = DefaultLeaf /\ \A i \in Levels : D[i + 1] = combine_default(D[i]).commitment
  <2>1. D[0] = Eq(D, 0)
    BY <1>5
  <2>2. ASSUME NEW i \in Levels PROVE D[i + 1] = combine_default(D[i]).commitment
    <3>1. i + 1 \in 0 .. Height /\ i + 1 # 0 /\ (i + 1) - 1 = i
      BY DEF Levels
    <3>2. D[i + 1] = Eq(D, i + 1)
      <4> HIDE DEF Eq
      <4> QED BY <1>5, <3>1
    <3> QED BY <3>1, <3>2
  <2> QED BY <2>1, <2>2
<1>7. \A i \in Levels : D[i + 1] = [s \in Slots |-> X(D[i])]
  BY <1>6 DEF combine_default
<1> QED BY <1>6, <1>7 DEF D

(* The complete tree, one level at a time.                                 *)
LEMMA TreeOverDef ==
  ASSUME NEW leaves
  PROVE  /\ TreeOver(leaves)[0] = LeafRow(leaves)
         /\ \A i \in Levels : TreeOver(leaves)[i + 1] = ParentRow(TreeOver(leaves)[i])
<1> DEFINE Eq(g, i) == IF i = 0 THEN LeafRow(leaves) ELSE ParentRow(g[i - 1])
           Part(g, n) == g = [i \in 0 .. n |-> Eq(g, i)]
           Good == {n \in 0 .. Height : \E g : Part(g, n)}
<1>1. 0 \in Good
  <2> DEFINE g == [i \in 0 .. 0 |-> LeafRow(leaves)]
  <2>1. Part(g, 0)
    OBVIOUS
  <2> HIDE DEF Part, g
  <2> QED BY <2>1
<1>2. ASSUME NEW n \in 0 .. Height, n > 0, n - 1 \in Good PROVE n \in Good
  <2>1. PICK g : Part(g, n - 1)
    BY <1>2
  <2> DEFINE h == [i \in 0 .. n |-> IF i < n THEN g[i] ELSE ParentRow(g[n - 1])]
  <2>2. ASSUME NEW i \in 0 .. n PROVE h[i] = Eq(h, i)
    <3>1. CASE i = n
      BY <3>1, <1>2
    <3>2. CASE i # n
      <4>1. i \in 0 .. n - 1 /\ h[i] = g[i] /\ (i > 0 => h[i - 1] = g[i - 1])
        BY <3>2, <1>2
      <4>2. g[i] = Eq(g, i)
        BY <4>1, <2>1
      <4> QED BY <4>1, <4>2
    <3> QED BY <3>1, <3>2
  <2>3. Part(h, n)
    <3> HIDE DEF Eq
    <3> QED BY <2>2
  <2> HIDE DEF Part, h
  <2> QED BY <2>3
<1>3. Height \in Good
  <2> HIDE DEF Good
  <2> QED BY <1>1, <1>2, SegmentInduction
<1>4. \E g : g = [i \in 0 .. Height |-> Eq(g, i)]
  BY <1>3
<1> DEFINE T == TreeOver(leaves)
<1>5. T = [i \in 0 .. Height |-> Eq(T, i)]
  BY <1>4 DEF TreeOver
<1> HIDE DEF T
<1>6. T[0] = LeafRow(leaves) /\ \A i \in Levels : T[i + 1] = ParentRow(T[i])
  <2>1. T[0] = Eq(T, 0)
    BY <1>5
  <2>2. ASSUME NEW i \in Levels PROVE T[i + 1] = ParentRow(T[i])
    <3>1. i + 1 \in 0 .. Height /\ i + 1 # 0 /\ (i + 1) - 1 = i
      BY DEF Levels
    <3>2. T[i + 1] = Eq(T, i + 1)
      <4> HIDE DEF Eq
      <4> QED BY <1>5, <3>1
    <3> QED BY <3>1, <3>2
  <2> QED BY <2>1, <2>2
<1> QED BY <1>6 DEF T

-----------------------------------------------------------------------------
(* Capacities are positive powers, and positions and ancestors fit.        *)

LEMMA CapacityFacts ==
  /\ Capacity[0] = 1
  /\ \A i \in Levels : Capacity[i + 1] = L * Capacity[i]
  /\ \A i \in 0 .. Height : Capacity[i] \in Nat \ {0}
<1> DEFINE Good == {i \in 0 .. Height : Capacity[i] \in Nat \ {0}}
<1>1. 0 \in Good
  BY CapacityDef
<1>2. ASSUME NEW i \in 0 .. Height, i > 0, i - 1 \in Good PROVE i \in Good
  <2>1. i - 1 \in Levels /\ (i - 1) + 1 = i
    BY <1>2 DEF Levels
  <2>2. Capacity[i - 1] \in Nat \ {0} /\ Capacity[i] = L * Capacity[i - 1]
    BY <1>2, <2>1, CapacityDef
  <2> QED BY <2>2, MulNat
<1>3. \A i \in 0 .. Height : i \in Good
  <2> HIDE DEF Good
  <2> QED BY <1>1, <1>2, SegmentInduction
<1> QED BY <1>3, CapacityDef

LEMMA AncestorFacts ==
  ASSUME NEW n \in Nat
  PROVE  /\ Ancestor(n, 0) = n
         /\ \A i \in 0 .. Height : Ancestor(n, i) \in Nat
         /\ \A i \in 0 .. Height : Position(n, i) \in Slots
         /\ \A i \in Levels : Ancestor(n, i) = Ancestor(n, i + 1) * L + Position(n, i)
         /\ n < Capacity[Height] => Ancestor(n, Height) = 0
<1>1. Ancestor(n, 0) = n
  BY CapacityFacts DEF Ancestor
<1>2. \A i \in 0 .. Height : Ancestor(n, i) \in Nat
  BY CapacityFacts, DivMod DEF Ancestor
<1>3. \A i \in 0 .. Height : Position(n, i) \in Slots
  BY <1>2, DivMod DEF Position, Slots
<1>4. ASSUME NEW i \in Levels PROVE Ancestor(n, i) = Ancestor(n, i + 1) * L + Position(n, i)
  <2>1. Capacity[i + 1] = L * Capacity[i] /\ Capacity[i] \in Nat \ {0}
    BY CapacityFacts DEF Levels
  <2>2. Ancestor(n, i + 1) = Ancestor(n, i) \div L
    BY <2>1, DivDiv DEF Ancestor
  <2>3. Ancestor(n, i) \in Nat
    BY <1>2 DEF Levels
  <2>4. Ancestor(n, i) = L * (Ancestor(n, i) \div L) + Position(n, i)
    BY <2>3, DivMod DEF Position
  <2>5. Ancestor(n, i + 1) \in Nat
    BY <1>2 DEF Levels
  <2> QED BY <2>2, <2>4, <2>5
<1>5. ASSUME n < Capacity[Height] PROVE Ancestor(n, Height) = 0
  <2>1. Capacity[Height] \in Nat \ {0}
    BY CapacityFacts
  <2> DEFINE c == Capacity[Height]
  <2>2. n \in 0 .. c - 1 /\ c \in Nat \ {0} /\ 0 \in Nat
    BY <2>1, <1>5
  <2> HIDE DEF c
  <2>3. (c * 0 + n) \div c = 0
    BY <2>2, DivUnique
  <2> QED BY <2>2, <2>3 DEF Ancestor, c
<1> QED BY <1>1, <1>2, <1>3, <1>4, <1>5

(* From one leaf to the next: the path changes exactly below the levels at *)
(* which a subtree was completed.                                          *)
LEMMA NextLeaf ==
  ASSUME NEW n \in Nat, NEW i \in 0 .. Height
  PROVE  IF (n + 1) % Capacity[i] = 0
         THEN /\ Ancestor(n + 1, i) = Ancestor(n, i) + 1
              /\ Ancestor(n + 1, i) * Capacity[i] = n + 1
         ELSE Ancestor(n + 1, i) = Ancestor(n, i)
<1> DEFINE c == Capacity[i]
<1>1. c \in Nat \ {0} /\ n + 1 \in Nat
  BY CapacityFacts
<1> HIDE DEF c
<1>2. /\ (n + 1) % c = 0 => (n + 1) \div c = (n \div c) + 1
      /\ (n + 1) % c # 0 => (n + 1) \div c = n \div c
  BY <1>1, DivSucc
<1>3. n + 1 = c * ((n + 1) \div c) + ((n + 1) % c) /\ (n + 1) \div c \in Nat
  BY <1>1, DivMod
<1>4. (n + 1) % c = 0 => ((n + 1) \div c) * c = n + 1
  BY <1>3, <1>1
<1> QED BY <1>2, <1>4 DEF Ancestor, c

-----------------------------------------------------------------------------
(* The complete tree: subtrees without leaves are default, and appending a *)
(* leaf changes its ancestors only.                                        *)

LEMMA EmptySubtree ==
  ASSUME NEW leaves \in Seq(Leaf), NEW i \in 0 .. Height, NEW k \in Nat,
         k * Capacity[i] >= Len(leaves)
  PROVE  TreeOver(leaves)[i][k] = DefaultSubtree[i]
<1> DEFINE T == TreeOver(leaves)
           D == DefaultSubtree
           Good == {j \in 0 .. Height : \A m \in Nat :
                      m * Capacity[j] >= Len(leaves) => T[j][m] = D[j]}
<1>1. 0 \in Good
  <2> SUFFICES ASSUME NEW m \in Nat, m * Capacity[0] >= Len(leaves)
               PROVE  T[0][m] = D[0]
    OBVIOUS
  <2>1. m * Capacity[0] = m
    BY CapacityFacts
  <2>2. Len(leaves) <= m
    BY <2>1
  <2>3. LeafRow(leaves)[m] = DefaultLeaf
    BY <2>2 DEF LeafRow
  <2> QED BY <2>3, TreeOverDef, DefaultSubtreeDef
<1>2. ASSUME NEW j \in 0 .. Height, j > 0, j - 1 \in Good PROVE j \in Good
  <2> DEFINE h == j - 1
  <2>1. h \in Levels /\ h + 1 = j
    BY <1>2 DEF Levels
  <2>2. \A m \in Nat : m * Capacity[h] >= Len(leaves) => T[h][m] = D[h]
    BY <1>2
  <2> HIDE DEF h
  <2> SUFFICES ASSUME NEW m \in Nat, m * Capacity[h + 1] >= Len(leaves)
               PROVE  T[h + 1][m] = D[h + 1]
    BY <2>1
  <2>3. ASSUME NEW s \in Slots PROVE T[h][m * L + s] = D[h]
    <3> DEFINE c == Capacity[h]
    <3>1. c \in Nat \ {0} /\ Capacity[h + 1] = L * c
      BY <2>1, CapacityFacts DEF Levels
    <3> HIDE DEF c
    <3>2. (m * L + s) * c >= m * (L * c)
      BY <3>1, Z3 DEF Slots
    <3>3. m * L + s \in Nat
      BY MulNat DEF Slots
    <3>4. Len(leaves) \in Nat /\ m * (L * c) \in Nat /\ (m * L + s) * c \in Nat
      BY <3>1, <3>3, MulNat
    <3>5. (m * L + s) * c >= Len(leaves)
      BY <3>1, <3>2, <3>4
    <3> QED BY <2>2, <3>3, <3>5 DEF c
  <2>4. T[h + 1][m] = [s \in Slots |-> X(T[h][m * L + s])]
    <3>1. T[h + 1] = ParentRow(T[h])
      BY <2>1, TreeOverDef
    <3> HIDE DEF T
    <3> DEFINE row == T[h]
    <3> HIDE DEF row
    <3>2. ParentRow(row)[m] = [s \in Slots |-> X(row[m * L + s])]
      BY DEF ParentRow
    <3> QED BY <3>1, <3>2 DEF row
  <2>5. D[h + 1] = [s \in Slots |-> X(D[h])]
    BY <2>1, DefaultSubtreeDef
  <2> QED BY <2>3, <2>4, <2>5
<1>3. \A j \in 0 .. Height : j \in Good
  <2> HIDE DEF Good
  <2> QED BY <1>1, <1>2, SegmentInduction
<1> QED BY <1>3

LEMMA AppendChangesAncestors ==
  ASSUME NEW leaves \in Seq(Leaf), NEW leaf \in Leaf, NEW i \in 0 .. Height,
         NEW k \in Nat, k # Ancestor(Len(leaves), i)
  PROVE  TreeOver(Append(leaves, leaf))[i][k] = TreeOver(leaves)[i][k]
<1> DEFINE T == TreeOver(leaves)
           U == TreeOver(Append(leaves, leaf))
           n == Len(leaves)
           Good == {j \in 0 .. Height : \A m \in Nat : m # Ancestor(n, j) => U[j][m] = T[j][m]}
<1>0. n \in Nat
  OBVIOUS
<1>1. 0 \in Good
  <2> SUFFICES ASSUME NEW m \in Nat, m # n
               PROVE  U[0][m] = T[0][m]
    BY <1>0, AncestorFacts
  <2>1. LeafRow(Append(leaves, leaf))[m] = LeafRow(leaves)[m]
    BY AppendProperties DEF LeafRow
  <2> QED BY <2>1, TreeOverDef
<1>2. ASSUME NEW j \in 0 .. Height, j > 0, j - 1 \in Good PROVE j \in Good
  <2> DEFINE h == j - 1
  <2>1. h \in Levels /\ h + 1 = j
    BY <1>2 DEF Levels
  <2>2. \A m \in Nat : m # Ancestor(n, h) => U[h][m] = T[h][m]
    BY <1>2
  <2> HIDE DEF h
  <2> SUFFICES ASSUME NEW m \in Nat, m # Ancestor(n, h + 1)
               PROVE  U[h + 1][m] = T[h + 1][m]
    BY <2>1
  <2>3. ASSUME NEW s \in Slots PROVE U[h][m * L + s] = T[h][m * L + s]
    <3>1. m * L + s \in Nat
      BY MulNat DEF Slots
    <3>2. Ancestor(n, h) = Ancestor(n, h + 1) * L + Position(n, h)
      BY <1>0, <2>1, AncestorFacts
    <3>3. Ancestor(n, h + 1) \in Nat /\ Position(n, h) \in Slots
      BY <1>0, <2>1, AncestorFacts DEF Levels
    <3>4. m * L + s # Ancestor(n, h)
      <4> DEFINE a == Ancestor(n, h + 1)
                 p == Position(n, h)
      <4> HIDE DEF a, p
      <4> SUFFICES ASSUME m * L + s = a * L + p PROVE FALSE
        BY <3>2 DEF a, p
      <4>1. a \in Nat /\ p \in 0 .. L - 1 /\ s \in 0 .. L - 1
        BY <3>3 DEF a, p, Slots
      <4>2. (L * a + p) \div L = a /\ (L * m + s) \div L = m
        BY <4>1, DivUnique
      <4>3. L * a + p = L * m + s
        BY <4>1
      <4>4. a = m
        BY <4>2, <4>3
      <4> QED BY <4>4 DEF a
    <3> QED BY <2>2, <3>1, <3>4
  <2>4. /\ T[h + 1][m] = [s \in Slots |-> X(T[h][m * L + s])]
        /\ U[h + 1][m] = [s \in Slots |-> X(U[h][m * L + s])]
    <3>1. T[h + 1] = ParentRow(T[h]) /\ U[h + 1] = ParentRow(U[h])
      BY <2>1, TreeOverDef
    <3> HIDE DEF T, U
    <3> DEFINE row == T[h]
               new_row == U[h]
    <3> HIDE DEF row, new_row
    <3>2. ParentRow(row)[m] = [s \in Slots |-> X(row[m * L + s])]
      BY DEF ParentRow
    <3>3. ParentRow(new_row)[m] = [s \in Slots |-> X(new_row[m * L + s])]
      BY DEF ParentRow
    <3> QED BY <3>1, <3>2, <3>3 DEF row, new_row
  <2> QED BY <2>3, <2>4
<1>3. \A j \in 0 .. Height : j \in Good
  <2> HIDE DEF Good
  <2> QED BY <1>1, <1>2, SegmentInduction
<1> QED BY <1>3

-----------------------------------------------------------------------------
(* update_node on a node whose kept x-coordinates open its commitment: it  *)
(* does so afterwards, with one slot changed, whether the position was     *)
(* already kept or is the next to be pushed (then the slot holds the       *)
(* default x-coordinate).                                                  *)
IsOpening(f) == f = [s \in Slots |-> f[s]]

LEMMA UpdateOpenedNode ==
  ASSUME NEW before, IsOpening(before), NEW after, IsOpening(after),
         NEW p \in Slots, NEW child, NEW d,
         after[p] = X(child), \A s \in Slots : s # p => after[s] = before[s],
         NEW m \in {p, p + 1}, m = p => before[p] = d
  PROVE  update_node(p, OpenedNode(before, m), child, d) = OpenedNode(after, p + 1)
<1> DEFINE x == X(child)
           kept  == [j \in 1 .. m |-> before[j - 1]]
           node  == [x_coords |-> kept, commitment |-> before]
           old   == IF p < Len(kept) THEN kept[p + 1] ELSE d
<1>1. p \in Nat /\ p < L /\ m \in Nat
  BY DEF Slots
<1>2. Len(kept) = m
  BY <1>1
<1>3. \A s \in Slots : s # p => after[s] = before[s]
  OBVIOUS
<1>4. after[p] = x
  OBVIOUS
<1>5. \A j \in 1 .. p : j - 1 \in Slots /\ j - 1 # p
  BY <1>1 DEF Slots
<1>6. update_node(p, node, child, d)
        = [x_coords   |-> IF p < Len(kept) THEN [kept EXCEPT ![p + 1] = x] ELSE Append(kept, x),
           commitment |-> [before EXCEPT ![p] = Replaced(@, old, x)]]
  <2> HIDE DEF kept, x
  <2>1. node.x_coords = kept /\ node.commitment = before
    OBVIOUS
  <2> HIDE DEF node
  <2> QED BY <2>1 DEF update_node, x
<1>7. before[p] = old
  <2>1. CASE m = p
    BY <1>1, <1>2, <2>1
  <2>2. CASE m = p + 1
    <3>1. p < Len(kept) /\ p + 1 \in 1 .. m /\ (p + 1) - 1 = p
      BY <1>1, <1>2, <2>2
    <3>2. kept[p + 1] = before[p]
      BY <3>1
    <3> QED BY <3>1, <3>2
  <2> QED BY <2>1, <2>2
<1>8. Replaced(before[p], old, x) = x
  BY <1>7 DEF Replaced
<1>9. (IF p < Len(kept) THEN [kept EXCEPT ![p + 1] = x] ELSE Append(kept, x))
        = [j \in 1 .. p + 1 |-> after[j - 1]]
  <2> DEFINE want == [j \in 1 .. p + 1 |-> after[j - 1]]
  <2>1. \A j \in 1 .. p : want[j] = before[j - 1]
    BY <1>1, <1>3, <1>5
  <2>2. want[p + 1] = x
    BY <1>1, <1>4
  <2> HIDE DEF x
  <2>3. CASE m = p
    <3>1. kept = [j \in 1 .. p |-> before[j - 1]] /\ ~ p < Len(kept)
      BY <1>1, <1>2, <2>3
    <3>2. Append(kept, x) = want
      <4>1. Append(kept, x) = [j \in 1 .. p + 1 |-> IF j <= p THEN kept[j] ELSE x]
        BY <1>1, <1>2, <2>3
      <4>2. \A j \in 1 .. p + 1 : want[j] = IF j <= p THEN kept[j] ELSE x
        <5> HIDE DEF want
        <5>1. ASSUME NEW j \in 1 .. p + 1 PROVE want[j] = IF j <= p THEN kept[j] ELSE x
          <6>1. CASE j <= p
            <7>1. j \in 1 .. p /\ kept[j] = before[j - 1]
              BY <1>1, <6>1, <2>3
            <7> QED BY <7>1, <2>1, <6>1
          <6>2. CASE j = p + 1
            BY <1>1, <6>2, <2>2
          <6> QED BY <1>1, <6>1, <6>2
        <5> QED BY <5>1
      <4> HIDE DEF kept
      <4> QED BY <4>1, <4>2
    <3> QED BY <3>1, <3>2
  <2>4. CASE m = p + 1
    <3>1. p < Len(kept)
      BY <1>1, <1>2, <2>4
    <3>2. [kept EXCEPT ![p + 1] = x] = want
      <4>1. \A j \in 1 .. p + 1 : [kept EXCEPT ![p + 1] = x][j] = want[j]
        <5> HIDE DEF want
        <5>1. ASSUME NEW j \in 1 .. p + 1 PROVE [kept EXCEPT ![p + 1] = x][j] = want[j]
          <6>1. CASE j <= p
            <7>1. j \in 1 .. p /\ j \in 1 .. m /\ j # p + 1
              BY <1>1, <6>1, <2>4
            <7>2. kept[j] = before[j - 1]
              BY <7>1
            <7>3. [kept EXCEPT ![p + 1] = x][j] = kept[j]
              <8>1. kept = [q \in 1 .. m |-> kept[q]]
                OBVIOUS
              <8> HIDE DEF kept
              <8> QED BY <7>1, <8>1
            <7> QED BY <7>1, <7>2, <7>3, <2>1
          <6>2. CASE j = p + 1
            BY <1>1, <6>2, <2>2, <2>4
          <6> QED BY <1>1, <6>1, <6>2
        <5> QED BY <5>1
      <4> QED BY <4>1, <2>4
    <3> QED BY <3>1, <3>2
  <2> QED BY <2>3, <2>4
<1>10. [before EXCEPT ![p] = Replaced(@, old, x)] = after
  <2> HIDE DEF old, x
  <2> QED BY <1>3, <1>4, <1>8 DEF IsOpening
<1> QED BY <1>6, <1>9, <1>10 DEF OpenedNode

(* Hence updating a node of the tree with its next child, or again with    *)
(* the child last changed, gives the node of the tree with the leaf        *)
(* appended.                                                               *)
LEMMA UpdateNodeOver ==
  ASSUME NEW leaves \in Seq(Leaf), NEW leaf \in Leaf, NEW i \in Levels,
         NEW n, n = Len(leaves),
         NEW m \in {Position(n, i), Position(n, i) + 1},
         m = Position(n, i) => Ancestor(n, i) * Capacity[i] >= n
  PROVE  update_node(Position(n, i), NodeOver(leaves, i, Ancestor(n, i + 1), m),
                     TreeOver(Append(leaves, leaf))[i][Ancestor(n, i)],
                     default_nodes[i].x_coord)
           = NodeOver(Append(leaves, leaf), i, Ancestor(n, i + 1), Position(n, i) + 1)
<1> DEFINE T == TreeOver(leaves)
           U == TreeOver(Append(leaves, leaf))
           p == Position(n, i)
           k == Ancestor(n, i + 1)
           a == Ancestor(n, i)
           d == default_nodes[i].x_coord
           before == T[i + 1][k]
           after  == U[i + 1][k]
<1>1. n \in Nat /\ p \in Slots /\ k \in Nat /\ a \in Nat /\ a = k * L + p
  <2>1. n \in Nat /\ i \in 0 .. Height /\ i + 1 \in 0 .. Height
    BY DEF Levels
  <2> QED BY <2>1, AncestorFacts
<1>2. \A s \in Slots : k * L + s \in Nat /\ (s # p => k * L + s # a)
  BY <1>1, MulNat DEF Slots
<1>3. \A s \in Slots : s # p => U[i][k * L + s] = T[i][k * L + s]
  <2>1. \A j \in Nat : j # a => U[i][j] = T[i][j]
    BY AppendChangesAncestors DEF Levels
  <2> HIDE DEF T, U, p, k, a
  <2> QED BY <1>2, <2>1
<1>4. /\ before = [s \in Slots |-> X(T[i][k * L + s])]
      /\ after = [s \in Slots |-> X(U[i][k * L + s])]
  <2>1. T[i + 1] = ParentRow(T[i]) /\ U[i + 1] = ParentRow(U[i])
    BY TreeOverDef
  <2> HIDE DEF T, U, k
  <2> DEFINE row == T[i]
             new_row == U[i]
  <2> HIDE DEF row, new_row
  <2>2. ParentRow(row)[k] = [s \in Slots |-> X(row[k * L + s])]
    BY <1>1 DEF ParentRow
  <2>3. ParentRow(new_row)[k] = [s \in Slots |-> X(new_row[k * L + s])]
    BY <1>1 DEF ParentRow
  <2> QED BY <2>1, <2>2, <2>3 DEF row, new_row
<1>5. before[p] = X(T[i][a]) /\ after[p] = X(U[i][a])
  <2> HIDE DEF before, after, T, U, p, k, a
  <2> QED BY <1>1, <1>4
<1>6. IsOpening(before) /\ IsOpening(after)
  <2> HIDE DEF T, U, p, k, a
  <2> QED BY <1>4 DEF IsOpening
<1>7. \A s \in Slots : s # p => after[s] = before[s]
  <2> HIDE DEF before, after, T, U, p, k, a
  <2> QED BY <1>3, <1>4
<1>8. m = p => before[p] = d
  <2>1. m = p => T[i][a] = DefaultSubtree[i]
    BY <1>1, EmptySubtree DEF Levels
  <2>2. d = X(DefaultSubtree[i])
    BY DEF default_nodes, combine_default
  <2> QED BY <1>5, <2>1, <2>2
<1>9. update_node(p, OpenedNode(before, m), U[i][a], d) = OpenedNode(after, p + 1)
  <2>1. m \in {p, p + 1}
    OBVIOUS
  <2> HIDE DEF before, after, T, U, p, k, a, d
  <2> QED BY <1>1, <1>5, <1>6, <1>7, <1>8, <2>1, UpdateOpenedNode
<1> QED BY <1>9 DEF NodeOver

(* Padding the kept x-coordinates with the default one gives the opening   *)
(* of the node's commitment, as long as nothing lies beyond them.          *)
LEMMA PaddingOpensCommitment ==
  ASSUME NEW leaves \in Seq(Leaf), NEW i \in Levels, NEW k \in Nat, NEW m \in 0 .. L,
         \A s \in Slots : s >= m => (k * L + s) * Capacity[i] >= Len(leaves)
  PROVE  PaddedXCoords(NodeOver(leaves, i, k, m), default_nodes[i].x_coord)
           = NodeOver(leaves, i, k, m).commitment
<1> DEFINE T == TreeOver(leaves)[i]
           opening == TreeOver(leaves)[i + 1][k]
           node == NodeOver(leaves, i, k, m)
           d == default_nodes[i].x_coord
<1>1. d = X(DefaultSubtree[i])
  BY DEF default_nodes, combine_default
<1>2. opening = [s \in Slots |-> X(T[k * L + s])]
  <2>1. TreeOver(leaves)[i + 1] = ParentRow(T)
    BY TreeOverDef
  <2> HIDE DEF T
  <2>2. ParentRow(T)[k] = [s \in Slots |-> X(T[k * L + s])]
    BY DEF ParentRow
  <2> QED BY <2>1, <2>2
<1>3. \A s \in Slots : s >= m => opening[s] = d
  <2>1. \A s \in Slots : k * L + s \in Nat
    BY MulNat DEF Slots
  <2>2. \A s \in Slots : s >= m => T[k * L + s] = DefaultSubtree[i]
    BY <2>1, EmptySubtree DEF Levels
  <2> HIDE DEF T, opening, d
  <2> QED BY <1>1, <1>2, <2>2
<1>4. opening = [s \in Slots |-> opening[s]]
  <2> HIDE DEF T
  <2> QED BY <1>2
<1>5. node.x_coords = [j \in 1 .. m |-> opening[j - 1]] /\ node.commitment = opening
  BY DEF NodeOver, OpenedNode
<1> HIDE DEF node, T, d, opening
<1>6. Len(node.x_coords) = m
  BY <1>5
<1>7. \A s \in Slots : s < m => node.x_coords[s + 1] = opening[s]
  BY <1>5 DEF Slots
<1>8. \A s \in Slots : (IF s < Len(node.x_coords) THEN node.x_coords[s + 1] ELSE d) = opening[s]
  BY <1>3, <1>6, <1>7 DEF Slots
<1>9. PaddedXCoords(node, d) = opening
  BY <1>4, <1>8 DEF PaddedXCoords
<1> QED BY <1>5, <1>9 DEF node, d
=============================================================================
