--------------------------- MODULE FwFilesProofs ---------------------------
(***************************************************************************)
(* The two files of rtb_config.  Whatever the configuration file, the      *)
(* extra configuration and the address are, the lists of rtb_read_config   *)
(* are whole rings of live items up to where its behaviour is undefined.   *)
(* For every image laid out as its maker does, the project id and the      *)
(* patch found are the right ones and no read is outside of it; and with   *)
(* tame files nothing is undefined and what is downloaded is that patch    *)
(* with what the file and the extra items say together behind it.          *)
(***************************************************************************)
EXTENDS FwFiles, SequenceTheorems, FiniteSetTheorems, WellFoundedInduction, TLAPS

Heads == {cfg, ext}
Live  == Heads \cup {n \in Ids : n <= alloc /\ n \notin freed}
Links == [Nodes -> Nodes \cup {Poison}]

(* L is made of two rings, that of cfg being C: f and g are inverse, and   *)
(* along f a rank r grows, except from the last item to the head.          *)
Rings(L, C, f, g, r) ==
  /\ C \subseteq L /\ cfg \in C /\ ext \in L \ C
  /\ \A n \in L : /\ f[n] \in L /\ g[n] \in L /\ g[f[n]] = n /\ f[g[n]] = n
                  /\ f[n] \in C <=> n \in C
                  /\ f[n] \notin Heads => r[n] < r[f[n]]

Typed(C, f, g, r) == C \in SUBSET Nodes /\ f \in Links /\ g \in Links /\ r \in [Nodes -> Nat]
Linked(L, C, f, g, r) == Typed(C, f, g, r) /\ Rings(L, C, f, g, r)

(***************************************************************************)
(* What list_add_tail, list_del, list_replace_init and list_splice_tail do *)
(* to the rings.                                                           *)
(***************************************************************************)
LEMMA NodeFacts == /\ cfg \notin Ids /\ ext \notin Ids /\ Poison \notin Nodes /\ cfg # ext
                   /\ Nodes = Ids \cup Heads
  BY InputsAssumption DEF cfg, ext, Poison, Ids, Nodes, Heads

LEMMA MaxItemsNat == MaxItems \in Nat
  BY InputsAssumption, Zenon

LEMMA InsertRings ==
  ASSUME NEW L \in SUBSET Nodes, NEW C, NEW f \in Links, NEW g \in Links,
         NEW r \in [Nodes -> Nat], Rings(L, C, f, g, r),
         NEW n \in Ids, n \notin L, NEW h \in Heads,
         NEW f1, f1 = [f EXCEPT ![n] = h, ![g[h]] = n],
         NEW g1, g1 = [g EXCEPT ![h] = n, ![n] = g[h]],
         NEW r1, r1 = [r EXCEPT ![n] = r[g[h]] + 1],
         NEW K, K = IF h = cfg THEN C \cup {n} ELSE C
  PROVE  Linked(L \cup {n}, K, f1, g1, r1)
<1>1. h \in L /\ g[h] \in L /\ g[h] # n /\ h # n /\ n \notin Heads /\ h \in Nodes /\ n \in Nodes
      /\ g[h] \in Nodes
  BY NodeFacts DEF Rings, Heads
<1>2. r[g[h]] \in Nat
  BY <1>1
<1>3. f1 \in Links /\ g1 \in Links /\ r1 \in [Nodes -> Nat]
  BY <1>1, <1>2 DEF Links
<1>4. /\ f1[n] = h /\ f1[g[h]] = n /\ \A m \in L : m # g[h] => f1[m] = f[m]
      /\ g1[h] = n /\ g1[n] = g[h] /\ \A m \in L : m # h => g1[m] = g[m]
      /\ r1[n] = r[g[h]] + 1 /\ \A m \in L : r1[m] = r[m]
  BY <1>1 DEF Links
<1>5. g[h] \in C <=> h = cfg
  BY <1>1 DEF Rings, Heads
<1>6. f[g[h]] = h /\ \A m \in L : m # g[h] => f[m] # h
  BY <1>1 DEF Rings
<1>7. \A m \in L : m # h => g[m] # g[h]
  BY <1>1 DEF Rings
<1>8. r[g[h]] < r1[n]
  BY <1>2, <1>4
<1>9. K \subseteq L \cup {n} /\ cfg \in K /\ ext \in (L \cup {n}) \ K
  BY <1>1 DEF Rings, Heads
<1>a. (n \in K <=> h = cfg) /\ \A m \in L : m \in K <=> m \in C
  BY DEF Rings
<1>b. h \in C <=> h = cfg
  BY DEF Rings, Heads
<1>c. \A m \in L : f[m] \in L /\ g[m] \in L /\ g[f[m]] = m /\ f[g[m]] = m
  BY DEF Rings
<1>d. ASSUME NEW m \in L PROVE g1[m] \in L \cup {n} /\ f1[g1[m]] = m
  <2>1. CASE m = h
    BY <1>4, <2>1
  <2>2. CASE m # h
    <3>1. g1[m] = g[m] /\ g[m] \in L /\ g[m] # g[h] /\ f[g[m]] = m
      BY <1>4, <1>7, <1>c, <2>2
    <3>2. QED
      BY <1>4, <3>1
  <2>3. QED
    BY <2>1, <2>2
<1>10. ASSUME NEW m \in L \cup {n}
       PROVE  /\ f1[m] \in L \cup {n} /\ g1[m] \in L \cup {n} /\ g1[f1[m]] = m /\ f1[g1[m]] = m
              /\ f1[m] \in K <=> m \in K
              /\ f1[m] \notin Heads => r1[m] < r1[f1[m]]
  <2>1. CASE m = n
    <3>1. f1[n] = h /\ g1[n] = g[h] /\ g1[h] = n /\ f1[g[h]] = n
      BY <1>4
    <3>2. h \in L \cup {n} /\ g[h] \in L \cup {n}
      BY <1>1
    <3>3. f1[n] \in K <=> n \in K
      BY <1>1, <1>a, <1>b, <3>1
    <3>4. QED
      BY <2>1, <3>1, <3>2, <3>3
  <2>2. CASE m \in L /\ m = g[h]
    <3>1. f1[m] = n /\ g1[n] = m /\ r1[m] < r1[n] /\ (n \in K <=> m \in K)
      BY <1>4, <1>5, <1>8, <1>a, <2>2
    <3>2. QED
      BY <1>d, <2>2, <3>1
  <2>3. CASE m \in L /\ m # g[h]
    <3>a. f[m] \in L /\ g[f[m]] = m
      BY <1>c, <2>3
    <3>b. f1[m] = f[m] /\ f[m] # h
      BY <1>4, <1>6, <2>3
    <3>1. f1[m] = f[m] /\ f[m] # h /\ f[m] \in L /\ f[m] # n /\ g[f[m]] = m
      BY <3>a, <3>b
    <3>2. f[m] \notin Heads => r[m] < r[f[m]]
      BY <2>3 DEF Rings
    <3>3. f[m] \in C <=> m \in C
      BY <2>3 DEF Rings
    <3>4. g1[f1[m]] = m /\ r1[m] = r[m] /\ r1[f1[m]] = r[f[m]]
      BY <1>4, <2>3, <3>1
    <3>5. f1[m] \in K <=> m \in K
      BY <1>a, <2>3, <3>1, <3>3
    <3>6. QED
      BY <1>d, <2>3, <3>1, <3>2, <3>4, <3>5
  <2>4. QED
    BY <2>1, <2>2, <2>3
<1>11. Rings(L \cup {n}, K, f1, g1, r1)
  BY <1>9, <1>10 DEF Rings
<1>12. K \in SUBSET Nodes
  BY <1>1, <1>9
<1>13. QED
  BY <1>3, <1>11, <1>12 DEF Linked, Typed

LEMMA DeleteRings ==
  ASSUME NEW L \in SUBSET Nodes, NEW C, NEW f \in Links, NEW g \in Links,
         NEW r \in [Nodes -> Nat], Rings(L, C, f, g, r),
         NEW n \in L, n \notin Heads,
         NEW f1, f1 = [f EXCEPT ![g[n]] = f[n], ![n] = Poison],
         NEW g1, g1 = [g EXCEPT ![f[n]] = g[n], ![n] = Poison]
  PROVE  Linked(L \ {n}, C \ {n}, f1, g1, r)
<1>1. /\ f[n] \in L /\ g[n] \in L /\ g[f[n]] = n /\ f[g[n]] = n
      /\ r[n] \in Nat /\ r[f[n]] \in Nat /\ r[g[n]] \in Nat
  BY DEF Rings
<1>2. r[g[n]] < r[n] /\ (f[n] \notin Heads => r[n] < r[f[n]])
  BY <1>1 DEF Rings
<1>3. f[n] # n /\ g[n] # n
  BY <1>1, <1>2
<1>4. f1 \in Links /\ g1 \in Links
  BY <1>1 DEF Links
<1>5. /\ f1[g[n]] = f[n] /\ \A m \in L : m # n /\ m # g[n] => f1[m] = f[m]
      /\ g1[f[n]] = g[n] /\ \A m \in L : m # n /\ m # f[n] => g1[m] = g[m]
  BY <1>1, <1>3 DEF Links
<1>6. /\ \A m \in L : m # g[n] => f[m] # n
      /\ \A m \in L : m # f[n] => g[m] # n
      /\ \A m \in L : m # n => f[m] # f[n]
      /\ \A m \in L : m # n => g[m] # g[n]
  BY DEF Rings
<1>7. C \ {n} \subseteq L \ {n} /\ cfg \in C \ {n} /\ ext \in (L \ {n}) \ (C \ {n})
  BY DEF Rings, Heads
<1>8. ASSUME NEW m \in L \ {n}
      PROVE  /\ f1[m] \in L \ {n} /\ g1[m] \in L \ {n} /\ g1[f1[m]] = m /\ f1[g1[m]] = m
             /\ f1[m] \in C \ {n} <=> m \in C \ {n}
             /\ f1[m] \notin Heads => r[m] < r[f1[m]]
  <2>0. m \in L /\ m # n /\ f[m] \in L /\ g[m] \in L /\ g[f[m]] = m /\ f[g[m]] = m
    BY DEF Rings
  <2>1. f1[m] \in L \ {n} /\ g1[f1[m]] = m
    <3>1. CASE m = g[n]
      BY <1>1, <1>3, <1>5, <3>1
    <3>2. CASE m # g[n]
      <4>1. f1[m] = f[m] /\ f[m] # n /\ f[m] # f[n]
        BY <1>5, <1>6, <2>0, <3>2
      <4>2. QED
        BY <1>5, <2>0, <4>1
    <3>3. QED
      BY <3>1, <3>2
  <2>2. g1[m] \in L \ {n} /\ f1[g1[m]] = m
    <3>1. CASE m = f[n]
      BY <1>1, <1>3, <1>5, <3>1
    <3>2. CASE m # f[n]
      <4>1. g1[m] = g[m] /\ g[m] # n /\ g[m] # g[n]
        BY <1>5, <1>6, <2>0, <3>2
      <4>2. QED
        BY <1>5, <2>0, <4>1
    <3>3. QED
      BY <3>1, <3>2
  <2>3. CASE m = g[n]
    <3>1. f1[m] = f[n] /\ (f[n] \in C <=> m \in C)
      BY <1>1, <1>5, <2>3 DEF Rings
    <3>2. f[n] \notin Heads => r[m] < r[f[n]]
      BY <1>1, <1>2, <2>3
    <3>3. QED
      BY <1>3, <2>1, <2>2, <3>1, <3>2
  <2>4. CASE m # g[n]
    BY <1>5, <2>1, <2>2, <2>4 DEF Rings
  <2>5. QED
    BY <2>3, <2>4
<1>9. Rings(L \ {n}, C \ {n}, f1, g1, r)
  BY <1>7, <1>8 DEF Rings
<1>10. C \ {n} \in SUBSET Nodes
  BY <1>7
<1>11. QED
  BY <1>4, <1>9, <1>10 DEF Linked, Typed

LEMMA ReplaceRings ==
  ASSUME NEW L \in SUBSET Nodes, NEW C, NEW f \in Links, NEW g \in Links,
         NEW r \in [Nodes -> Nat], Rings(L, C, f, g, r),
         NEW p \in C, p \notin Heads, NEW e \in Ids, e \notin L,
         NEW f1, f1 = [f EXCEPT ![e] = f[p], ![g[p]] = e, ![p] = p],
         NEW g1, g1 = [g EXCEPT ![e] = g[p], ![f[p]] = e, ![p] = p],
         NEW r1, r1 = [r EXCEPT ![e] = r[p]]
  PROVE  Linked((L \ {p}) \cup {e}, (C \ {p}) \cup {e}, f1, g1, r1)
<1>1. /\ p \in L /\ f[p] \in L /\ g[p] \in L /\ g[f[p]] = p /\ f[g[p]] = p
      /\ r[p] \in Nat /\ r[f[p]] \in Nat /\ r[g[p]] \in Nat
      /\ f[p] \in C /\ g[p] \in C
  BY DEF Rings
<1>2. r[g[p]] < r[p] /\ (f[p] \notin Heads => r[p] < r[f[p]])
  BY <1>1 DEF Rings
<1>3. f[p] # p /\ g[p] # p /\ e # p /\ e # f[p] /\ e # g[p] /\ e \in Nodes
      /\ e \notin Heads
  BY <1>1, <1>2, NodeFacts DEF Heads
<1>4. f1 \in Links /\ g1 \in Links /\ r1 \in [Nodes -> Nat]
  BY <1>1, <1>3 DEF Links
<1>5. /\ f1[e] = f[p] /\ f1[g[p]] = e /\ \A m \in L : m # p /\ m # g[p] => f1[m] = f[m]
      /\ g1[e] = g[p] /\ g1[f[p]] = e /\ \A m \in L : m # p /\ m # f[p] => g1[m] = g[m]
      /\ r1[e] = r[p] /\ \A m \in L : r1[m] = r[m]
  BY <1>1, <1>3 DEF Links
<1>6. /\ \A m \in L : m # g[p] => f[m] # p
      /\ \A m \in L : m # f[p] => g[m] # p
      /\ \A m \in L : m # p => f[m] # f[p]
      /\ \A m \in L : m # p => g[m] # g[p]
  BY <1>1 DEF Rings
<1> DEFINE M == (L \ {p}) \cup {e}
           K == (C \ {p}) \cup {e}
<1>7. K \subseteq M /\ cfg \in K /\ ext \in M \ K
  BY <1>3 DEF Rings, Heads
<1>8. ASSUME NEW m \in M
      PROVE  /\ f1[m] \in M /\ g1[m] \in M /\ g1[f1[m]] = m /\ f1[g1[m]] = m
             /\ f1[m] \in K <=> m \in K
             /\ f1[m] \notin Heads => r1[m] < r1[f1[m]]
  <2>1. CASE m = e
    BY <1>1, <1>2, <1>3, <1>5, <2>1
  <2>2. CASE m \in L /\ m # p
    <3>0. f[m] \in L /\ g[m] \in L /\ g[f[m]] = m /\ f[g[m]] = m /\ m # e
      BY <2>2 DEF Rings
    <3>1. f1[m] \in M /\ g1[f1[m]] = m
      <4>1. CASE m = g[p]
        BY <1>5, <4>1
      <4>2. CASE m # g[p]
        <5>1. f1[m] = f[m] /\ f[m] # p /\ f[m] # f[p]
          BY <1>5, <1>6, <2>2, <4>2
        <5>2. QED
          BY <1>5, <3>0, <5>1
      <4>3. QED
        BY <4>1, <4>2
    <3>2. g1[m] \in M /\ f1[g1[m]] = m
      <4>1. CASE m = f[p]
        BY <1>5, <4>1
      <4>2. CASE m # f[p]
        <5>1. g1[m] = g[m] /\ g[m] # p /\ g[m] # g[p]
          BY <1>5, <1>6, <2>2, <4>2
        <5>2. QED
          BY <1>5, <3>0, <5>1
      <4>3. QED
        BY <4>1, <4>2
    <3>3. CASE m = g[p]
      <4>1. f1[m] = e /\ m \in K /\ r1[m] = r[g[p]] /\ r1[e] = r[p]
        BY <1>1, <1>3, <1>5, <2>2, <3>3
      <4>2. QED
        BY <1>2, <3>1, <3>2, <4>1
    <3>4. CASE m # g[p]
      <4>1. f1[m] = f[m] /\ f[m] \in L /\ f[m] # p /\ f[m] # e
        BY <1>5, <1>6, <2>2, <3>0, <3>4
      <4>2. f[m] \in K <=> m \in K
        BY <1>7, <2>2, <4>1 DEF Rings
      <4>3. f[m] \notin Heads => r1[m] < r1[f[m]]
        BY <1>5, <2>2, <4>1 DEF Rings
      <4>4. QED
        BY <3>1, <3>2, <4>1, <4>2, <4>3
    <3>5. QED
      BY <3>3, <3>4
  <2>3. QED
    BY <2>1, <2>2
<1>9. Rings(M, K, f1, g1, r1)
  BY <1>7, <1>8 DEF Rings
<1>10. K \in SUBSET Nodes
  BY <1>3, <1>7
<1>11. QED
  BY <1>4, <1>9, <1>10 DEF Linked, Typed

Raised(r, C, d) == [n \in Nodes |-> IF n \in C THEN r[n] ELSE r[n] + d + 1]

LEMMA SpliceRings ==
  ASSUME NEW L \in SUBSET Nodes, NEW C, NEW f \in Links, NEW g \in Links,
         NEW r \in [Nodes -> Nat], Rings(L, C, f, g, r), f[ext] # ext,
         NEW f1, f1 = [f EXCEPT ![g[cfg]] = f[ext], ![g[ext]] = cfg, ![ext] = ext],
         NEW g1, g1 = [g EXCEPT ![f[ext]] = g[cfg], ![cfg] = g[ext], ![ext] = ext],
         NEW r1, r1 = Raised(r, C, r[g[cfg]])
  PROVE  Linked(L, L \ {ext}, f1, g1, r1)
<1>0. cfg # ext /\ cfg \in L /\ ext \in L
  BY NodeFacts DEF Rings
<1>1. /\ f[ext] \in L \ C /\ g[ext] \in L \ C /\ g[cfg] \in C
      /\ g[f[ext]] = ext /\ f[g[ext]] = ext /\ f[g[cfg]] = cfg
      /\ g[ext] # ext /\ g[cfg] \in L /\ f[ext] # cfg /\ g[ext] # cfg
      /\ f[ext] \in Nodes /\ g[ext] \in Nodes /\ g[cfg] \in Nodes
  BY <1>0 DEF Rings
<1>2. r[g[cfg]] \in Nat /\ \A n \in L : r[n] \in Nat
  BY <1>1
<1>3. f1 \in Links /\ g1 \in Links /\ r1 \in [Nodes -> Nat]
  BY <1>0, <1>1, <1>2 DEF Links, Raised
<1>4. /\ f1[g[cfg]] = f[ext] /\ f1[g[ext]] = cfg /\ f1[ext] = ext
      /\ \A m \in L \ {ext, g[cfg], g[ext]} : f1[m] = f[m]
      /\ g1[f[ext]] = g[cfg] /\ g1[cfg] = g[ext] /\ g1[ext] = ext
      /\ \A m \in L \ {ext, cfg, f[ext]} : g1[m] = g[m]
  BY <1>0, <1>1 DEF Links
<1>5. /\ \A m \in L : m # g[cfg] => f[m] # cfg
      /\ \A m \in L : m # g[ext] => f[m] # ext
      /\ \A m \in L : m # f[ext] => g[m] # ext
      /\ \A m \in L : m # cfg => g[m] # g[cfg]
      /\ \A m \in L : m # ext => g[m] # g[ext]
      /\ \A m \in L : m # ext => f[m] # f[ext]
  BY <1>0 DEF Rings
<1>6. ASSUME NEW m \in L
      PROVE  /\ f1[m] \in L /\ g1[m] \in L /\ g1[f1[m]] = m /\ f1[g1[m]] = m
             /\ f1[m] \in L \ {ext} <=> m \in L \ {ext}
             /\ f1[m] \notin Heads => r1[m] < r1[f1[m]]
  <2>0. f[m] \in L /\ g[m] \in L /\ g[f[m]] = m /\ f[g[m]] = m
    BY DEF Rings
  <2>1. f1[m] \in L /\ g1[f1[m]] = m
    <3>1. CASE m \in {ext, g[cfg], g[ext]}
      BY <1>0, <1>1, <1>4, <3>1
    <3>2. CASE m \notin {ext, g[cfg], g[ext]}
      <4>1. f1[m] = f[m] /\ f[m] \notin {ext, cfg, f[ext]}
        BY <1>4, <1>5, <3>2
      <4>2. QED
        BY <1>4, <2>0, <4>1
    <3>3. QED
      BY <3>1, <3>2
  <2>2. g1[m] \in L /\ f1[g1[m]] = m
    <3>1. CASE m \in {ext, cfg, f[ext]}
      BY <1>0, <1>1, <1>4, <3>1
    <3>2. CASE m \notin {ext, cfg, f[ext]}
      <4>1. g1[m] = g[m] /\ g[m] \notin {ext, g[cfg], g[ext]}
        BY <1>4, <1>5, <3>2
      <4>2. QED
        BY <1>4, <2>0, <4>1
    <3>3. QED
      BY <3>1, <3>2
  <2>3. f1[m] \in L \ {ext} <=> m \in L \ {ext}
    BY <1>0, <1>1, <1>4, <1>5, <2>1
  <2>4. ASSUME f1[m] \notin Heads PROVE r1[m] < r1[f1[m]]
    <3>1. CASE m \in {ext, g[ext]}
      BY <1>4, <2>4, <3>1 DEF Heads
    <3>2. CASE m = g[cfg]
      <4>1. r1[m] = r[m] /\ r1[f[ext]] = r[f[ext]] + r[g[cfg]] + 1
        BY <1>1, <3>2 DEF Raised
      <4>2. r[f[ext]] \in Nat /\ r[m] \in Nat /\ r[m] = r[g[cfg]] /\ f1[m] = f[ext]
        BY <1>1, <1>2, <1>4, <3>2
      <4>3. QED
        BY <4>1, <4>2
    <3>3. CASE m \notin {ext, g[ext], g[cfg]}
      <4>1. f1[m] = f[m] /\ f[m] \in L /\ (f[m] \in C <=> m \in C) /\ r[m] < r[f[m]]
        BY <1>4, <2>4, <3>3 DEF Rings
      <4>2. m \in Nodes /\ f[m] \in Nodes /\ r[m] \in Nat /\ r[f[m]] \in Nat
        BY <1>2, <4>1
      <4>3. QED
        BY <1>2, <4>1, <4>2 DEF Raised
    <3>4. QED
      BY <3>1, <3>2, <3>3
  <2>5. QED
    BY <2>1, <2>2, <2>3, <2>4
<1>7. L \ {ext} \subseteq L /\ cfg \in L \ {ext} /\ ext \in L \ (L \ {ext})
  BY <1>0
<1>8. Rings(L, L \ {ext}, f1, g1, r1)
  BY <1>6, <1>7 DEF Rings
<1>9. QED
  BY <1>3, <1>8 DEF Linked, Typed

LEMMA LeastOf == ASSUME NEW T, T \subseteq Nat, T # {}
                 PROVE  \E x \in T : \A y \in T : x <= y
<1>1. PICK x \in T : \A y \in T : ~(<<y, x>> \in OpToRel(<, Nat))
  BY WFMin, NatLessThanWellFounded, Zenon
<1>2. \A y \in T : ~(y < x)
  BY <1>1 DEF OpToRel
<1>3. ASSUME NEW y \in T PROVE x <= y
  <2>1. x \in Nat /\ y \in Nat /\ ~(y < x)
    BY <1>2
  <2>2. QED
    BY <2>1, SMT
<1>4. QED
  BY <1>3

(* A head that is linked to itself is alone in its ring.                   *)
LEMMA EmptyRing ==
  ASSUME NEW L \in SUBSET Nodes, NEW C, NEW f \in Links, NEW g \in Links,
         NEW r \in [Nodes -> Nat], Rings(L, C, f, g, r), NEW h \in Heads, f[h] = h
  PROVE  IF h = cfg THEN C = {cfg} ELSE L \ C = {ext}
<1> DEFINE D == {n \in L : (n \in C <=> h \in C) /\ n # h}
           T == {r[n] : n \in D}
<1>1. SUFFICES ASSUME D # {} PROVE FALSE
  BY NodeFacts DEF Rings, Heads
<1>2. T \subseteq Nat /\ T # {}
  BY <1>1
<1>3. PICK x \in T : \A y \in T : x <= y
  BY <1>2, LeastOf, Zenon
<1>4. PICK n \in D : r[n] = x
  OBVIOUS
<1>5. n \notin Heads /\ h \in L
  BY NodeFacts DEF Rings, Heads
<1>6. g[n] \in L /\ f[g[n]] = n /\ r[g[n]] < r[n] /\ (g[n] \in C <=> h \in C)
  BY <1>5 DEF Rings
<1>7. g[n] \in D
  BY <1>6
<1>8. r[g[n]] \in T /\ r[g[n]] \in Nat /\ r[n] \in Nat
  BY <1>2, <1>7
<1>9. QED
  BY <1>3, <1>4, <1>6, <1>8

-----------------------------------------------------------------------------
(* The file that is parsed, item by item: what is left of it.              *)
Joined(it, bs) == Encode(it) \o bs
FromEach(items, f) ==
  [k \in 1..(Len(items) + 1) |->
     IF k > Len(items) THEN << >> ELSE Joined(items[k], f[k + 1])]

(* Such a function exists, by induction on the number of items from the    *)
(* end that it is defined for.                                             *)
LEMMA EncodedExists == ASSUME NEW items \in Seq(ItemType)
                       PROVE  \E f : f = FromEach(items, f)
<1> DEFINE n == Len(items)
           Good(m) == \E f : f = [k \in (n + 1 - m)..(n + 1) |->
                                    IF k > n THEN << >> ELSE Joined(items[k], f[k + 1])]
           Bad == {m \in 0..n : ~Good(m)}
<1>1. n \in Nat
  OBVIOUS
<1>2. Good(0)
  <2> DEFINE f == [k \in (n + 1 - 0)..(n + 1) |-> << >>]
  <2>1. \A k \in (n + 1 - 0)..(n + 1) : k > n
    BY <1>1, SMT
  <2>2. f = [k \in (n + 1 - 0)..(n + 1) |->
               IF k > n THEN << >> ELSE Joined(items[k], f[k + 1])]
    BY <2>1, Zenon
  <2>3. QED
    BY <2>2
<1>3. ASSUME NEW m \in 0..n, m < n, Good(m) PROVE Good(m + 1)
  <2>1. PICK f : f = [k \in (n + 1 - m)..(n + 1) |->
                        IF k > n THEN << >> ELSE Joined(items[k], f[k + 1])]
    BY <1>3
  <2> DEFINE dom == (n + 1 - (m + 1))..(n + 1)
             g == [k \in dom |-> IF k = n - m THEN Joined(items[k], f[k + 1]) ELSE f[k]]
  <2>2. ASSUME NEW k \in dom
        PROVE  g[k] = IF k > n THEN << >> ELSE Joined(items[k], g[k + 1])
    <3>0. n \in Nat /\ m \in Nat /\ m < n
      BY <1>1, <1>3
    <3> HIDE DEF Good, Bad, n
    <3>1. CASE k = n - m
      <4>1. k + 1 \in dom /\ k + 1 # n - m /\ k <= n
        BY <3>0, <3>1, SMT
      <4>2. g[k + 1] = f[k + 1]
        BY <4>1, Zenon
      <4>3. g[k] = Joined(items[k], f[k + 1])
        BY <3>1, Zenon
      <4>4. ~(k > n)
        BY <3>0, <4>1, SMT
      <4>5. QED
        BY <4>2, <4>3, <4>4, Zenon
    <3>2. CASE k # n - m
      <4>1. k \in (n + 1 - m)..(n + 1)
        BY <3>0, <3>2, SMT
      <4>2. f[k] = IF k > n THEN << >> ELSE Joined(items[k], f[k + 1])
        BY <2>1, <4>1, Zenon
      <4>3. ~(k > n) => k + 1 \in dom /\ k + 1 # n - m
        BY <3>0, <4>1, SMT
      <4>4. ~(k > n) => g[k + 1] = f[k + 1]
        BY <4>3, Zenon
      <4>5. g[k] = f[k]
        BY <3>2, Zenon
      <4>6. QED
        BY <4>2, <4>4, <4>5, Zenon
    <3>3. QED
      BY <3>1, <3>2
  <2>3. g = [k \in dom |-> IF k > n THEN << >> ELSE Joined(items[k], g[k + 1])]
    BY <2>2
  <2>4. QED
    BY <2>3
<1>4. Bad = {}
  <2> SUFFICES ASSUME Bad # {} PROVE FALSE
    OBVIOUS
  <2>0. \A m \in Bad : m \in 0..n
    BY Zenon
  <2>1. Bad \subseteq Nat
    <3> HIDE DEF Bad, n
    <3>1. QED
      BY <1>1, <2>0
  <2>2. PICK m \in Bad : \A l \in Bad : m <= l
    BY <2>1, LeastOf, Zenon
  <2>3. m # 0 /\ m \in 0..n /\ ~Good(m)
    BY <1>2, <2>2
  <2> HIDE DEF Good, n
  <2>4. m - 1 \in 0..n /\ m - 1 < n /\ m - 1 + 1 = m /\ ~(m <= m - 1)
    BY <1>1, <2>3, SMT
  <2>5. m - 1 \notin Bad
    BY <2>2, <2>4
  <2>6. Good(m - 1)
    BY <2>4, <2>5
  <2>7. QED
    BY <1>3, <2>3, <2>4, <2>6
<1>5. Good(n)
  BY <1>1, <1>4
<1>6. (n + 1 - n)..(n + 1) = 1..(n + 1)
  BY <1>1, SMT
<1>7. QED
  BY <1>5, <1>6 DEF FromEach

LEMMA EncodedSteps ==
  ASSUME NEW items \in Seq(ItemType)
  PROVE  /\ Encoded(items)[Len(items) + 1] = << >>
         /\ \A k \in 1..Len(items) :
              Encoded(items)[k] = Joined(items[k], Encoded(items)[k + 1])
<1>1. Encoded(items) = FromEach(items, Encoded(items))
  BY EncodedExists, Zenon DEF Encoded, FromEach, Joined
<1>2. Len(items) \in Nat
  OBVIOUS
<1>e. PICK e : e = Encoded(items)
  OBVIOUS
<1>3. \A k \in 1..(Len(items) + 1) :
        e[k] = IF k > Len(items) THEN << >> ELSE Joined(items[k], e[k + 1])
  BY <1>1, <1>e, Zenon DEF FromEach
<1>4. e[Len(items) + 1] = << >>
  <2>1. Len(items) + 1 \in 1..(Len(items) + 1) /\ Len(items) + 1 > Len(items)
    BY <1>2, SMT
  <2>2. QED
    BY <1>3, <2>1, Zenon
<1>5. ASSUME NEW k \in 1..Len(items) PROVE e[k] = Joined(items[k], e[k + 1])
  <2>1. k \in 1..(Len(items) + 1) /\ ~(k > Len(items))
    BY <1>2, SMT
  <2>2. QED
    BY <1>3, <2>1, Zenon
<1>6. QED
  BY <1>4, <1>5, <1>e, Zenon

LEMMA OffsetNat == ASSUME NEW x \in Offset PROVE x \in Nat
  BY SMT DEF Offset

LEMMA ItemTyped == ASSUME NEW it \in ItemType
                   PROVE  it.ofs \in Nat /\ it.data \in Seq(Nat)
<1>1. it.ofs \in Offset /\ it.data \in Seq(0..255)
  BY SMT DEF ItemType
<1>2. 0..255 \subseteq Nat
  BY SMT
<1>3. QED
  BY <1>1, <1>2, OffsetNat, SeqMonotonic, Zenon

(* Concatenation and the n items behind the first m, as operators of which *)
(* only the following is known.                                            *)
Cat(a, b)      == a \o b
Slice(s, m, n) == SubSeq(s, m + 1, m + n)

Follow(S, s, a, b, x, y) ==
  /\ s \in Seq(S) /\ Len(s) = x + y
  /\ \A k \in 1..x : s[k] = a[k]
  /\ \A k \in 1..y : s[x + k] = b[k]
Within(S, t, s, m, n) ==
  t \in Seq(S) /\ Len(t) = n /\ \A k \in 1..n : t[k] = s[m + k]

LEMMA Behind ==
  ASSUME NEW S, NEW a \in Seq(S), NEW b \in Seq(S),
         NEW x \in Nat, x = Len(a), NEW y \in Nat, y = Len(b)
  PROVE  Follow(S, Cat(a, b), a, b, x, y)
  BY ConcatProperties, SMT DEF Cat, Follow

LEMMA Part ==
  ASSUME NEW S, NEW s \in Seq(S), NEW m \in Nat, NEW n \in Nat, m + n <= Len(s)
  PROVE  Within(S, Slice(s, m, n), s, m, n)
<1>1. m + 1 \in Int /\ m + n \in Int /\ Len(s) \in Nat
  BY LenProperties
<1>2. \A k \in (m + 1)..(m + n) : s[k] \in S
  BY <1>1, ElementOfSeq
<1>3. /\ SubSeq(s, m + 1, m + n) \in Seq(S)
      /\ Len(SubSeq(s, m + 1, m + n)) = IF m + 1 <= m + n THEN (m + n) - (m + 1) + 1 ELSE 0
      /\ \A k \in 1..((m + n) - (m + 1) + 1) :
           SubSeq(s, m + 1, m + n)[k] = s[(m + 1) + k - 1]
  BY <1>1, <1>2, SubSeqProperties, SMT
<1>4. /\ (m + n) - (m + 1) + 1 = n /\ (m + 1 <= m + n <=> n > 0)
      /\ \A k \in 1..n : (m + 1) + k - 1 = m + k
  BY SMT
<1>5. QED
  BY <1>3, <1>4, SMT DEF Slice, Within

(* The parts of a concatenation.                                           *)
Divided(S, s, a, b, c, x, y, z) ==
  /\ s \in Seq(S) /\ Len(s) = (x + y) + z
  /\ \A k \in 1..x : s[k] = a[k]
  /\ Slice(s, x, y) = b
  /\ Slice(s, x + y, z) = c

LEMMA Parts ==
  ASSUME NEW S, NEW a \in Seq(S), NEW b \in Seq(S), NEW c \in Seq(S),
         NEW s, s = Cat(Cat(a, b), c),
         NEW x \in Nat, x = Len(a), NEW y \in Nat, y = Len(b), NEW z \in Nat, z = Len(c)
  PROVE  Divided(S, s, a, b, c, x, y, z)
<1>0. PICK ab : ab = Cat(a, b)
  OBVIOUS
<1>1. Follow(S, ab, a, b, x, y)
  BY <1>0, Behind, Zenon
<1>2. x + y \in Nat /\ ab \in Seq(S) /\ x + y = Len(ab)
  BY <1>1, SMT DEF Follow
<1>a. Follow(S, s, ab, c, x + y, z)
  BY <1>0, <1>2, Behind, Zenon
<1>3. /\ \A k \in 1..x : k \in 1..(x + y)
      /\ \A k \in 1..y : x + k \in 1..(x + y)
      /\ x + y \in Nat /\ x + y <= (x + y) + z /\ (x + y) + z <= (x + y) + z
  BY SMT
<1>4. \A k \in 1..x : s[k] = a[k]
  BY <1>1, <1>a, <1>3, Zenon DEF Follow
<1>5. \A k \in 1..y : s[x + k] = b[k]
  BY <1>1, <1>a, <1>3, Zenon DEF Follow
<1>b. s \in Seq(S) /\ Len(s) = (x + y) + z /\ \A k \in 1..z : s[(x + y) + k] = c[k]
  BY <1>a DEF Follow
<1>c. x + y <= Len(s) /\ (x + y) + z <= Len(s)
  BY <1>b, SMT
<1>6. Within(S, Slice(s, x, y), s, x, y)
  BY <1>b, <1>c, Part, Zenon
<1>7. Within(S, Slice(s, x + y, z), s, x + y, z)
  BY <1>2, <1>b, <1>c, Part, Zenon
<1>8. Slice(s, x, y) = b
  <2>1. Len(Slice(s, x, y)) = Len(b)
    BY <1>6, Zenon DEF Within
  <2>2. \A k \in 1..Len(Slice(s, x, y)) : Slice(s, x, y)[k] = b[k]
    BY <1>5, <1>6, Zenon DEF Within
  <2>3. QED
    BY <1>6, <2>1, <2>2, SeqEqual, Zenon DEF Within
<1>9. Slice(s, x + y, z) = c
  <2>1. Len(Slice(s, x + y, z)) = Len(c)
    BY <1>7, Zenon DEF Within
  <2>2. \A k \in 1..Len(Slice(s, x + y, z)) : Slice(s, x + y, z)[k] = c[k]
    BY <1>b, <1>7, Zenon DEF Within
  <2>3. QED
    BY <1>7, <2>1, <2>2, SeqEqual, Zenon DEF Within
<1>10. QED
  BY <1>b, <1>4, <1>8, <1>9, Zenon DEF Divided

LEMMA Bytes16 == ASSUME NEW o \in Nat
                 PROVE  o % 256 \in Nat /\ o \div 256 \in Nat /\ (o % 256) + 256 * (o \div 256) = o
  BY SMT

(* What rtb_parse_config reads of the bytes s: the item it, and bs behind. *)
Decodes(s, it, bs) ==
  /\ s \in Seq(Nat) /\ s # << >>
  /\ s[1] + 256 * s[2] = it.ofs
  /\ s[3] = Len(it.data)
  /\ SubSeq(s, 4, 3 + Len(it.data)) = it.data
  /\ SubSeq(s, 4 + Len(it.data), Len(s)) = bs

LEMMA JoinedProperties ==
  ASSUME NEW it, it.ofs \in Nat, it.data \in Seq(Nat), NEW bs \in Seq(Nat)
  PROVE  Decodes(Joined(it, bs), it, bs)
<1>1. PICK d \in Seq(Nat) : d = it.data
  OBVIOUS
<1>2. PICK o \in Nat : o = it.ofs
  OBVIOUS
<1>3. PICK l \in Nat : l = Len(d)
  BY LenProperties
<1>4. PICK z \in Nat : z = Len(bs)
  BY LenProperties
<1>5. PICK p, q \in Nat : p = o % 256 /\ q = o \div 256 /\ p + 256 * q = o
  BY Bytes16
<1> DEFINE h == <<p, q, l>>
           s == Joined(it, bs)
<1>6. h \in Seq(Nat) /\ Len(h) = 3 /\ h[1] = p /\ h[2] = q /\ h[3] = l
  BY SMT
<1>7. s = Cat(Cat(h, d), bs)
  <2>1. Encode(it) = Cat(h, d)
    <3>1. Encode(it) = <<o % 256, o \div 256, Len(d)>> \o d
      BY <1>1, <1>2, Zenon DEF Encode
    <3>2. QED
      BY <1>3, <1>5, <3>1, Zenon DEF Cat
  <2>2. QED
    BY <2>1, Zenon DEF Joined, Cat
<1> HIDE DEF h, s
<1>8. Divided(Nat, s, h, d, bs, 3, l, z)
  <2>1. 3 \in Nat
    BY SMT
  <2>2. QED
    BY <1>3, <1>4, <1>6, <1>7, <2>1, Parts, Zenon
<1>9. s[1] = p /\ s[2] = q /\ s[3] = l
  <2>1. 1 \in 1..3 /\ 2 \in 1..3 /\ 3 \in 1..3
    BY SMT
  <2>2. QED
    BY <1>6, <1>8, <2>1, Zenon DEF Divided
<1>10. s # << >>
  <2>1. Len(s) # 0
    BY <1>8, SMT DEF Divided
  <2>2. QED
    BY <2>1, SMT
<1>11. 3 + 1 = 4 /\ (3 + l) + 1 = 4 + l
  BY SMT
<1>12. SubSeq(s, 4, 3 + l) = d /\ SubSeq(s, 4 + l, Len(s)) = bs
  <2>1. SubSeq(s, 3 + 1, 3 + l) = d /\ SubSeq(s, (3 + l) + 1, (3 + l) + z) = bs
    BY <1>8, Zenon DEF Slice, Divided
  <2>2. Len(s) = (3 + l) + z
    BY <1>8, Zenon DEF Divided
  <2>3. QED
    BY <1>11, <2>1, <2>2, Zenon
<1>13. s[1] + 256 * s[2] = o
  BY <1>5, <1>9, SMT
<1>14. s \in Seq(Nat) /\ s[3] = l
  BY <1>8, <1>9 DEF Divided
<1>15. QED
  BY <1>1, <1>2, <1>3, <1>10, <1>12, <1>13, <1>14, Zenon DEF s, Decodes

LEMMA EncodedTyped ==
  ASSUME NEW items \in Seq(ItemType), NEW k \in 1..(Len(items) + 1)
  PROVE  Encoded(items)[k] \in Seq(Nat)
<1> DEFINE n == Len(items)
           e == Encoded(items)
           Bad == {m \in 0..n : e[n + 1 - m] \notin Seq(Nat)}
<1>1. n \in Nat /\ \A m \in 1..n : items[m] \in ItemType
  OBVIOUS
<1>2. /\ e[n + 1] \in Seq(Nat)
      /\ \A m \in 1..n : e[m + 1] \in Seq(Nat) => e[m] \in Seq(Nat)
  <2>1. << >> \in Seq(Nat)
    OBVIOUS
  <2>2. \A m \in 1..n : items[m].ofs \in Nat /\ items[m].data \in Seq(Nat)
    BY <1>1, ItemTyped, Zenon
  <2>3. e[n + 1] = << >> /\ \A m \in 1..n : e[m] = Joined(items[m], e[m + 1])
    BY EncodedSteps, Zenon
  <2>4. ASSUME NEW m \in 1..n, e[m + 1] \in Seq(Nat) PROVE e[m] \in Seq(Nat)
    <3>1. Joined(items[m], e[m + 1]) \in Seq(Nat)
      BY <2>2, <2>4, JoinedProperties, Zenon DEF Decodes
    <3>2. QED
      BY <2>3, <3>1, Zenon
  <2>5. QED
    BY <2>1, <2>3, <2>4, Zenon
<1> HIDE DEF n, e
<1>3. Bad = {}
  <2> SUFFICES ASSUME Bad # {} PROVE FALSE
    OBVIOUS
  <2>1. Bad \subseteq Nat
    BY <1>1
  <2>2. PICK m \in Bad : \A l \in Bad : m <= l
    BY <2>1, LeastOf, Zenon
  <2>3. m \in 0..n /\ e[n + 1 - m] \notin Seq(Nat)
    OBVIOUS
  <2>4. m # 0
    BY <1>1, <1>2, <2>3
  <2>5. m - 1 \in 0..n /\ ~(m <= m - 1) /\ n + 1 - (m - 1) = (n + 1 - m) + 1 /\ n + 1 - m \in 1..n
    BY <1>1, <2>3, <2>4
  <2>6. e[(n + 1 - m) + 1] \in Seq(Nat)
    BY <2>2, <2>5
  <2>7. QED
    BY <1>2, <2>3, <2>5, <2>6
<1>4. k \in 1..(n + 1)
  BY DEF n
<1>5. n + 1 - k \in 0..n /\ n + 1 - (n + 1 - k) = k
  BY <1>1, <1>4
<1>6. QED
  BY <1>3, <1>5 DEF e

(* What rtb_read_config writes of a list of items is what rtb_parse_config *)
(* reads, item by item and to the last byte.                               *)
THEOREM ReadBack ==
  ASSUME NEW items \in Seq(ItemType)
  PROVE  /\ Encoded(items)[Len(items) + 1] = << >>
         /\ \A k \in 1..Len(items) :
              Decodes(Encoded(items)[k], items[k], Encoded(items)[k + 1])
<1>1. Encoded(items)[Len(items) + 1] = << >>
  BY EncodedSteps, Zenon
<1>2. ASSUME NEW k \in 1..Len(items)
      PROVE  Decodes(Encoded(items)[k], items[k], Encoded(items)[k + 1])
  <2>1. Encoded(items)[k] = Joined(items[k], Encoded(items)[k + 1])
    BY EncodedSteps, Zenon
  <2>2. items[k].ofs \in Nat /\ items[k].data \in Seq(Nat)
    BY ElementOfSeq, ItemTyped, Zenon
  <2>3. k + 1 \in 1..(Len(items) + 1)
    BY SMT
  <2>4. Encoded(items)[k + 1] \in Seq(Nat)
    BY <2>3, EncodedTyped
  <2>5. QED
    BY <2>1, <2>2, <2>4, JoinedProperties, Zenon
<1>3. QED
  BY <1>1, <1>2
-----------------------------------------------------------------------------
Places == {"lines", "file", "parse", "merge", "append", "emit", "free", "done", "none", "crash"}

Types ==
  /\ input \in Inputs /\ pc \in Places
  /\ next \in Links /\ prev \in Links
  /\ item \in [Ids -> ItemType] /\ freed \in SUBSET (1..alloc) /\ alloc \in 0..MaxItems

Given == Len(input.lines) + Len(input.mac)

(* Up to the end of the extra items the first list is empty.               *)
Reading(C) ==
  /\ pc = "lines" => C = {cfg} /\ line \in 1..(Len(input.lines) + 1) /\ alloc <= line - 1
  /\ pc = "file"  => C = {cfg} /\ alloc <= Given

(* Then it gets the items of the file, up to the k-th.                     *)
Parsing(C) ==
  pc = "parse" =>
    \E k \in 1..(Len(Base) + 1) : bytes = Encoded(Base)[k] /\ alloc <= Given + (k - 1)

(* The extra item looked at is in the second list or, if its like was      *)
(* found, in the first, where the search is past it, or freed, with no     *)
(* pointers to follow.  The one to be looked at next is another and was    *)
(* not moved.                                                              *)
Merging(C, r) ==
  pc = "merge" =>
    /\ pos \in C /\ nxt = next[pos]
    /\ enext \in Live \ C /\ epos \in Ids /\ epos # enext
    /\ \/ epos \in Live \ C
       \/ epos \in C /\ (pos = cfg \/ r[epos] < r[pos])
       \/ epos \notin Live /\ ~Sound(epos)

Known(C, r) ==
  /\ C \in SUBSET Nodes /\ r \in [Nodes -> Nat]
  /\ Rings(Live, C, next, prev, r)
  /\ Reading(C) /\ Parsing(C) /\ Merging(C, r)

IInv == Types /\ (\E C, r : Known(C, r)) /\ (pc = "done" => Live = Heads)

LEMMA LiveNodes == ASSUME Types PROVE Live \in SUBSET Nodes
  BY NodeFacts DEF Live

LEMMA InvWhole == IInv => RingsWhole
<1> SUFFICES ASSUME IInv PROVE RingsWhole
  OBVIOUS
<1>1. PICK C, r : Known(C, r)
  BY DEF IInv
<1>2. pc = "done" => Live = Heads
  BY DEF IInv
<1>3. ASSUME NEW n \in Live
      PROVE  /\ next[n] \in Live /\ prev[n] \in Live
             /\ prev[next[n]] = n /\ next[prev[n]] = n
             /\ n \in Ids => next[n] # n
  <2>1. /\ next[n] \in Live /\ prev[n] \in Live /\ prev[next[n]] = n /\ next[prev[n]] = n
        /\ next[n] \notin Heads => r[n] < r[next[n]]
    BY <1>1 DEF Known, Rings
  <2>2. n \in Ids => n \notin Heads /\ r[n] \in Nat
    BY <1>1, NodeFacts DEF Known, Heads
  <2>3. QED
    BY <2>1, <2>2
<1>4. QED
  BY <1>2, <1>3 DEF RingsWhole, Live, Heads

LEMMA InputTyped ==
  ASSUME Types
  PROVE  /\ Base \in Seq(ItemType) /\ input.lines \in Seq(LineType)
         /\ input.mac \in Seq(ItemType) /\ Given \in Nat
         /\ Len(Base) + Given <= MaxItems /\ MaxItems \in Nat
<1>1. /\ input \in InputType(Seq(ItemType), Reads, Contents, Seq(LineType), Seq(ItemType))
      /\ Len(input.items) + Len(input.lines) + Len(input.mac) <= MaxItems /\ MaxItems \in Nat
  <2>1. input \in Inputs
    BY DEF Types
  <2>2. QED
    BY <2>1, InputsAssumption, Zenon
<1>2. /\ input.items \in Seq(ItemType) /\ input.lines \in Seq(LineType)
      /\ input.mac \in Seq(ItemType)
  BY <1>1, SMT DEF InputType
<1>3. PICK a, b, c \in Nat :
        a = Len(input.items) /\ b = Len(input.lines) /\ c = Len(input.mac)
  BY <1>2, LenProperties, Zenon
<1>a. a + b + c <= MaxItems => a + (b + c) <= MaxItems /\ 0 + (b + c) <= MaxItems
  BY <1>1, SMT
<1>b. Given = b + c /\ b + c \in Nat
  <2>1. Given = b + c
    BY <1>3, Zenon DEF Given
  <2>2. b + c \in Nat
    BY SMT
  <2>3. QED
    BY <2>1, <2>2
<1>c. a + b + c <= MaxItems
  <2>1. Len(input.items) + Len(input.lines) + Len(input.mac) <= MaxItems
    BY <1>1
  <2>2. QED
    BY <1>3, <2>1
<1>d. Base \in Seq(ItemType) /\ Len(Base) \in {0, a}
  <2>1. CASE input.buf = "invalid"
    <3>1. << >> \in Seq(ItemType) /\ Len(<< >>) = 0
      BY EmptySeq
    <3>2. Base = << >>
      BY <2>1 DEF Base
    <3>3. QED
      BY <3>1, <3>2
  <2>2. CASE input.buf # "invalid"
    BY <1>2, <1>3, <2>2 DEF Base
  <2>3. QED
    BY <2>1, <2>2
<1>4. Given \in Nat /\ Len(Base) + Given <= MaxItems
  BY <1>3, <1>a, <1>b, <1>c, <1>d, Zenon
<1>5. QED
  BY <1>1, <1>2, <1>4, <1>d

(* What depends on the input alone stays as it is.                         *)
LEMMA InputSame == ASSUME input' = input
                   PROVE  Base' = Base /\ Given' = Given /\ Usable' = Usable
  BY DEF Base, Given, Usable

LEMMA InitIInv == Init => IInv
<1> SUFFICES ASSUME Init PROVE IInv
  OBVIOUS
<1>1. /\ \A n \in Nodes : next[n] = n /\ prev[n] = n
      /\ next \in Links /\ prev \in Links
  BY DEF Init, Links
<1>2. << >> \in Seq(0..255) /\ 0 \in Offset
  BY SMT DEF Offset
<1>3. Item(0, << >>) \in ItemType
  BY <1>2 DEF Item, ItemType
<1>4. alloc \in 0..MaxItems
  BY MaxItemsNat, SMT DEF Init
<1>5. Types
  BY <1>1, <1>3, <1>4 DEF Init, Types, Places
<1>6. Live = Heads /\ Heads \subseteq Nodes
  BY NodeFacts, SMT DEF Init, Live, Ids
<1> DEFINE r == [n \in Nodes |-> 0]
<1>7. Rings(Live, {cfg}, next, prev, r)
  BY <1>1, <1>6, NodeFacts DEF Rings, Heads
<1>8. Len(input.lines) \in Nat
  BY <1>5, InputTyped, LenProperties
<1>9. Known({cfg}, r)
  <2>1. Reading({cfg})
    BY <1>8, SMT DEF Init, Reading
  <2>2. QED
    BY <1>6, <1>7, <2>1, NodeFacts DEF Init, Known, Parsing, Merging, Heads
<1>10. QED
  BY <1>5, <1>9 DEF Init, IInv

-----------------------------------------------------------------------------
(* The operations of the program on the heap.                              *)
LEMMA AllocateRings ==
  ASSUME Types, NEW C \in SUBSET Nodes, NEW r \in [Nodes -> Nat],
         Rings(Live, C, next, prev, r),
         NEW it \in ItemType, NEW h \in Heads, Allocate(it, h), alloc < MaxItems
  PROVE  /\ next' \in Links /\ prev' \in Links /\ item' \in [Ids -> ItemType]
         /\ freed' \in SUBSET (1..alloc') /\ alloc' \in 0..MaxItems
         /\ alloc' = alloc + 1 /\ alloc + 1 \in Ids \ Live
         /\ item'[alloc + 1] = it /\ \A m \in Ids \ {alloc + 1} : item'[m] = item[m]
         /\ \E r1 \in [Nodes -> Nat] :
              Rings(Live', IF h = cfg THEN C \cup {alloc + 1} ELSE C, next', prev', r1)
<1> DEFINE n == alloc + 1
<1>1. alloc \in Nat /\ n \in 1..MaxItems /\ alloc' = n /\ MaxItems \in Nat
  BY MaxItemsNat, SMT DEF Types, Allocate
<1>2. n \in Ids /\ n \notin Live /\ n \notin freed
  <2>1. n \in Ids /\ ~(n <= alloc) /\ n \notin 1..alloc
    BY <1>1, SMT DEF Ids
  <2>2. QED
    BY <2>1, NodeFacts DEF Live, Heads, Types
<1>3. /\ next' = [next EXCEPT ![n] = h, ![prev[h]] = n]
      /\ prev' = [prev EXCEPT ![h] = n, ![n] = prev[h]]
      /\ item' = [item EXCEPT ![n] = it] /\ freed' = freed
  BY DEF Allocate, AddTail
<1>4. Live' = Live \cup {n}
  <2>1. \A m \in Ids : m <= n <=> m <= alloc \/ m = n
    BY <1>1, SMT DEF Ids
  <2>2. QED
    BY <1>1, <1>2, <1>3, <2>1 DEF Live
<1>5. freed' \in SUBSET (1..n)
  <2>1. 1..alloc \subseteq 1..n
    BY <1>1, SMT
  <2>2. QED
    BY <1>3, <2>1 DEF Types
<1> DEFINE K == IF h = cfg THEN C \cup {n} ELSE C
           r1 == [r EXCEPT ![n] = r[prev[h]] + 1]
<1> HIDE DEF n
<1>6. /\ next' \in Links /\ prev' \in Links /\ r1 \in [Nodes -> Nat]
      /\ Rings(Live \cup {n}, K, next', prev', r1)
  <2>1. Live \in SUBSET Nodes /\ next \in Links /\ prev \in Links
    BY LiveNodes DEF Types
  <2>2. PICK x : x = r1
    OBVIOUS
  <2>a. PICK k : k = K
    OBVIOUS
  <2>b. PICK L : L = Live
    OBVIOUS
  <2>3. Linked(L \cup {n}, k, next', prev', x)
    BY <1>2, <1>3, <2>1, <2>2, <2>a, <2>b, InsertRings, Zenon
  <2>4. QED
    BY <2>2, <2>a, <2>b, <2>3, Zenon DEF Linked, Typed
<1>7. item' \in [Ids -> ItemType] /\ item'[n] = it /\ \A m \in Ids \ {n} : item'[m] = item[m]
  BY <1>2, <1>3 DEF Types
<1>8. alloc' \in 0..MaxItems
  BY <1>1, SMT
<1>9. \E x \in [Nodes -> Nat] : Rings(Live', K, next', prev', x)
  BY <1>4, <1>6, Zenon
<1>10. QED
  BY <1>1, <1>2, <1>5, <1>7, <1>8, <1>6, <1>9 DEF n

LEMMA FreeLive == ASSUME Types, NEW n \in Live, n \notin Heads,
                         freed' = freed \cup {n}, alloc' = alloc
                  PROVE  Live' = Live \ {n} /\ freed' \in SUBSET (1..alloc')
<1>1. n \in Ids /\ n <= alloc
  BY DEF Live
<1>2. n \in 1..alloc
  BY <1>1, SMT DEF Ids, Types
<1>3. QED
  BY <1>1, <1>2 DEF Live, Types

LEMMA SameLive == ASSUME UNCHANGED <<freed, alloc>> PROVE Live' = Live
  BY DEF Live

(* Steps that leave the lists as they are.                                 *)
LEMMA SameHeap ==
  ASSUME IInv, UNCHANGED <<input, heap>>, pc' \in Places, pc' = "done" => Live = Heads,
         \A C, r : Known(C, r) =>
           Reading(C)' /\ Parsing(C)' /\ Merging(C, r)'
  PROVE  IInv'
<1>1. PICK C, r : Known(C, r)
  BY DEF IInv
<1>2. Live' = Live /\ next' = next /\ prev' = prev /\ item' = item
  BY SameLive DEF heap
<1>3. Types'
  BY DEF IInv, Types, heap
<1>4. Known(C, r)'
  BY <1>1, <1>2 DEF Known
<1>5. QED
  BY <1>2, <1>3, <1>4 DEF IInv

LEMMA LineStep == ASSUME IInv, LineProcess PROVE IInv'
<1>1. PICK C, r : Known(C, r)
  BY DEF IInv
<1> DEFINE l == input.lines[line]
<1>2. /\ pc = "lines" /\ pc' = "lines" /\ line' = line + 1 /\ input' = input
      /\ C = {cfg} /\ Types /\ Rings(Live, C, next, prev, r) /\ r \in [Nodes -> Nat]
      /\ C \in SUBSET Nodes
  BY <1>1 DEF IInv, Known, Reading, LineProcess
<1>3. PICK n \in Nat : n = Len(input.lines)
  BY <1>2, InputTyped, LenProperties
<1>4. /\ line \in 1..n /\ line' \in 1..(n + 1) /\ alloc <= line - 1 /\ alloc + 1 <= line' - 1
      /\ alloc <= line' - 1 /\ alloc < n
  <2>1. line \in 1..(n + 1) /\ line <= n /\ alloc <= line - 1 /\ alloc \in Nat
    BY <1>1, <1>2, <1>3, SMT DEF Known, Reading, LineProcess, Types
  <2>2. QED
    BY <1>2, <2>1, SMT
<1>5. CASE WellFormed(l)
  <2>1. Allocate(Item(l.ofs, l.data), ext)
    BY <1>5 DEF LineProcess
  <2>2. Item(l.ofs, l.data) \in ItemType
    <3>1. input.lines \in Seq(LineType)
      BY <1>2, InputTyped
    <3>2. l \in LineType
      BY <1>3, <1>4, <3>1, ElementOfSeq, Zenon
    <3>3. QED
      BY <3>2, SMT DEF LineType, ItemType, Item
  <2>3. alloc < MaxItems
    <3>1. PICK a, c \in Nat : a = Len(Base) /\ c = Len(input.mac)
      BY <1>2, InputTyped, LenProperties
    <3>2. Given = n + c
      BY <1>3, <3>1 DEF Given
    <3>3. a + Given <= MaxItems /\ MaxItems \in Nat
      BY <1>2, <3>1, InputTyped
    <3>4. alloc \in Nat
      BY <1>2, SMT DEF Types
    <3>5. QED
      BY <1>4, <3>2, <3>3, <3>4
  <2>4. ext \in Heads /\ ext # cfg
    BY NodeFacts DEF Heads
  <2>5. /\ next' \in Links /\ prev' \in Links /\ item' \in [Ids -> ItemType]
        /\ freed' \in SUBSET (1..alloc') /\ alloc' \in 0..MaxItems
        /\ alloc' = alloc + 1
        /\ \E r1 \in [Nodes -> Nat] :
             Rings(Live', IF ext = cfg THEN C \cup {alloc + 1} ELSE C, next', prev', r1)
    BY <1>2, <2>1, <2>2, <2>3, <2>4, AllocateRings
  <2>6. PICK r1 \in [Nodes -> Nat] : Rings(Live', C, next', prev', r1)
    BY <2>4, <2>5
  <2>7. Types'
    BY <1>2, <2>5 DEF Types
  <2>8. Known(C, r1)'
    <3>1. Reading(C)'
      BY <1>2, <1>3, <1>4, <2>5 DEF Reading
    <3>2. QED
      BY <1>2, <2>6, <3>1 DEF Known, Parsing, Merging
  <2>9. QED
    BY <1>2, <2>7, <2>8 DEF IInv
<1>6. CASE ~WellFormed(l)
  <2>1. UNCHANGED heap
    BY <1>6 DEF LineProcess
  <2>2. ASSUME NEW D, NEW q, Known(D, q)
        PROVE  Reading(D)' /\ Parsing(D)' /\ Merging(D, q)'
    <3>1. D = {cfg} /\ alloc' = alloc
      BY <1>2, <2>1, <2>2 DEF Known, Reading, heap
    <3>2. Reading(D)'
      BY <1>2, <1>3, <1>4, <3>1 DEF Reading
    <3>3. QED
      BY <1>2, <3>1, <3>2 DEF Parsing, Merging
  <2>3. QED
    BY <1>2, <2>1, <2>2, SameHeap DEF Places
<1>7. QED
  BY <1>5, <1>6

LEMMA MacStep == ASSUME IInv, AddMac PROVE IInv'
<1>1. PICK C, r : Known(C, r)
  BY DEF IInv
<1>2. /\ pc = "lines" /\ pc' = "file" /\ input' = input
      /\ C = {cfg} /\ Types /\ Rings(Live, C, next, prev, r) /\ r \in [Nodes -> Nat]
      /\ C \in SUBSET Nodes
  BY <1>1 DEF IInv, Known, Reading, AddMac
<1>3. PICK n, a, c \in Nat :
        n = Len(input.lines) /\ a = Len(Base) /\ c = Len(input.mac)
  BY <1>2, InputTyped, LenProperties
<1>4. /\ alloc \in Nat /\ alloc <= n /\ Given = n + c /\ a + Given <= MaxItems
      /\ MaxItems \in Nat
  <2>1. line \in 1..(n + 1) /\ alloc <= line - 1 /\ alloc \in Nat
    BY <1>1, <1>2, <1>3, SMT DEF Known, Reading, Types
  <2>2. Given = n + c
    BY <1>3 DEF Given
  <2>3. a + Given <= MaxItems /\ MaxItems \in Nat
    BY <1>2, <1>3, InputTyped
  <2>4. QED
    BY <2>1, <2>2, <2>3
<1>5. CASE input.mac # << >>
  <2>1. Allocate(Head(input.mac), ext)
    BY <1>5 DEF AddMac
  <2>2. Head(input.mac) \in ItemType /\ c > 0
    <3>1. input.mac \in Seq(ItemType)
      BY <1>2, InputTyped
    <3>2. QED
      BY <1>3, <1>5, <3>1
  <2>3. alloc < MaxItems /\ alloc + 1 <= Given
    BY <1>4, <2>2
  <2>4. ext \in Heads /\ ext # cfg
    BY NodeFacts DEF Heads
  <2>5. /\ next' \in Links /\ prev' \in Links /\ item' \in [Ids -> ItemType]
        /\ freed' \in SUBSET (1..alloc') /\ alloc' \in 0..MaxItems
        /\ alloc' = alloc + 1
        /\ \E r1 \in [Nodes -> Nat] :
             Rings(Live', IF ext = cfg THEN C \cup {alloc + 1} ELSE C, next', prev', r1)
    BY <1>2, <2>1, <2>2, <2>3, <2>4, AllocateRings
  <2>6. PICK r1 \in [Nodes -> Nat] : Rings(Live', C, next', prev', r1)
    BY <2>4, <2>5
  <2>7. Types'
    BY <1>2, <2>5 DEF Types, Places
  <2>8. Known(C, r1)'
    <3>1. Given' = Given
      BY <1>2 DEF Given
    <3>2. Reading(C)'
      BY <1>2, <2>3, <2>5, <3>1 DEF Reading
    <3>3. QED
      BY <1>2, <2>6, <3>2 DEF Known, Parsing, Merging
  <2>9. QED
    BY <1>2, <2>7, <2>8 DEF IInv
<1>6. CASE input.mac = << >>
  <2>1. UNCHANGED heap
    BY <1>6 DEF AddMac
  <2>2. ASSUME NEW D, NEW q, Known(D, q)
        PROVE  Reading(D)' /\ Parsing(D)' /\ Merging(D, q)'
    <3>1. D = {cfg} /\ alloc' = alloc /\ Given' = Given
      BY <1>2, <2>1, <2>2 DEF Known, Reading, heap, Given
    <3>2. Reading(D)'
      BY <1>2, <1>4, <3>1 DEF Reading
    <3>3. QED
      BY <1>2, <3>1, <3>2 DEF Parsing, Merging
  <2>3. QED
    BY <1>2, <2>1, <2>2, SameHeap DEF Places
<1>7. QED
  BY <1>5, <1>6

LEMMA FileStep == ASSUME IInv, ReadFile PROVE IInv'
<1>1. Types /\ pc = "file" /\ input' = input /\ UNCHANGED heap
  BY DEF IInv, ReadFile
<1>2. PICK a \in Nat : a = Len(Base)
  BY <1>1, InputTyped, LenProperties
<1>3. pc' \in {"none", "free", "parse"}
  <2>1. input.read \in Reads
    <3>1. input \in Inputs
      BY <1>1 DEF Types
    <3>2. input \in InputType(Seq(ItemType), Reads, Contents, Seq(LineType), Seq(ItemType))
      BY <3>1, InputsAssumption, Zenon
    <3>3. QED
      BY <3>2, SMT DEF InputType
  <2>2. QED
    BY <2>1, Zenon DEF ReadFile, Usable, Reads
<1>4. \E k \in 1..(a + 1) :
        /\ bytes' = Encoded(Base)[k]
        /\ k > 0
  <2>1. Base \in Seq(ItemType)
    BY <1>1, InputTyped
  <2>2. Encoded(Base)[a + 1] = << >>
    BY <1>2, <2>1, EncodedSteps
  <2>3. bytes' = Encoded(Base)[1] \/ bytes' = Encoded(Base)[a + 1]
    BY <2>2 DEF ReadFile, Body
  <2>4. 1 \in 1..(a + 1) /\ a + 1 \in 1..(a + 1) /\ 1 > 0 /\ a + 1 > 0
    BY SMT
  <2>5. QED
    BY <2>3, <2>4
<1>5. ASSUME NEW C, NEW r, Known(C, r)
      PROVE  Reading(C)' /\ Parsing(C)' /\ Merging(C, r)'
  <2>1. C = {cfg} /\ alloc <= Given /\ alloc' = alloc
    BY <1>1, <1>5 DEF Known, Reading, heap
  <2>2. Reading(C)' /\ Merging(C, r)'
    BY <1>3 DEF Reading, Merging
  <2>3. Parsing(C)'
    <3>1. PICK k \in 1..(a + 1) : bytes' = Encoded(Base)[k]
      BY <1>4
    <3>a. Given' = Given /\ Base' = Base
      BY <1>1, InputSame
    <3>b. Given \in Nat
      BY <1>1, InputTyped
    <3>c. alloc \in Nat
      BY <1>1, SMT DEF Types
    <3>2. Given' = Given /\ Base' = Base /\ Given \in Nat /\ alloc \in Nat
      BY <3>a, <3>b, <3>c
    <3>3. alloc' <= Given' + (k - 1)
      <4>1. k - 1 \in Nat
        BY SMT
      <4>2. Given <= Given + (k - 1)
        BY <3>2, <4>1, SMT
      <4>3. QED
        BY <2>1, <3>2, <4>1, <4>2, SMT
    <3>4. QED
      BY <1>2, <3>1, <3>2, <3>3 DEF Parsing
  <2>4. QED
    BY <2>1, <2>2, <2>3
<1>6. QED
  BY <1>1, <1>3, <1>5, SameHeap DEF Places

LEMMA ParseStep == ASSUME IInv, ParseItem PROVE IInv'
<1>1. PICK C, r : Known(C, r)
  BY DEF IInv
<1>2. /\ pc = "parse" /\ pc' = "parse" /\ input' = input
      /\ Types /\ Rings(Live, C, next, prev, r) /\ r \in [Nodes -> Nat]
      /\ C \in SUBSET Nodes /\ Parsing(C)
  BY <1>1 DEF IInv, Known, ParseItem
<1> DEFINE items == Base
           e == Encoded(items)
<1>3. /\ items \in Seq(ItemType) /\ Given \in Nat /\ MaxItems \in Nat
      /\ Given' = Given /\ Base' = Base
  BY <1>2, InputTyped, InputSame
<1>4. PICK a \in Nat : a = Len(items)
  BY <1>3, LenProperties
<1>5. a + Given <= MaxItems /\ alloc \in Nat
  <2>1. a + Given <= MaxItems
    BY <1>2, <1>4, InputTyped
  <2>2. alloc \in Nat
    BY <1>2, SMT DEF Types
  <2>3. QED
    BY <2>1, <2>2
<1>n. PICK n \in Nat : n = alloc + 1
  BY <1>5
<1>6. PICK k \in 1..(a + 1) : bytes = e[k] /\ alloc <= Given + (k - 1)
  BY <1>2, <1>4 DEF Parsing
<1>7. e[a + 1] = << >> /\ \A j \in 1..a : Decodes(e[j], items[j], e[j + 1])
  BY <1>3, <1>4, ReadBack
<1>8. k \in 1..a /\ k + 1 \in 1..(a + 1) /\ k - 1 \in Nat /\ k = (k + 1) - 1
  <2>1. bytes # << >>
    BY DEF ParseItem
  <2>2. k # a + 1
    BY <1>6, <1>7, <2>1
  <2>3. QED
    BY <2>2
<1> DEFINE it == items[k]
<1>9. it \in ItemType /\ it.ofs \in Nat /\ it.data \in Seq(Nat)
  BY <1>3, <1>4, <1>8, ElementOfSeq, ItemTyped, Zenon
<1>12. /\ bytes[1] + 256 * bytes[2] = it.ofs /\ bytes[3] = Len(it.data)
       /\ SubSeq(bytes, 4, 3 + Len(it.data)) = it.data
       /\ SubSeq(bytes, 4 + Len(it.data), Len(bytes)) = e[k + 1]
  <2>1. Decodes(bytes, it, e[k + 1])
    BY <1>6, <1>7, <1>8, Zenon
  <2>2. QED
    BY <2>1, Zenon DEF Decodes
<1>13. Allocate(Item(it.ofs, it.data), cfg) /\ bytes' = e[k + 1]
  BY <1>12, Zenon DEF ParseItem
<1>14. Item(it.ofs, it.data) \in ItemType /\ Item(it.ofs, it.data).ofs = it.ofs
  BY <1>9, SMT DEF ItemType, Item
<1>15. alloc < MaxItems /\ n <= Given + ((k + 1) - 1)
  <2>1. k - 1 < a /\ k - 1 \in Nat /\ (k - 1) + 1 = (k + 1) - 1
    BY <1>8
  <2>2. alloc <= Given + (k - 1) /\ Given \in Nat /\ MaxItems \in Nat
    BY <1>3, <1>6
  <2>3. alloc < MaxItems
    BY <1>5, <2>1, <2>2
  <2>4. n <= Given + ((k - 1) + 1)
    BY <1>5, <1>n, <2>1, <2>2
  <2>5. QED
    BY <2>1, <2>3, <2>4
<1>16. cfg \in Heads
  BY DEF Heads
<1>17. /\ next' \in Links /\ prev' \in Links /\ item' \in [Ids -> ItemType]
       /\ freed' \in SUBSET (1..alloc') /\ alloc' \in 0..MaxItems
       /\ alloc' = n /\ n \in Ids \ Live
       /\ item'[n] = Item(it.ofs, it.data) /\ \A m \in Ids \ {n} : item'[m] = item[m]
       /\ \E q \in [Nodes -> Nat] :
            Rings(Live', IF cfg = cfg THEN C \cup {n} ELSE C, next', prev', q)
  BY <1>2, <1>13, <1>14, <1>15, <1>16, <1>n, AllocateRings
<1>18. PICK q \in [Nodes -> Nat] : Rings(Live', C \cup {n}, next', prev', q)
  BY <1>17
<1> DEFINE K == C \cup {n}
<1>19. Types'
  BY <1>2, <1>17 DEF Types
<1> HIDE DEF it, e
<1>23. Parsing(K)'
  <2>1. bytes' = Encoded(Base')[k + 1]
    BY <1>3, <1>13 DEF e
  <2>2. alloc' <= Given' + ((k + 1) - 1)
    BY <1>3, <1>15, <1>17
  <2>3. k + 1 \in 1..(Len(Base') + 1)
    BY <1>3, <1>4, <1>8
  <2>4. QED
    BY <2>1, <2>2, <2>3, Zenon DEF Parsing
<1>24. K \in SUBSET Nodes
  BY <1>2, <1>17, NodeFacts
<1>25. Known(K, q)'
  <2>1. Reading(K)' /\ Merging(K, q)'
    BY <1>2 DEF Reading, Merging
  <2>2. QED
    BY <1>18, <1>23, <1>24, <2>1, Zenon DEF Known
<1>26. QED
  BY <1>2, <1>19, <1>25 DEF IInv

(* Where the code goes on with something undefined, the model stops.       *)
LEMMA StopStep ==
  ASSUME IInv, UNCHANGED <<input, heap>>, pc' = "crash" PROVE IInv'
<1>1. ASSUME NEW C, NEW r, Known(C, r)
      PROVE  Reading(C)' /\ Parsing(C)' /\ Merging(C, r)'
  BY DEF Reading, Parsing, Merging
<1>2. QED
  BY <1>1, SameHeap DEF Places

LEMMA CutStep == ASSUME IInv, ParseCut PROVE IInv'
  BY StopStep DEF ParseCut

(* Once the merge is over only the rings matter.                           *)
LEMMA Relinked ==
  ASSUME IInv, UNCHANGED input, pc' \in {"append", "emit", "free"},
         item' \in [Ids -> ItemType], freed' \in SUBSET (1..alloc'), alloc' \in 0..MaxItems,
         NEW K, NEW q, Linked(Live', K, next', prev', q)
  PROVE  IInv'
<1>1. Types'
  BY DEF IInv, Types, Places, Linked, Typed
<1>2. Reading(K)' /\ Parsing(K)' /\ Merging(K, q)'
  BY DEF Reading, Parsing, Merging
<1>3. Known(K, q)'
  BY <1>2 DEF Known, Linked, Typed
<1>4. QED
  BY <1>1, <1>3 DEF IInv

LEMMA SpliceStep ==
  ASSUME IInv, UNCHANGED <<input, item, freed, alloc>>, pc' \in {"emit", "free"},
         next[ext] # ext,
         next' = [next EXCEPT ![prev[cfg]] = next[ext], ![prev[ext]] = cfg, ![ext] = ext],
         prev' = [prev EXCEPT ![next[ext]] = prev[cfg], ![cfg] = prev[ext], ![ext] = ext]
  PROVE  IInv'
<1>1. PICK C, r : Known(C, r)
  BY DEF IInv
<1>2. /\ Types /\ Rings(Live, C, next, prev, r) /\ r \in [Nodes -> Nat]
      /\ Live \in SUBSET Nodes /\ next \in Links /\ prev \in Links
  BY <1>1, LiveNodes DEF IInv, Known, Types
<1>3. PICK L, q : L = Live /\ q = Raised(r, C, r[prev[cfg]])
  OBVIOUS
<1>4. Linked(L, L \ {ext}, next', prev', q)
  BY <1>2, <1>3, SpliceRings, Zenon
<1>5. Live' = L
  BY <1>3, SameLive
<1>6. /\ item' \in [Ids -> ItemType] /\ freed' \in SUBSET (1..alloc')
      /\ alloc' \in 0..MaxItems
  BY <1>2 DEF Types
<1>7. pc' \in {"append", "emit", "free"}
  OBVIOUS
<1>8. QED
  BY <1>4, <1>5, <1>6, <1>7, Relinked, Zenon

LEMMA EmptyStep == ASSUME IInv, MergeEmpty PROVE IInv'
<1>1. PICK C, r : Known(C, r)
  BY DEF IInv
<1>2. UNCHANGED <<input, item, freed, alloc>> /\ pc' = "emit"
  BY DEF MergeEmpty
<1>3. CASE UNCHANGED <<next, prev>>
  <2>1. UNCHANGED heap
    BY <1>2, <1>3 DEF heap
  <2>2. ASSUME NEW D, NEW q, Known(D, q)
        PROVE  Reading(D)' /\ Parsing(D)' /\ Merging(D, q)'
    BY <1>2 DEF Reading, Parsing, Merging
  <2>3. QED
    BY <1>2, <2>1, <2>2, SameHeap DEF Places
<1>4. CASE ~UNCHANGED <<next, prev>>
  <2>1. /\ next[ext] # ext /\ next[cfg] = cfg
        /\ next' = [next EXCEPT ![cfg] = next[ext], ![prev[ext]] = cfg, ![ext] = ext]
        /\ prev' = [prev EXCEPT ![next[ext]] = cfg, ![cfg] = prev[ext], ![ext] = ext]
    BY <1>4 DEF MergeEmpty
  <2>2. prev[cfg] = cfg
    BY <1>1, <2>1 DEF Known, Rings
  <2>3. QED
    BY <1>2, <2>1, <2>2, SpliceStep
<1>5. QED
  BY <1>3, <1>4

LEMMA FreeSpliceStep == ASSUME IInv, FreeSplice PROVE IInv'
  BY SpliceStep DEF FreeSplice

(* The ring after a step along it.                                         *)
LEMMA Along ==
  ASSUME NEW C, NEW r, Known(C, r), NEW n \in Live
  PROVE  /\ next[n] \in Live /\ (next[n] \in C <=> n \in C)
         /\ next[n] \notin Heads => r[n] < r[next[n]] /\ next[n] # n /\ next[n] \in Ids
<1>1. /\ next[n] \in Live /\ (next[n] \in C <=> n \in C)
      /\ next[n] \notin Heads => r[n] < r[next[n]]
      /\ r[n] \in Nat
  BY NodeFacts DEF Known, Rings, Live
<1>2. next[n] \notin Heads => next[n] \in Ids
  BY <1>1 DEF Live
<1>3. QED
  BY <1>1, <1>2

LEMMA BeginStep == ASSUME IInv, MergeBegin PROVE IInv'
<1>1. UNCHANGED <<input, heap>> /\ pc' = "merge" /\ pc = "parse"
  BY DEF MergeBegin, Parsed
<1>2. ASSUME NEW C, NEW r, Known(C, r)
      PROVE  Reading(C)' /\ Parsing(C)' /\ Merging(C, r)'
  <2>2. cfg \in C /\ C \subseteq Live /\ ext \in Live \ C
    BY <1>2 DEF Known, Rings
  <2>3. next[cfg] \in C
    BY <1>2, <2>2, Along
  <2>4. next[ext] \in Live \ C /\ next[ext] \notin Heads /\ next[ext] \in Ids
    <3>1. next[ext] \in Live \ C
      BY <1>2, <2>2, Along
    <3>2. next[ext] # ext
      BY DEF MergeBegin
    <3>3. QED
      BY <2>2, <3>1, <3>2 DEF Heads, Live
  <2>5. next[next[ext]] \in Live \ C /\ next[next[ext]] # next[ext]
    BY <1>2, <2>4, Along
  <2>6. Merging(C, r)'
    BY <1>1, <2>3, <2>4, <2>5, SameLive DEF MergeBegin, Merging, heap
  <2>7. QED
    BY <1>1, <2>6 DEF Reading, Parsing
<1>3. QED
  BY <1>1, <1>2, SameHeap DEF Places

LEMMA OtherStep == ASSUME IInv, MergeOther PROVE IInv'
<1>1. UNCHANGED <<input, heap>> /\ pc' = "merge" /\ pc = "merge"
  BY DEF MergeOther
<1>2. ASSUME NEW C, NEW r, Known(C, r)
      PROVE  Reading(C)' /\ Parsing(C)' /\ Merging(C, r)'
  <2>1. Merging(C, r) /\ C \subseteq Live /\ C \in SUBSET Nodes
        /\ r \in [Nodes -> Nat]
    BY <1>1, <1>2 DEF Known, Rings
  <2>2. /\ pos \in C /\ nxt = next[pos] /\ enext \in Live \ C /\ epos \in Ids /\ epos # enext
        /\ \/ epos \in Live \ C
           \/ epos \in C /\ (pos = cfg \/ r[epos] < r[pos])
           \/ epos \notin Live /\ ~Sound(epos)
    BY <1>1, <2>1 DEF Merging
  <2>3. pos' = nxt /\ nxt' = next[nxt] /\ epos' = epos /\ enext' = enext /\ pos # cfg
        /\ next' = next /\ item' = item /\ Live' = Live
    BY SameLive DEF MergeOther, Step, heap
  <2>4. nxt \in C /\ (nxt = cfg \/ r[pos] < r[nxt])
    <3>1. nxt \in C /\ (nxt \notin Heads => r[pos] < r[nxt])
      BY <1>2, <2>1, <2>2, Along
    <3>2. ext \notin C
      BY <1>2 DEF Known, Rings
    <3>3. QED
      BY <3>1, <3>2 DEF Heads
  <2>5. \/ epos' \in Live' \ C
        \/ epos' \in C /\ (pos' = cfg \/ r[epos'] < r[pos'])
        \/ epos' \notin Live' /\ ~Sound(epos)'
    <3>1. CASE epos \in C /\ r[epos] < r[pos]
      <4>1. r[epos] \in Nat /\ r[pos] \in Nat /\ r[nxt] \in Nat
        BY <2>1, <2>2, <2>4, <3>1
      <4>2. QED
        BY <2>3, <2>4, <3>1, <4>1
    <3>2. CASE epos \in Live \ C
      BY <2>3, <3>2
    <3>3. CASE epos \notin Live /\ ~Sound(epos)
      <4>1. prev' = prev
        BY <1>1 DEF heap
      <4>2. QED
        BY <2>3, <3>3, <4>1 DEF Sound
    <3>4. QED
      BY <2>2, <2>3, <3>1, <3>2, <3>3
  <2>6. Merging(C, r)'
    BY <2>2, <2>3, <2>4, <2>5 DEF Merging
  <2>7. QED
    BY <1>1, <2>1, <2>6 DEF Reading, Parsing
<1>3. QED
  BY <1>1, <1>2, SameHeap DEF Places

LEMMA NextStep == ASSUME IInv, MergeNext PROVE IInv'
<1>1. UNCHANGED <<input, heap>> /\ pc' \in {"merge", "append"} /\ pc = "merge" /\ pos = cfg
  BY DEF MergeNext
<1>2. ASSUME NEW C, NEW r, Known(C, r)
      PROVE  Reading(C)' /\ Parsing(C)' /\ Merging(C, r)'
  <2>1. Merging(C, r) /\ C \subseteq Live /\ cfg \in C /\ ext \notin C
    BY <1>1, <1>2 DEF Known, Rings
  <2>2. enext \in Live \ C
    BY <1>1, <2>1 DEF Merging
  <2>3. Merging(C, r)'
    <3>1. SUFFICES ASSUME pc' = "merge" PROVE Merging(C, r)'
      BY DEF Merging
    <3>2. epos' = enext /\ enext' = next[enext] /\ pos' = next[cfg] /\ nxt' = next[next[cfg]]
          /\ enext # ext
      BY <3>1 DEF MergeNext
    <3>3. enext \in Ids
      BY <2>1, <2>2, <3>2 DEF Live, Heads
    <3>4. next[enext] \in Live \ C /\ next[enext] # enext
      <4>1. next[enext] \in Live \ C /\ (next[enext] \notin Heads => next[enext] # enext)
        BY <1>2, <2>2, Along
      <4>2. enext \notin Heads
        BY <3>3, NodeFacts DEF Heads
      <4>3. QED
        BY <4>1, <4>2
    <3>5. next[cfg] \in C
      BY <1>2, <2>1, Along
    <3>6. QED
      BY <1>1, <2>2, <3>2, <3>3, <3>4, <3>5, SameLive DEF Merging, heap
  <2>4. QED
    BY <1>1, <2>1, <2>3 DEF Reading, Parsing
<1>3. QED
  BY <1>1, <1>2, SameHeap DEF Places

LEMMA DoneStep == ASSUME IInv, MergeDone \/ Emit PROVE IInv'
<1>1. UNCHANGED <<input, heap>> /\ pc' \in {"emit", "free", "crash"}
  BY DEF MergeDone, Emit
<1>2. ASSUME NEW C, NEW r, Known(C, r)
      PROVE  Reading(C)' /\ Parsing(C)' /\ Merging(C, r)'
  BY <1>1 DEF Reading, Parsing, Merging
<1>3. QED
  BY <1>1, <1>2, SameHeap DEF Places

(* An item that is taken out of its ring.                                  *)
LEMMA TakenOut ==
  ASSUME Types, NEW C, NEW r, Known(C, r), NEW n \in Live, n \notin Heads
  PROVE  Sound(n) /\ Linked(Live \ {n}, C \ {n}, DelNext(n), DelPrev(n), r)
<1>1. /\ Live \in SUBSET Nodes /\ next \in Links /\ prev \in Links /\ r \in [Nodes -> Nat]
      /\ Rings(Live, C, next, prev, r)
  BY LiveNodes DEF Types, Known
<1>2. Sound(n)
  BY <1>1, NodeFacts DEF Rings, Sound
<1>3. PICK L, x, y : L = Live /\ x = DelNext(n) /\ y = DelPrev(n)
  OBVIOUS
<1>4. /\ x = [next EXCEPT ![prev[n]] = next[n], ![n] = Poison]
      /\ y = [prev EXCEPT ![next[n]] = prev[n], ![n] = Poison]
  BY <1>3 DEF DelNext, DelPrev
<1>5. Linked(L \ {n}, C \ {n}, x, y, r)
  BY <1>1, <1>3, <1>4, DeleteRings, Zenon
<1>6. QED
  BY <1>2, <1>3, <1>5

(* An extra item that matches is in its own list, or it was found before:  *)
(* then it is in the first list, behind the search, or it was freed.       *)
LEMMA Found ==
  ASSUME Types, NEW C, NEW r, Known(C, r), pc = "merge", pos # cfg
  PROVE  /\ pos \in C /\ pos \in Ids /\ pos \in Live
         /\ nxt = next[pos] /\ nxt \in C /\ nxt # pos
         /\ nxt = cfg \/ r[pos] < r[nxt]
         /\ epos \in Ids /\ enext \in Live \ C /\ enext # epos /\ enext # pos
         /\ C \subseteq Live /\ cfg \in C /\ ext \notin C
         /\ Sound(epos) => epos \in Live /\ epos # pos /\ epos # nxt
<1>1. /\ Merging(C, r) /\ C \subseteq Live /\ cfg \in C /\ ext \notin C
      /\ C \in SUBSET Nodes /\ r \in [Nodes -> Nat]
  BY DEF Known, Rings
<1>2. /\ pos \in C /\ nxt = next[pos] /\ enext \in Live \ C /\ epos \in Ids /\ epos # enext
      /\ \/ epos \in Live \ C
         \/ epos \in C /\ r[epos] < r[pos]
         \/ epos \notin Live /\ ~Sound(epos)
  BY <1>1 DEF Merging
<1>3. pos \in C \ {cfg} /\ r[pos] \in Nat
  BY <1>1, <1>2
<1>5. pos \in Ids /\ pos \in Live
  BY <1>1, <1>3 DEF Live, Heads
<1>6. nxt \in C /\ (nxt = cfg \/ r[pos] < r[nxt]) /\ nxt # pos
  <2>1. nxt \in C /\ (nxt \notin Heads => r[pos] < r[nxt])
    BY <1>1, <1>2, <1>5, Along
  <2>2. nxt = cfg \/ r[pos] < r[nxt]
    BY <1>1, <2>1 DEF Heads
  <2>3. QED
    BY <1>3, <2>1, <2>2
<1>7. ASSUME Sound(epos) PROVE epos \in Live /\ epos # pos /\ epos # nxt
  <2>1. CASE epos \in Live \ C
    BY <1>2, <1>6, <2>1
  <2>2. CASE epos \in C /\ r[epos] < r[pos]
    <3>1. epos \in Live /\ r[epos] \in Nat /\ epos # cfg
      BY <1>1, <1>2, <2>2, NodeFacts
    <3>2. epos # nxt
      <4>1. CASE nxt = cfg
        BY <3>1, <4>1
      <4>2. CASE r[pos] < r[nxt]
        BY <1>3, <2>2, <3>1, <4>2
      <4>3. QED
        BY <1>6, <4>1, <4>2
    <3>3. QED
      BY <1>3, <2>2, <3>1, <3>2
  <2>3. QED
    BY <1>2, <1>7, <2>1, <2>2
<1>8. QED
  BY <1>1, <1>2, <1>3, <1>5, <1>6, <1>7

LEMMA Overwrite ==
  ASSUME NEW S, NEW old \in Seq(S), NEW add \in Seq(S)
  PROVE  [k \in DOMAIN old |-> IF k <= Len(add) THEN add[k] ELSE old[k]] \in Seq(S)
<1>1. PICK a, o \in Nat : a = Len(add) /\ o = Len(old)
  BY LenProperties
<1>2. DOMAIN old = 1..o /\ \A k \in 1..o : old[k] \in S
  BY <1>1, LenProperties, ElementOfSeq
<1>3. \A k \in 1..a : add[k] \in S
  BY <1>1, ElementOfSeq
<1>4. \A k \in 1..o : k <= a => k \in 1..a
  BY SMT
<1>5. \A k \in 1..o : (IF k <= a THEN add[k] ELSE old[k]) \in S
  BY <1>2, <1>3, <1>4
<1>6. [k \in 1..o |-> IF k <= a THEN add[k] ELSE old[k]] \in [1..o -> S]
  BY <1>5, Zenon
<1>7. PICK new : new = [k \in 1..o |-> IF k <= a THEN add[k] ELSE old[k]]
  OBVIOUS
<1>8. new \in Seq(S)
  BY <1>6, <1>7, SeqDef, Zenon
<1>9. QED
  BY <1>1, <1>2, <1>7, <1>8, Zenon

LEMMA UpdateStep == ASSUME IInv, MergeUpdate PROVE IInv'
<1>1. PICK C, r : Known(C, r)
  BY DEF IInv
<1>2. Types /\ pc = "merge" /\ pos # cfg
  BY DEF IInv, MergeUpdate
<1>s. CASE ~Sound(epos)
  <2>1. UNCHANGED <<input, heap>> /\ pc' = "crash"
    BY <1>s DEF MergeUpdate, heap
  <2>2. QED
    BY <2>1, StopStep
<1>u. CASE Sound(epos)
  <2>3. /\ pos \in C /\ pos \in Ids /\ pos \in Live
        /\ nxt = next[pos] /\ nxt \in C /\ nxt # pos
        /\ nxt = cfg \/ r[pos] < r[nxt]
        /\ epos \in Ids /\ enext \in Live \ C /\ enext # epos /\ enext # pos
        /\ C \subseteq Live /\ cfg \in C /\ ext \notin C
        /\ epos \in Live /\ epos # pos /\ epos # nxt
    BY <1>1, <1>2, <1>u, Found
  <2>4. epos \in Live /\ epos \notin Heads
    BY <2>3, NodeFacts DEF Heads
  <2>k. PICK K : K = C \ {epos}
    OBVIOUS
  <2>5. Linked(Live \ {epos}, K, DelNext(epos), DelPrev(epos), r)
    BY <1>1, <1>2, <2>4, <2>k, TakenOut
  <2>6. /\ item' = [item EXCEPT ![pos].data =
                       [k \in DOMAIN @ |-> IF k <= Len(item[epos].data)
                                           THEN item[epos].data[k] ELSE @[k]]]
        /\ next' = DelNext(epos) /\ prev' = DelPrev(epos)
        /\ freed' = freed \cup {epos} /\ alloc' = alloc /\ input' = input /\ pc' = "merge"
        /\ pos' = nxt /\ nxt' = next'[nxt] /\ epos' = epos /\ enext' = enext
    BY <1>2, <1>u DEF MergeUpdate, Step
  <2>7. Live' = Live \ {epos} /\ freed' \in SUBSET (1..alloc')
    BY <1>2, <2>4, <2>6, FreeLive
  <2>9. item' \in [Ids -> ItemType]
    <3> DEFINE old == item[pos].data
               add == item[epos].data
               new == [k \in DOMAIN old |-> IF k <= Len(add) THEN add[k] ELSE old[k]]
    <3>1. item[pos] \in ItemType /\ item[epos] \in ItemType
      BY <1>2, <2>3 DEF Types
    <3>2. old \in Seq(0..255) /\ add \in Seq(0..255) /\ item[pos].ofs \in Offset
      BY <3>1, SMT DEF ItemType
    <3>3. new \in Seq(0..255)
      BY <3>2, Overwrite, Zenon
    <3> HIDE DEF new
    <3>4. item' = [item EXCEPT ![pos] = [item[pos] EXCEPT !.data = new]]
      BY <2>6 DEF new
    <3>5. [item[pos] EXCEPT !.data = new] \in ItemType
      BY <3>1, <3>3, SMT DEF ItemType
    <3>6. PICK x \in ItemType : item' = [item EXCEPT ![pos] = x]
      BY <3>4, <3>5
    <3>7. QED
      BY <1>2, <3>6 DEF Types
  <2>10. Types'
    BY <1>2, <2>5, <2>6, <2>7, <2>9 DEF Types, Linked, Typed
  <2>12. Merging(K, r)'
    <3>1. epos' \notin Live' /\ ~Sound(epos)'
      <4>1. epos \in Nodes /\ next \in Links
        BY <1>2, <2>3, NodeFacts DEF Types
      <4>2. next'[epos] = Poison
        BY <2>6, <4>1 DEF DelNext, Links
      <4>3. QED
        BY <2>6, <2>7, <4>2 DEF Sound
    <3>2. enext' \in Live' \ K /\ epos' \in Ids /\ epos' # enext'
      BY <2>3, <2>6, <2>7, <2>k
    <3>4. pos' \in K /\ nxt' = next'[pos']
      BY <2>3, <2>6, <2>k
    <3>5. QED
      BY <3>1, <3>2, <3>4 DEF Merging
  <2>13. Known(K, r)'
    <3>1. Reading(K)' /\ Parsing(K)'
      BY <2>6 DEF Reading, Parsing
    <3>2. K \in SUBSET Nodes /\ r \in [Nodes -> Nat] /\ Rings(Live', K, next', prev', r)
      BY <2>5, <2>6, <2>7 DEF Linked, Typed
    <3>3. QED
      BY <2>12, <3>1, <3>2 DEF Known
  <2>14. QED
    BY <2>6, <2>10, <2>13 DEF IInv
<1>3. QED
  BY <1>s, <1>u

LEMMA ReplaceStep == ASSUME IInv, MergeReplace PROVE IInv'
<1>1. PICK C, r : Known(C, r)
  BY DEF IInv
<1>2. Types /\ pc = "merge" /\ pos # cfg
  BY DEF IInv, MergeReplace
<1>s. CASE ~Sound(epos)
  <2>1. UNCHANGED <<input, heap>> /\ pc' = "crash"
    BY <1>s DEF MergeReplace, heap
  <2>2. QED
    BY <2>1, StopStep
<1>u. CASE Sound(epos)
  <2>3. /\ pos \in C /\ pos \in Ids /\ pos \in Live
        /\ nxt = next[pos] /\ nxt \in C /\ nxt # pos
        /\ nxt = cfg \/ r[pos] < r[nxt]
        /\ epos \in Ids /\ enext \in Live \ C /\ enext # epos /\ enext # pos
        /\ C \subseteq Live /\ cfg \in C /\ ext \notin C
        /\ epos \in Live /\ epos # pos /\ epos # nxt
    BY <1>1, <1>2, <1>u, Found
  <2>4. epos \in Live /\ epos \notin Heads /\ pos \notin Heads
    BY <1>2, <2>3, NodeFacts DEF Heads
  <2>5. PICK L, D, dn, dp : /\ L = Live \ {epos} /\ D = C \ {epos}
                            /\ dn = DelNext(epos) /\ dp = DelPrev(epos)
    BY Zenon
  <2>6. Linked(L, D, dn, dp, r)
    BY <1>1, <1>2, <2>4, <2>5, TakenOut
  <2>7. /\ next' = [dn EXCEPT ![epos] = dn[pos], ![dp[pos]] = epos, ![pos] = pos]
        /\ prev' = [dp EXCEPT ![epos] = dp[pos], ![dn[pos]] = epos, ![pos] = pos]
        /\ freed' = freed \cup {pos} /\ alloc' = alloc /\ input' = input /\ pc' = "merge"
        /\ pos' = nxt /\ nxt' = next'[nxt] /\ epos' = epos /\ enext' = enext /\ item' = item
    BY <1>2, <1>u, <2>5 DEF MergeReplace, Step
  <2>8. PICK p, e, K, q : p = pos /\ e = epos /\ K = (D \ {pos}) \cup {epos}
                             /\ q = [r EXCEPT ![epos] = r[pos]]
    BY Zenon
  <2>9. L \in SUBSET Nodes /\ dn \in Links /\ dp \in Links /\ r \in [Nodes -> Nat]
        /\ Rings(L, D, dn, dp, r)
    BY <1>2, <2>5, <2>6, LiveNodes DEF Linked, Typed
  <2>10. Linked((L \ {p}) \cup {e}, (D \ {p}) \cup {e}, next', prev', q)
    <3>1. p \in D /\ p \notin Heads /\ e \in Ids /\ e \notin L
      BY <2>3, <2>4, <2>5, <2>8
    <3>2. PICK f1, g1 : f1 = next' /\ g1 = prev'
      OBVIOUS
    <3>3. /\ f1 = [dn EXCEPT ![e] = dn[p], ![dp[p]] = e, ![p] = p]
          /\ g1 = [dp EXCEPT ![e] = dp[p], ![dn[p]] = e, ![p] = p]
          /\ q = [r EXCEPT ![e] = r[p]]
      BY <2>7, <2>8, <3>2
    <3>4. Linked((L \ {p}) \cup {e}, (D \ {p}) \cup {e}, f1, g1, q)
      BY <2>9, <3>1, <3>3, ReplaceRings, Zenon
    <3>5. QED
      BY <3>2, <3>4
  <2>11. Live' = (L \ {p}) \cup {e} /\ freed' \in SUBSET (1..alloc')
    <3>1. Live' = Live \ {pos} /\ freed' \in SUBSET (1..alloc')
      BY <1>2, <2>3, <2>4, <2>7, FreeLive
    <3>2. QED
      BY <2>3, <2>5, <2>8, <3>1
  <2>12. Linked(Live', K, next', prev', q)
    BY <2>8, <2>10, <2>11
  <2>13. Types'
    BY <1>2, <2>7, <2>11, <2>12 DEF Types, Linked, Typed
  <2>16. Merging(K, q)'
    <3>1. pos' \in K /\ nxt' = next'[pos'] /\ epos' \in K
      BY <2>3, <2>5, <2>7, <2>8
    <3>2. enext' \in Live' \ K /\ epos' \in Ids /\ epos' # enext'
      BY <2>3, <2>5, <2>7, <2>8, <2>11
    <3>4. pos' = cfg \/ q[epos'] < q[pos']
      <4>1. epos \in Nodes /\ nxt # epos /\ nxt \in Nodes
        BY <2>3, LiveNodes, <1>2
      <4>2. q[epos] = r[pos] /\ q[nxt] = r[nxt]
        BY <2>8, <2>9, <4>1
      <4>3. QED
        BY <2>3, <2>7, <4>2
    <3>5. QED
      BY <3>1, <3>2, <3>4 DEF Merging
  <2>17. Known(K, q)'
    <3>1. Reading(K)' /\ Parsing(K)'
      BY <2>7 DEF Reading, Parsing
    <3>2. K \in SUBSET Nodes /\ q \in [Nodes -> Nat] /\ Rings(Live', K, next', prev', q)
      BY <2>12 DEF Linked, Typed
    <3>3. QED
      BY <2>16, <3>1, <3>2 DEF Known
  <2>18. QED
    BY <2>7, <2>13, <2>17 DEF IInv
<1>3. QED
  BY <1>s, <1>u

LEMMA AppendStep == ASSUME IInv, AppendNew PROVE IInv'
<1>1. PICK C, r : Known(C, r)
  BY DEF IInv
<1>2. Types /\ next[ext] # ext /\ pc' = "append"
      /\ UNCHANGED <<input, item, freed, alloc>>
  BY DEF IInv, AppendNew
<1>3. PICK n : n = next[ext]
  OBVIOUS
<1>4. n \in Live /\ n \notin Heads /\ n \in Ids /\ n \notin C
  <2>1. ext \in Live \ C /\ cfg \in C
    BY <1>1 DEF Known, Rings
  <2>2. n \in Live \ C
    BY <1>1, <1>3, <2>1, Along
  <2>3. QED
    BY <1>2, <1>3, <2>1, <2>2 DEF Live, Heads
<1>5. PICK L, dn, dp : L = Live \ {n} /\ dn = DelNext(n) /\ dp = DelPrev(n)
  OBVIOUS
<1>6. Linked(L, C, dn, dp, r)
  <2>1. C \ {n} = C
    BY <1>4
  <2>2. QED
    BY <1>1, <1>2, <1>4, <1>5, <2>1, TakenOut
<1>7. /\ next' = [dn EXCEPT ![n] = cfg, ![dp[cfg]] = n]
      /\ prev' = [dp EXCEPT ![cfg] = n, ![n] = dp[cfg]]
  BY <1>3, <1>5 DEF AppendNew
<1>8. PICK h, K, q : h = cfg /\ q = [r EXCEPT ![n] = r[dp[h]] + 1]
                     /\ K = IF h = cfg THEN C \cup {n} ELSE C
  OBVIOUS
<1>9. Linked(L \cup {n}, K, next', prev', q)
  <2>1. L \in SUBSET Nodes /\ dn \in Links /\ dp \in Links /\ r \in [Nodes -> Nat]
        /\ Rings(L, C, dn, dp, r) /\ h \in Heads /\ n \notin L
    BY <1>2, <1>5, <1>6, <1>8, LiveNodes DEF Linked, Typed, Heads
  <2>2. PICK f1, g1 : f1 = next' /\ g1 = prev'
    OBVIOUS
  <2>3. /\ f1 = [dn EXCEPT ![n] = h, ![dp[h]] = n]
        /\ g1 = [dp EXCEPT ![h] = n, ![n] = dp[h]]
    BY <1>7, <1>8, <2>2
  <2>4. Linked(L \cup {n}, K, f1, g1, q)
    BY <1>4, <1>8, <2>1, <2>3, InsertRings, Zenon
  <2>5. QED
    BY <2>2, <2>4
<1>10. Live' = L \cup {n}
  BY <1>2, <1>4, <1>5, SameLive
<1>11. /\ item' \in [Ids -> ItemType] /\ freed' \in SUBSET (1..alloc')
       /\ alloc' \in 0..MaxItems
  BY <1>2 DEF Types
<1>12. Linked(Live', K, next', prev', q)
  BY <1>9, <1>10
<1>13. QED
  BY <1>2, <1>11, <1>12, Relinked, Zenon

LEMMA FreeItemStep == ASSUME IInv, FreeItem PROVE IInv'
<1>1. PICK C, r : Known(C, r)
  BY DEF IInv
<1>2. Types /\ next[cfg] # cfg /\ input' = input /\ pc = "free"
  BY DEF IInv, FreeItem
<1>3. PICK n : n = next[cfg]
  OBVIOUS
<1>4. n \in Live /\ n \notin Heads
  <2>1. cfg \in Live /\ cfg \in C /\ ext \notin C
    BY <1>1 DEF Known, Rings
  <2>2. n \in Live /\ n \in C
    BY <1>1, <1>3, <2>1, Along
  <2>3. QED
    BY <1>2, <1>3, <2>1, <2>2 DEF Heads
<1>5. n \notin freed
  BY <1>4 DEF Live
<1>6. Sound(n) /\ Linked(Live \ {n}, C \ {n}, DelNext(n), DelPrev(n), r)
  BY <1>1, <1>2, <1>4, TakenOut
<1>7. /\ next' = DelNext(n) /\ prev' = DelPrev(n) /\ freed' = freed \cup {n}
      /\ pc' = "free" /\ item' = item /\ alloc' = alloc
  BY <1>2, <1>3, <1>5, <1>6 DEF FreeItem
<1>8. Live' = Live \ {n} /\ freed' \in SUBSET (1..alloc')
  BY <1>2, <1>4, <1>7, FreeLive
<1>9. item' \in [Ids -> ItemType] /\ alloc' \in 0..MaxItems
  BY <1>2, <1>7 DEF Types
<1>10. PICK K : K = C \ {n}
  OBVIOUS
<1>11. Linked(Live', K, next', prev', r)
  BY <1>6, <1>7, <1>8, <1>10
<1>12. pc' \in {"append", "emit", "free"}
  BY <1>7
<1>13. QED
  BY <1>2, <1>8, <1>9, <1>11, <1>12, Relinked, Zenon

LEMMA FreeDoneStep == ASSUME IInv, FreeDone PROVE IInv'
<1>1. UNCHANGED <<input, heap>> /\ pc' \in {"none", "done"}
      /\ next[ext] = ext /\ next[cfg] = cfg
  BY DEF FreeDone
<1>2. PICK C, r : Known(C, r)
  BY DEF IInv
<1>3. Live = Heads
  <2>1. /\ Live \in SUBSET Nodes /\ next \in Links /\ prev \in Links
        /\ r \in [Nodes -> Nat] /\ Rings(Live, C, next, prev, r)
    BY <1>2, LiveNodes DEF IInv, Known, Types
  <2>a. cfg \in Heads /\ ext \in Heads /\ ext # cfg
    BY NodeFacts DEF Heads
  <2>b. PICK L : L = Live
    OBVIOUS
  <2>c. L \in SUBSET Nodes /\ Rings(L, C, next, prev, r)
    BY <2>1, <2>b
  <2>2. C = {cfg}
    <3>1. IF cfg = cfg THEN C = {cfg} ELSE L \ C = {ext}
      BY <1>1, <2>1, <2>a, <2>c, EmptyRing, Zenon
    <3>2. QED
      BY <3>1
  <2>3. Live \ C = {ext}
    <3>1. IF ext = cfg THEN C = {cfg} ELSE L \ C = {ext}
      BY <1>1, <2>1, <2>a, <2>c, EmptyRing, Zenon
    <3>2. QED
      BY <2>a, <2>b, <3>1
  <2>4. C \subseteq Live
    BY <2>1 DEF Rings
  <2>5. QED
    BY <2>2, <2>3, <2>4 DEF Heads
<1>4. ASSUME NEW D, NEW q, Known(D, q)
      PROVE  Reading(D)' /\ Parsing(D)' /\ Merging(D, q)'
  BY <1>1 DEF Reading, Parsing, Merging
<1>5. QED
  BY <1>1, <1>3, <1>4, SameHeap DEF Places

LEMMA IdleStep == ASSUME IInv, UNCHANGED vars PROVE IInv'
<1>1. PICK C, r : Known(C, r)
  BY DEF IInv
<1>2. Live' = Live /\ next' = next /\ prev' = prev /\ item' = item /\ pc' = pc
      /\ input' = input
  BY SameLive DEF vars, heap
<1>3. Types'
  BY DEF IInv, Types, vars, heap
<1>4. Reading(C)' /\ Parsing(C)' /\ Merging(C, r)'
  <2>1. /\ line' = line /\ alloc' = alloc /\ bytes' = bytes /\ Given' = Given
        /\ pos' = pos /\ nxt' = nxt /\ epos' = epos /\ enext' = enext
    BY DEF vars, heap, cursors, Given
  <2>b. Base' = Base /\ (Sound(epos)' <=> Sound(epos))
    BY <1>2, <2>1 DEF Base, Sound
  <2>2. Reading(C)'
    BY <1>1, <1>2, <2>1 DEF Known, Reading
  <2>3. Parsing(C)'
    BY <1>1, <1>2, <2>1, <2>b, Zenon DEF Known, Parsing
  <2>4. Merging(C, r)'
    BY <1>1, <1>2, <2>1, <2>b, Zenon DEF Known, Merging
  <2>5. QED
    BY <2>2, <2>3, <2>4
<1>5. Known(C, r)'
  BY <1>1, <1>2, <1>4 DEF Known
<1>6. QED
  BY <1>2, <1>3, <1>5 DEF IInv

(* Whatever the files say, items of one offset and files that could not be *)
(* read included, both lists are whole rings of live items at every step,  *)
(* up to the place where the code's behaviour is undefined, and when a     *)
(* configuration was returned no item is left (merge_configs,              *)
(* config_lists_free).                                                     *)
THEOREM ListsWhole == FilesSpec => []RingsWhole
<1>1. FilesInit => IInv
  BY InitIInv DEF FilesInit
<1>2. IInv /\ [FilesNext]_FilesVars => IInv'
  <2>1. SUFFICES ASSUME IInv, Next \/ UNCHANGED vars PROVE IInv'
    BY DEF FilesNext, ConfigStep, FirmwareStep, FilesVars
  <2>2. QED
    BY <2>1, LineStep, MacStep, FileStep, ParseStep, CutStep, EmptyStep, BeginStep, OtherStep,
       UpdateStep, ReplaceStep, NextStep, AppendStep, DoneStep, FreeSpliceStep,
       FreeItemStep, FreeDoneStep, IdleStep DEF Next, Finished
<1>3. QED
  BY <1>1, <1>2, InvWhole, PTL DEF FilesSpec

-----------------------------------------------------------------------------

(* Induction up to n, with a set for the property.                         *)
LEMMA UpTo ==
  ASSUME NEW n \in Nat, NEW T, 0 \in T, \A k \in 0..n : k < n /\ k \in T => k + 1 \in T
  PROVE  \A k \in 0..n : k \in T
<1> DEFINE Bad == {k \in 0..n : k \notin T}
<1> SUFFICES ASSUME Bad # {} PROVE FALSE
  OBVIOUS
<1>1. Bad \subseteq Nat
  BY SMT
<1>2. PICK m \in Bad : \A l \in Bad : m <= l
  BY <1>1, LeastOf, Zenon
<1>3. m \in 0..n /\ m \notin T /\ m # 0
  OBVIOUS
<1>4. m - 1 \in 0..n /\ ~(m <= m - 1) /\ (m - 1) + 1 = m /\ m - 1 < n
  BY <1>3, SMT
<1>5. m - 1 \in T
  BY <1>2, <1>4
<1>6. QED
  BY <1>3, <1>4, <1>5

(* Recursion up to n: S is what each step makes of the value before.       *)
Stepper(S, n, D) == S \in [(1..n) \X D -> D]
Unrolled(f, S, n, D, a) ==
  f \in [0..n -> D] /\ f[0] = a /\ \A k \in 1..n : f[k] = S[<<k, f[k - 1]>>]

LEMMA Recursion ==
  ASSUME NEW D, NEW a \in D, NEW n \in Nat, NEW S, Stepper(S, n, D)
  PROVE  \E f : Unrolled(f, S, n, D, a)
<1> DEFINE Good(m) == \E f \in [0..m -> D] :
                        f[0] = a /\ \A k \in 1..m : f[k] = S[<<k, f[k - 1]>>]
           T == {m \in 0..n : Good(m)}
<1>1. 0 \in T
  <2> DEFINE f == [k \in 0..0 |-> a]
  <2>1. f \in [0..0 -> D] /\ f[0] = a /\ \A k \in 1..0 : f[k] = S[<<k, f[k - 1]>>]
    BY SMT
  <2>2. 0 \in 0..n
    BY SMT
  <2>3. QED
    BY <2>1, <2>2
<1>2. ASSUME NEW m \in 0..n, m < n, m \in T PROVE m + 1 \in T
  <2>1. PICK f \in [0..m -> D] : f[0] = a /\ \A k \in 1..m : f[k] = S[<<k, f[k - 1]>>]
    BY <1>2
  <2> DEFINE g == [k \in 0..(m + 1) |-> IF k = m + 1 THEN S[<<k, f[k - 1]>>] ELSE f[k]]
  <2>2. /\ m \in Nat /\ m + 1 \in 0..n /\ m + 1 \in 1..n /\ m \in 0..m /\ (m + 1) - 1 = m
        /\ m + 1 \in 0..(m + 1) /\ 0 \in 0..(m + 1) /\ 0 # m + 1
    BY <1>2, SMT
  <2>3. S[<<m + 1, f[m]>>] \in D
    BY <2>2 DEF Stepper
  <2>4. g \in [0..(m + 1) -> D]
    <3>1. \A k \in 0..(m + 1) : k # m + 1 => k \in 0..m
      BY <2>2, SMT
    <3>2. \A k \in 0..(m + 1) : g[k] \in D
      BY <2>2, <2>3, <3>1
    <3>3. QED
      BY <3>2
  <2>5. g[0] = a
    BY <2>1, <2>2
  <2>6. ASSUME NEW k \in 1..(m + 1) PROVE g[k] = S[<<k, g[k - 1]>>]
    <3>1. k - 1 \in 0..(m + 1) /\ k - 1 # m + 1 /\ k \in 0..(m + 1) /\ (k # m + 1 => k \in 1..m)
      BY <2>2, SMT
    <3>2. g[k - 1] = f[k - 1]
      BY <3>1
    <3>3. QED
      BY <2>1, <3>1, <3>2
  <2> HIDE DEF g
  <2>7. Good(m + 1)
    BY <2>4, <2>5, <2>6
  <2>8. QED
    BY <2>2, <2>7
<1>3. \A m \in 0..n : m \in T
  <2> HIDE DEF T
  <2>1. QED
    BY <1>1, <1>2, UpTo
<1>4. n \in 0..n
  BY SMT
<1>5. QED
  BY <1>3, <1>4, Zenon DEF Unrolled

(* p is in f, behind the first m.                                          *)
Holds(f, m, p) == m + Len(p) <= Len(f) /\ \A j \in 1..Len(p) : f[m + j] = p[j]

LEMMA HoldsFront ==
  ASSUME NEW S, NEW a \in Seq(S), NEW b \in Seq(S), NEW p \in Seq(S), NEW m \in Nat,
         Holds(a, m, p)
  PROVE  Holds(a \o b, m, p)
<1>1. PICK x, y, z \in Nat : x = Len(a) /\ y = Len(b) /\ z = Len(p)
  BY LenProperties
<1>2. Follow(S, Cat(a, b), a, b, x, y)
  BY <1>1, Behind
<1>3. m + z <= x /\ \A j \in 1..z : a[m + j] = p[j]
  BY <1>1 DEF Holds
<1>4. \A j \in 1..z : m + j \in 1..x
  BY <1>3, SMT
<1>5. Len(Cat(a, b)) = x + y /\ \A j \in 1..z : Cat(a, b)[m + j] = p[j]
  BY <1>2, <1>3, <1>4 DEF Follow
<1>6. m + z <= x + y
  BY <1>3, SMT
<1>7. QED
  BY <1>1, <1>5, <1>6 DEF Holds, Cat

LEMMA HoldsBack ==
  ASSUME NEW S, NEW a \in Seq(S), NEW b \in Seq(S)
  PROVE  Holds(a \o b, Len(a), b)
<1>1. PICK x, y \in Nat : x = Len(a) /\ y = Len(b)
  BY LenProperties
<1>2. Follow(S, Cat(a, b), a, b, x, y)
  BY <1>1, Behind
<1>3. QED
  BY <1>1, <1>2 DEF Follow, Holds, Cat

LEMMA HoldsIn ==
  ASSUME NEW S, NEW f \in Seq(S), NEW p \in Seq(S), NEW q \in Seq(S),
         NEW m \in Nat, NEW l \in Nat, Holds(f, m, p), Holds(p, l, q)
  PROVE  Holds(f, m + l, q)
<1>1. PICK x, y, z \in Nat : x = Len(f) /\ y = Len(p) /\ z = Len(q)
  BY LenProperties
<1>2. /\ m + y <= x /\ \A j \in 1..y : f[m + j] = p[j]
      /\ l + z <= y /\ \A j \in 1..z : p[l + j] = q[j]
  BY <1>1 DEF Holds
<1>3. (m + l) + z <= x /\ \A j \in 1..z : l + j \in 1..y /\ (m + l) + j = m + (l + j)
  BY <1>2, SMT
<1>4. \A j \in 1..z : f[(m + l) + j] = q[j]
  BY <1>2, <1>3
<1>5. QED
  BY <1>1, <1>3, <1>4 DEF Holds

LEMMA HoldsSlice ==
  ASSUME NEW S, NEW f \in Seq(S), NEW p \in Seq(S), NEW m \in Nat, Holds(f, m, p)
  PROVE  SubSeq(f, m + 1, m + Len(p)) = p
<1>1. PICK x, y \in Nat : x = Len(f) /\ y = Len(p)
  BY LenProperties
<1>2. m + y <= x /\ \A j \in 1..y : f[m + j] = p[j]
  BY <1>1 DEF Holds
<1>3. Within(S, Slice(f, m, y), f, m, y)
  BY <1>1, <1>2, Part
<1>4. Len(Slice(f, m, y)) = Len(p)
  BY <1>1, <1>3, Zenon DEF Within
<1>5. \A k \in 1..Len(Slice(f, m, y)) : Slice(f, m, y)[k] = p[k]
  BY <1>2, <1>3, Zenon DEF Within
<1>6. Slice(f, m, y) = p
  BY <1>3, <1>4, <1>5, SeqEqual, Zenon DEF Within
<1>7. QED
  BY <1>1, <1>6 DEF Slice

IsStack(S, from, parts, end) ==
  /\ from \in [0..Len(parts) -> Seq(S)] /\ from[0] = end
  /\ \A k \in 1..Len(parts) : from[k] = parts[k] \o from[k - 1]

(* The parts of a file, from each on.                                      *)
LEMMA StackedSteps ==
  ASSUME NEW S, NEW parts \in Seq(Seq(S)), NEW end \in Seq(S),
         NEW from, from = Fw!Stacked(parts, end)
  PROVE  IsStack(S, from, parts, end)
<1> DEFINE n == Len(parts)
           D == Seq(S)
           Built(g) == [k \in 0..n |-> IF k = 0 THEN end ELSE parts[k] \o g[k - 1]]
           F == [p \in (1..n) \X D |-> parts[p[1]] \o p[2]]
<1>1. n \in Nat /\ \A k \in 1..n : parts[k] \in D
  BY LenProperties, ElementOfSeq
<1>2. Stepper(F, n, D)
  BY <1>1, ConcatProperties DEF Stepper
<1> HIDE DEF n, D, F
<1>3. end \in D
  BY DEF D
<1>a. n \in Nat
  BY <1>1
<1>b. PICK f : Unrolled(f, F, n, D, end)
  BY <1>a, <1>2, <1>3, Recursion, Zenon
<1>4. f \in [0..n -> D] /\ f[0] = end /\ \A k \in 1..n : f[k] = F[<<k, f[k - 1]>>]
  BY <1>b DEF Unrolled
<1>5. \A k \in 0..n : k # 0 => k \in 1..n /\ k - 1 \in 0..n
  BY <1>1, SMT
<1>6. \A k \in 1..n : k - 1 \in 0..n /\ k \in 0..n /\ k # 0
  BY <1>1, SMT
<1>7. \A k \in 1..n : f[k] = parts[k] \o f[k - 1]
  BY <1>4, <1>6 DEF F
<1>8. f = Built(f)
  <2>1. \A k \in 0..n : f[k] = IF k = 0 THEN end ELSE parts[k] \o f[k - 1]
    BY <1>4, <1>5, <1>7
  <2>2. f = [k \in 0..n |-> f[k]]
    BY <1>4
  <2>3. QED
    BY <2>1, <2>2, Zenon
<1>9. Fw!Stacked(parts, end) = CHOOSE g : g = Built(g)
  BY DEF Fw!Stacked, n
<1>10. PICK g : g = Fw!Stacked(parts, end)
  OBVIOUS
<1>11. g = Built(g)
  BY <1>8, <1>9, <1>10, Zenon
<1>c. \A k \in 0..n : g[k] = IF k = 0 THEN end ELSE parts[k] \o g[k - 1]
  BY <1>11, Zenon
<1>12. g[0] = end /\ \A k \in 1..n : g[k] = parts[k] \o g[k - 1]
  <2>1. 0 \in 0..n
    BY <1>1, SMT
  <2>2. QED
    BY <1>6, <1>c, <2>1, Zenon
<1> DEFINE T == {k \in 0..n : g[k] = f[k]}
<1>13. \A k \in 0..n : k \in T
  <2>1. 0 \in T
    <3>1. 0 \in 0..n /\ g[0] = f[0]
      BY <1>1, <1>4, <1>12
    <3>2. QED
      BY <3>1
  <2>2. ASSUME NEW k \in 0..n, k < n, k \in T PROVE k + 1 \in T
    <3>1. k + 1 \in 1..n /\ (k + 1) - 1 = k /\ k + 1 \in 0..n
      BY <1>1, <2>2, SMT
    <3>2. QED
      BY <1>7, <1>12, <2>2, <3>1
  <2> HIDE DEF T
  <2>3. QED
    BY <1>1, <2>1, <2>2, UpTo
<1>14. g \in [0..n -> D]
  BY <1>4, <1>11, <1>13
<1>15. QED
  BY <1>10, <1>12, <1>14, Zenon DEF n, D, IsStack

Ends(f, t) == Len(t) <= Len(f) /\ Holds(f, Len(f) - Len(t), t)

EndsTwo(f, p, u, t) ==
  /\ Ends(f, u) /\ Holds(f, Len(f) - Len(t), p)
  /\ Len(f) - Len(t) \in Nat /\ Len(t) = Len(p) + Len(u)

LEMMA EndsIn ==
  ASSUME NEW S, NEW f \in Seq(S), NEW p \in Seq(S), NEW u \in Seq(S),
         NEW t, t = p \o u, Ends(f, t)
  PROVE  EndsTwo(f, p, u, t)
<1>1. PICK x, y, z \in Nat : x = Len(f) /\ y = Len(p) /\ z = Len(u)
  BY LenProperties
<1>2. t \in Seq(S) /\ Len(t) = y + z
  BY <1>1, ConcatProperties
<1>3. x - (y + z) + (y + z) = x /\ x - (y + z) \in Nat /\ x - (y + z) + y = x - z
  <2>1. x \in Nat /\ y \in Nat /\ z \in Nat
    OBVIOUS
  <2>2. x >= y + z
    BY <1>1, <1>2, <2>1 DEF Ends
  <2>3. QED
    BY <2>1, <2>2
<1>4. Holds(t, y, u)
  BY <1>1, HoldsBack
<1>5. Holds(t, 0, p)
  <2>1. Follow(S, Cat(p, u), p, u, y, z)
    BY <1>1, Behind
  <2>2. QED
    BY <1>1, <2>1 DEF Follow, Holds, Cat
<1> DEFINE m == x - (y + z)
<1>6. Holds(f, m, t) /\ m \in Nat /\ m + y = x - z /\ m + 0 = m
  BY <1>1, <1>2, <1>3 DEF Ends
<1> HIDE DEF m
<1>7. Holds(f, m + y, u) /\ Holds(f, m + 0, p)
  <2>1. y \in Nat /\ 0 \in Nat
    OBVIOUS
  <2>2. Holds(f, m + y, u)
    BY <1>2, <1>4, <1>6, <2>1, HoldsIn
  <2>3. Holds(f, m + 0, p)
    BY <1>2, <1>5, <1>6, <2>1, HoldsIn
  <2>4. QED
    BY <2>2, <2>3
<1>8. Ends(f, u)
  <2>1. z <= x
    BY <1>3, <1>6
  <2>2. QED
    BY <1>1, <1>6, <1>7, <2>1 DEF Ends
<1>9. Len(f) - Len(t) = m /\ Len(t) = Len(p) + Len(u)
  BY <1>1, <1>2 DEF m
<1>10. QED
  BY <1>6, <1>7, <1>8, <1>9 DEF EndsTwo

LEMMA EndsSelf == ASSUME NEW S, NEW f \in Seq(S) PROVE Ends(f, f)
<1>1. PICK x \in Nat : x = Len(f)
  BY LenProperties
<1>2. x - x = 0 /\ 0 + x <= x /\ x <= x /\ \A j \in 1..x : 0 + j = j
  BY SMT
<1>3. QED
  BY <1>1, <1>2 DEF Ends, Holds

(* What is stacked is there from each part on.                             *)
LEMMA StackedEnds ==
  ASSUME NEW S, NEW parts \in Seq(Seq(S)), NEW end \in Seq(S), NEW f \in Seq(S),
         NEW from, from = Fw!Stacked(parts, end), Ends(f, from[Len(parts)])
  PROVE  \A k \in 0..Len(parts) : Ends(f, from[k])
<1> DEFINE n == Len(parts)
           T == {m \in 0..n : Ends(f, from[n - m])}
<1>1. n \in Nat /\ \A k \in 1..n : parts[k] \in Seq(S)
  BY LenProperties, ElementOfSeq
<1>0. IsStack(S, from, parts, end)
  BY StackedSteps
<1>2. from \in [0..n -> Seq(S)] /\ \A k \in 1..n : from[k] = parts[k] \o from[k - 1]
  BY <1>0 DEF IsStack
<1>3. Ends(f, from[n])
  OBVIOUS
<1> HIDE DEF n
<1>4. 0 \in T
  <2>1. 0 \in 0..n /\ n - 0 = n
    BY <1>1, SMT
  <2>2. QED
    BY <1>3, <2>1
<1>5. ASSUME NEW m \in 0..n, m < n, m \in T PROVE m + 1 \in T
  <2>1. n - m \in 1..n /\ n - (m + 1) = (n - m) - 1 /\ (n - m) - 1 \in 0..n /\ m + 1 \in 0..n
    BY <1>1, <1>5, SMT
  <2>2. Ends(f, parts[n - m] \o from[(n - m) - 1])
    BY <1>2, <1>5, <2>1
  <2>3. parts[n - m] \in Seq(S) /\ from[(n - m) - 1] \in Seq(S)
    BY <1>1, <1>2, <2>1
  <2>4. Ends(f, from[(n - m) - 1])
    <3>1. PICK p, u, t : p = parts[n - m] /\ u = from[(n - m) - 1] /\ t = p \o u
      OBVIOUS
    <3>2. p \in Seq(S) /\ u \in Seq(S) /\ Ends(f, t)
      BY <2>2, <2>3, <3>1
    <3>3. EndsTwo(f, p, u, t)
      BY <3>1, <3>2, EndsIn
    <3>4. QED
      BY <3>1, <3>3 DEF EndsTwo
  <2>5. QED
    BY <2>1, <2>4
<1>6. \A m \in 0..n : m \in T
  <2> HIDE DEF T
  <2>1. QED
    BY <1>1, <1>4, <1>5, UpTo
<1>7. ASSUME NEW k \in 0..n PROVE Ends(f, from[k])
  <2>1. n - k \in 0..n /\ n - (n - k) = k
    BY <1>1, SMT
  <2>2. QED
    BY <1>6, <2>1
<1>8. QED
  BY <1>7 DEF n

Two(f, x, y, z) == Holds(f, 0, x) /\ Holds(f, Len(x), y) /\ Len(z) = Len(x) + Len(y)

LEMMA PrefixIn ==
  ASSUME NEW S, NEW f \in Seq(S), NEW x \in Seq(S), NEW y \in Seq(S),
         NEW z, z = x \o y, Holds(f, 0, z)
  PROVE  Two(f, x, y, z)
<1>1. PICK a, b \in Nat : a = Len(x) /\ b = Len(y)
  BY LenProperties
<1>2. x \o y \in Seq(S) /\ Len(x \o y) = a + b
  BY <1>1, ConcatProperties
<1>3. Holds(x \o y, a, y)
  BY <1>1, HoldsBack
<1>4. Holds(x \o y, 0, x)
  <2>1. Follow(S, Cat(x, y), x, y, a, b)
    BY <1>1, Behind
  <2>2. QED
    BY <1>1, <2>1 DEF Follow, Holds, Cat
<1>5. 0 + 0 = 0 /\ 0 + a = a /\ 0 \in Nat
  BY SMT
<1>6. Holds(f, 0 + 0, x)
  BY <1>2, <1>4, <1>5, HoldsIn
<1>7. Holds(f, 0 + a, y)
  BY <1>2, <1>3, <1>5, HoldsIn
<1>8. QED
  BY <1>1, <1>2, <1>5, <1>6, <1>7 DEF Two

LEMMA HoldsSelf == ASSUME NEW S, NEW f \in Seq(S) PROVE Holds(f, 0, f)
  BY LenProperties, SMT DEF Holds

LEMMA Le16Is ==
  ASSUME NEW x \in Nat
  PROVE  /\ Fw!Le16(x) \in Seq(Nat) /\ Len(Fw!Le16(x)) = 2
         /\ Fw!Le16(x)[1] \in Nat /\ Fw!Le16(x)[2] \in Nat
         /\ Fw!Le16(x)[1] + 256 * Fw!Le16(x)[2] = x
<1>1. PICK p, q \in Nat : p = x % 256 /\ q = x \div 256 /\ p + 256 * q = x
  BY Bytes16
<1>2. Fw!Le16(x) = <<p, q>>
  BY <1>1 DEF Fw!Le16
<1>3. QED
  BY <1>1, <1>2

LEMMA Words32 == ASSUME NEW x \in Nat
                 PROVE  /\ x % 65536 \in Nat /\ x \div 65536 \in Nat
                        /\ (x % 65536) + 65536 * (x \div 65536) = x
  BY SMT

Bytes32(b, x) ==
  /\ b \in Seq(Nat) /\ Len(b) = 4
  /\ b[1] \in Nat /\ b[2] \in Nat /\ b[3] \in Nat /\ b[4] \in Nat
  /\ (b[1] + 256 * b[2]) + 65536 * (b[3] + 256 * b[4]) = x

LEMMA Le32Is == ASSUME NEW x \in Nat PROVE Bytes32(Fw!Le32(x), x)
<1>1. PICK p, q \in Nat : p = x % 65536 /\ q = x \div 65536 /\ p + 65536 * q = x
  BY Words32
<1>2. PICK u, v : u = Fw!Le16(p) /\ v = Fw!Le16(q)
  OBVIOUS
<1>3. /\ u \in Seq(Nat) /\ Len(u) = 2 /\ u[1] \in Nat /\ u[2] \in Nat /\ u[1] + 256 * u[2] = p
      /\ v \in Seq(Nat) /\ Len(v) = 2 /\ v[1] \in Nat /\ v[2] \in Nat /\ v[1] + 256 * v[2] = q
  BY <1>2, Le16Is
<1>4. PICK b : b = Fw!Le32(x)
  OBVIOUS
<1>5. b = Cat(u, v)
  <2>1. b = Fw!Le16(x % 65536) \o Fw!Le16(x \div 65536)
    BY <1>4 DEF Fw!Le32
  <2>2. b = Fw!Le16(p) \o Fw!Le16(q)
    BY <1>1, <2>1
  <2>3. QED
    BY <1>2, <2>2 DEF Cat
<1>6. Follow(Nat, b, u, v, 2, 2)
  BY <1>3, <1>5, Behind
<1>7. /\ b \in Seq(Nat) /\ Len(b) = 4 /\ b[1] = u[1] /\ b[2] = u[2]
      /\ b[2 + 1] = v[1] /\ b[2 + 2] = v[2]
  BY <1>6 DEF Follow
<1>8. b[3] = v[1] /\ b[4] = v[2]
  BY <1>7, SMT
<1>9. (b[1] + 256 * b[2]) + 65536 * (b[3] + 256 * b[4]) = x
  <2>1. b[1] = u[1] /\ b[2] = u[2] /\ u[1] + 256 * u[2] = p
    BY <1>3, <1>7
  <2>2. b[1] + 256 * b[2] = p
    BY <2>1
  <2>3. b[3] = v[1] /\ b[4] = v[2] /\ v[1] + 256 * v[2] = q
    BY <1>3, <1>8
  <2>4. b[3] + 256 * b[4] = q
    BY <2>3
  <2>5. p + 65536 * q = x
    BY <1>1
  <2>6. QED
    BY <2>2, <2>4, <2>5
<1>10. Bytes32(b, x)
  BY <1>3, <1>7, <1>8, <1>9 DEF Bytes32
<1>11. QED
  BY <1>4, <1>10

IsArray16(a, ns) ==
  /\ a \in Seq(Nat) /\ Len(a) = 2 * Len(ns)
  /\ \A k \in 1..Len(ns) : a[2 * (k - 1) + 1] + 256 * a[2 * (k - 1) + 2] = ns[k]
IsArray32(a, ns) ==
  /\ a \in Seq(Nat) /\ Len(a) = 4 * Len(ns)
  /\ \A k \in 1..Len(ns) :
       (a[4 * (k - 1) + 1] + 256 * a[4 * (k - 1) + 2])
         + 65536 * (a[4 * (k - 1) + 3] + 256 * a[4 * (k - 1) + 4]) = ns[k]

LEMMA Array16Is == ASSUME NEW ns \in Seq(Nat) PROVE IsArray16(Fw!Array16(ns), ns)
<1>1. PICK n \in Nat : n = Len(ns)
  BY LenProperties
<1>2. \A k \in 1..n : ns[k] \in Nat
  BY <1>1
<1>3. PICK a : a = Fw!Array16(ns)
  OBVIOUS
<1>4. a = [j \in 1..(2 * n) |-> Fw!Le16(ns[1 + (j - 1) \div 2])[1 + ((j - 1) % 2)]]
  BY <1>1, <1>3 DEF Fw!Array16
<1>5. ASSUME NEW j \in 1..(2 * n)
      PROVE  /\ 1 + (j - 1) \div 2 \in 1..n
             /\ 1 + ((j - 1) % 2) = 1 \/ 1 + ((j - 1) % 2) = 2
  BY SMT
<1>6. \A j \in 1..(2 * n) : a[j] \in Nat
  BY <1>2, <1>4, <1>5, Le16Is, Zenon
<1>7. a \in Seq(Nat) /\ Len(a) = 2 * n
  BY <1>4, <1>6
<1>8. ASSUME NEW k \in 1..n PROVE a[2 * (k - 1) + 1] + 256 * a[2 * (k - 1) + 2] = ns[k]
  <2>1. PICK l \in Nat : l = k - 1
    BY SMT
  <2>2. /\ 2 * l + 1 \in 1..(2 * n) /\ 2 * l + 2 \in 1..(2 * n)
        /\ 1 + ((2 * l + 1) - 1) \div 2 = k /\ 1 + ((2 * l + 2) - 1) \div 2 = k
        /\ 1 + (((2 * l + 1) - 1) % 2) = 1 /\ 1 + (((2 * l + 2) - 1) % 2) = 2
    BY <2>1, SMT
  <2>3. a[2 * l + 1] = Fw!Le16(ns[k])[1] /\ a[2 * l + 2] = Fw!Le16(ns[k])[2]
    BY <1>4, <2>2, Zenon
  <2>4. QED
    BY <1>2, <2>1, <2>3, Le16Is
<1>9. QED
  BY <1>1, <1>3, <1>7, <1>8 DEF IsArray16

LEMMA Array32Is == ASSUME NEW ns \in Seq(Nat) PROVE IsArray32(Fw!Array32(ns), ns)
<1>1. PICK n \in Nat : n = Len(ns)
  BY LenProperties
<1>2. \A k \in 1..n : ns[k] \in Nat
  BY <1>1
<1>3. PICK a : a = Fw!Array32(ns)
  OBVIOUS
<1>4. a = [j \in 1..(4 * n) |-> Fw!Le32(ns[1 + (j - 1) \div 4])[1 + ((j - 1) % 4)]]
  BY <1>1, <1>3 DEF Fw!Array32
<1>5. ASSUME NEW j \in 1..(4 * n)
      PROVE  /\ 1 + (j - 1) \div 4 \in 1..n
             /\ \/ 1 + ((j - 1) % 4) = 1 \/ 1 + ((j - 1) % 4) = 2
                \/ 1 + ((j - 1) % 4) = 3 \/ 1 + ((j - 1) % 4) = 4
  BY SMT
<1>6. ASSUME NEW j \in 1..(4 * n) PROVE a[j] \in Nat
  <2>1. PICK b : b = Fw!Le32(ns[1 + (j - 1) \div 4])
    OBVIOUS
  <2>2. Bytes32(b, ns[1 + (j - 1) \div 4])
    BY <1>2, <1>5, <2>1, Le32Is, Zenon
  <2>3. a[j] = b[1 + ((j - 1) % 4)]
    BY <1>4, <2>1, Zenon
  <2>4. QED
    <3>1. b[1] \in Nat /\ b[2] \in Nat /\ b[3] \in Nat /\ b[4] \in Nat
      BY <2>2 DEF Bytes32
    <3>2. QED
      BY <1>5, <2>3, <3>1, Zenon
<1>7. a \in Seq(Nat) /\ Len(a) = 4 * n
  BY <1>4, <1>6
<1>8. ASSUME NEW k \in 1..n
      PROVE  (a[4 * (k - 1) + 1] + 256 * a[4 * (k - 1) + 2])
               + 65536 * (a[4 * (k - 1) + 3] + 256 * a[4 * (k - 1) + 4]) = ns[k]
  <2>1. PICK l \in Nat : l = k - 1
    BY SMT
  <2>2. /\ 4 * l + 1 \in 1..(4 * n) /\ 4 * l + 2 \in 1..(4 * n)
        /\ 4 * l + 3 \in 1..(4 * n) /\ 4 * l + 4 \in 1..(4 * n)
        /\ 1 + ((4 * l + 1) - 1) \div 4 = k /\ 1 + ((4 * l + 2) - 1) \div 4 = k
        /\ 1 + ((4 * l + 3) - 1) \div 4 = k /\ 1 + ((4 * l + 4) - 1) \div 4 = k
        /\ 1 + (((4 * l + 1) - 1) % 4) = 1 /\ 1 + (((4 * l + 2) - 1) % 4) = 2
        /\ 1 + (((4 * l + 3) - 1) % 4) = 3 /\ 1 + (((4 * l + 4) - 1) % 4) = 4
    BY <2>1, SMT
  <2>3. PICK b : b = Fw!Le32(ns[k])
    OBVIOUS
  <2>4. a[4 * l + 1] = b[1] /\ a[4 * l + 2] = b[2] /\ a[4 * l + 3] = b[3] /\ a[4 * l + 4] = b[4]
    BY <1>4, <2>2, <2>3, Zenon
  <2>5. (b[1] + 256 * b[2]) + 65536 * (b[3] + 256 * b[4]) = ns[k]
    <3>1. Bytes32(b, ns[k])
      BY <1>2, <2>3, Le32Is, Zenon
    <3>2. QED
      BY <3>1 DEF Bytes32
  <2>6. QED
    BY <2>1, <2>4, <2>5
<1>9. QED
  BY <1>1, <1>3, <1>7, <1>8 DEF IsArray32

(* What the assumption says of an image.                                   *)
WellMade(im) ==
  /\ im.patches \in Seq(Fw!PatchType) /\ im.fields \in Seq(Fw!FieldType)
  /\ im.version \in Seq(Nat) /\ Len(im.version) = 4 /\ im.fields # << >>

LEMMA BytesNat == Fw!Bytes \subseteq Nat
  BY SMT DEF Fw!Bytes

LEMMA BytesOfIs == ASSUME NEW a, NEW b, NEW d \in Fw!BytesOf(a, b)
                   PROVE  d \in Seq(Nat) /\ a <= Len(d) /\ Len(d) <= b
<1>1. d \in Seq(Fw!Bytes) /\ a <= Len(d) /\ Len(d) <= b
  BY DEF Fw!BytesOf
<1>2. QED
  BY <1>1, BytesNat, SeqMonotonic, Zenon

LEMMA ImageTyped == ASSUME NEW im \in Images PROVE WellMade(im)
<1>1. /\ im \in Fw!ImageType(Seq(Fw!PatchType), Seq(Fw!FieldType), Fw!BytesOf(4, 4))
      /\ im.fields # << >>
  BY ImagesAssumption
<1>2. /\ im.patches \in Seq(Fw!PatchType) /\ im.fields \in Seq(Fw!FieldType)
      /\ im.version \in Fw!BytesOf(4, 4)
  BY <1>1, SMT DEF Fw!ImageType
<1>3. im.version \in Seq(Nat) /\ Len(im.version) = 4
  <2>1. im.version \in Seq(Nat) /\ 4 <= Len(im.version) /\ Len(im.version) <= 4
    BY <1>2, BytesOfIs
  <2>2. Len(im.version) \in Nat
    BY <2>1, LenProperties
  <2>3. PICK l \in Nat : l = Len(im.version)
    BY <2>2
  <2>a. 4 <= l /\ l <= 4
    BY <2>1, <2>3, Zenon
  <2>4. l = 4
    BY <2>a, SMT
  <2>5. QED
    BY <2>1, <2>3, <2>4
<1>4. QED
  BY <1>1, <1>2, <1>3 DEF WellMade

LEMMA WordNat == ASSUME NEW x \in Fw!Words PROVE x \in Nat
  BY SMT DEF Fw!Words

LEMMA PatchTyped ==
  ASSUME NEW t \in Fw!PatchType
  PROVE  t.chip \in Nat /\ t.data \in Seq(Nat) /\ Len(t.data) \in Nat /\ Len(t.data) >= 4
<1>1. t.chip \in Fw!Words /\ t.data \in Fw!BytesOf(4, 65535)
  BY SMT DEF Fw!PatchType
<1>2. t.data \in Seq(Nat) /\ 4 <= Len(t.data)
  BY <1>1, BytesOfIs
<1>a. Len(t.data) \in Nat
  BY <1>2, LenProperties
<1>3. Len(t.data) \in Nat /\ Len(t.data) >= 4
  BY <1>a, <1>2, SMT
<1>4. t.chip \in Nat
  BY <1>1, WordNat
<1>5. QED
  BY <1>2, <1>3, <1>4

LEMMA FieldTyped ==
  ASSUME NEW t \in Fw!FieldType
  PROVE  /\ t.op \in Nat /\ t.op # 255 /\ t.data \in Seq(Nat) /\ Len(t.data) \in Nat
         /\ Fw!Field(t) \in Seq(Nat) /\ Len(Fw!Field(t)) = Len(t.data) + 2
         /\ \A j \in 1..Len(t.data) : Fw!Field(t)[j] = t.data[j]
         /\ Fw!Field(t)[Len(t.data) + 1] = Len(t.data)
         /\ Fw!Field(t)[Len(t.data) + 2] = t.op
<1>1. t.op \in 0..254 /\ t.data \in Fw!BytesOf(0, 255)
  BY SMT DEF Fw!FieldType
<1>2. t.data \in Seq(Nat)
  BY <1>1, BytesOfIs
<1>3. t.op \in Nat /\ t.op # 255
  BY <1>1, SMT
<1>4. PICK l \in Nat : l = Len(t.data)
  BY <1>2, LenProperties
<1>5. PICK d, e : d = t.data /\ e = <<l, t.op>>
  OBVIOUS
<1>6. d \in Seq(Nat) /\ e \in Seq(Nat) /\ Len(e) = 2 /\ e[1] = l /\ e[2] = t.op
  BY <1>2, <1>3, <1>5
<1>7. PICK f : f = Fw!Field(t)
  OBVIOUS
<1>8. f = Cat(d, e)
  BY <1>4, <1>5, <1>7 DEF Cat, Fw!Field
<1>9. Follow(Nat, f, d, e, l, 2)
  BY <1>4, <1>5, <1>6, <1>8, Behind
<1>10. /\ f \in Seq(Nat) /\ Len(f) = l + 2 /\ \A j \in 1..l : f[j] = d[j]
       /\ f[l + 1] = l /\ f[l + 2] = t.op
  BY <1>6, <1>9 DEF Follow
<1>11. QED
  BY <1>2, <1>3, <1>4, <1>5, <1>7, <1>10

LEMMA MagicTyped ==
  /\ Fw!smagic \in Seq(Nat) /\ Len(Fw!smagic) = 8
  /\ Fw!emagic \in Seq(Nat) /\ Len(Fw!emagic) = 4
  BY DEF Fw!smagic, Fw!emagic

(* The extension section from each field on.                               *)
FieldsOf(im) == [k \in DOMAIN im.fields |-> Fw!Field(im.fields[k])]
LEMMA SectionIs ==
  ASSUME NEW im, WellMade(im)
  PROVE  /\ FieldsOf(im) \in Seq(Seq(Nat)) /\ Len(FieldsOf(im)) = Len(im.fields)
         /\ IsStack(Nat, Fw!Section(im.fields), FieldsOf(im), Fw!emagic)
<1>1. PICK n \in Nat : n = Len(im.fields)
  BY LenProperties DEF WellMade
<1>2. \A k \in 1..n : im.fields[k] \in Fw!FieldType
  BY <1>1, ElementOfSeq DEF WellMade
<1>3. \A k \in 1..n : Fw!Field(im.fields[k]) \in Seq(Nat)
  BY <1>2, FieldTyped
<1>4. PICK p : p = FieldsOf(im)
  OBVIOUS
<1>5. p = [k \in 1..n |-> Fw!Field(im.fields[k])]
  BY <1>1, <1>4 DEF FieldsOf, WellMade
<1>6. p \in Seq(Seq(Nat)) /\ Len(p) = n
  BY <1>3, <1>5
<1>7. Fw!Section(im.fields) = Fw!Stacked(p, Fw!emagic)
  BY <1>4 DEF FieldsOf, Fw!Section
<1>8. IsStack(Nat, Fw!Section(im.fields), p, Fw!emagic)
  BY <1>6, <1>7, MagicTyped, StackedSteps
<1>9. QED
  BY <1>1, <1>4, <1>6, <1>8

(* The data of the patches, from each patch on.                            *)
DatasOf(im) == Fw!Reverse([k \in DOMAIN im.patches |-> im.patches[k].data])
BehindData(im) == <<255>> \o Fw!Section(im.fields)[Len(im.fields)]
LEMMA DataIs ==
  ASSUME NEW im, WellMade(im)
  PROVE  /\ DatasOf(im) \in Seq(Seq(Nat)) /\ Len(DatasOf(im)) = Len(im.patches)
         /\ \A k \in 1..Len(im.patches) :
              DatasOf(im)[Len(im.patches) + 1 - k] = im.patches[k].data
         /\ BehindData(im) \in Seq(Nat) /\ Fw!Section(im.fields)[Len(im.fields)] \in Seq(Nat)
         /\ IsStack(Nat, Fw!Data(im), DatasOf(im), BehindData(im))
<1>1. PICK n, m \in Nat : n = Len(im.patches) /\ m = Len(im.fields)
  BY LenProperties DEF WellMade
<1>2. \A k \in 1..n : im.patches[k].data \in Seq(Nat)
  <2>1. \A k \in 1..n : im.patches[k] \in Fw!PatchType
    BY <1>1, ElementOfSeq DEF WellMade
  <2>2. QED
    BY <2>1, PatchTyped
<1>3. PICK p, d : p = DatasOf(im) /\ d = [k \in 1..n |-> im.patches[k].data]
  OBVIOUS
<1>4. d \in Seq(Seq(Nat)) /\ Len(d) = n
  BY <1>2, <1>3
<1>5. p = [k \in 1..n |-> d[(n - k) + 1]]
  <2>a. DOMAIN im.patches = 1..n
    BY <1>1 DEF WellMade
  <2>1. p = Fw!Reverse(d)
    BY <1>3, <2>a, Zenon DEF DatasOf
  <2>2. QED
    BY <1>4, <2>1 DEF Fw!Reverse
<1>6. \A k \in 1..n : (n - k) + 1 \in 1..n /\ n + 1 - k \in 1..n /\ (n - (n + 1 - k)) + 1 = k
  BY SMT
<1>7. p \in Seq(Seq(Nat)) /\ Len(p) = n
  <2>1. \A k \in 1..n : p[k] \in Seq(Nat)
    BY <1>2, <1>3, <1>5, <1>6
  <2>2. p \in [1..n -> Seq(Nat)] /\ DOMAIN p = 1..n
    BY <1>5, <2>1
  <2>3. PICK D : D = Seq(Nat)
    OBVIOUS
  <2>4. p \in [1..n -> D] /\ n \in Nat
    BY <1>1, <2>2, <2>3
  <2>5. p \in Seq(D)
    BY <2>4, SeqDef, Zenon
  <2>6. Len(p) = n
    BY <1>1, <2>2, <2>5, LenProperties
  <2>7. QED
    BY <2>3, <2>5, <2>6
<1>8. \A k \in 1..n : p[n + 1 - k] = im.patches[k].data
  BY <1>3, <1>5, <1>6
<1>9. PICK s : s = Fw!Section(im.fields)[m]
  OBVIOUS
<1>10. s \in Seq(Nat)
  <2>1. IsStack(Nat, Fw!Section(im.fields), FieldsOf(im), Fw!emagic) /\ Len(FieldsOf(im)) = m
    BY <1>1, SectionIs
  <2>2. m \in 0..m
    BY SMT
  <2>3. QED
    BY <1>9, <2>1, <2>2 DEF IsStack
<1>11. BehindData(im) \in Seq(Nat)
  <2>1. BehindData(im) = <<255>> \o s
    BY <1>1, <1>9 DEF BehindData
  <2>2. <<255>> \in Seq(Nat)
    BY SMT
  <2>3. QED
    BY <1>10, <2>1, <2>2, ConcatProperties
<1>12. Fw!Data(im) = Fw!Stacked(p, BehindData(im))
  BY <1>3, Zenon DEF DatasOf, BehindData, Fw!Data
<1>13. IsStack(Nat, Fw!Data(im), p, BehindData(im))
  BY <1>7, <1>11, <1>12, StackedSteps
<1>14. QED
  BY <1>1, <1>3, <1>7, <1>8, <1>9, <1>10, <1>11, <1>13

(* A row of seven.                                                         *)
Rowed(S, f, a, b, c, d, e, g, h) ==
  /\ f \in Seq(S)
  /\ Len(f) = Len(a) + Len(b) + Len(c) + Len(d) + Len(e) + Len(g) + Len(h)
  /\ Holds(f, 0, a) /\ Holds(f, Len(a), b) /\ Holds(f, Len(a) + Len(b), c)
  /\ Holds(f, Len(a) + Len(b) + Len(c), d)
  /\ Holds(f, Len(a) + Len(b) + Len(c) + Len(d), e)
  /\ Holds(f, Len(a) + Len(b) + Len(c) + Len(d) + Len(e), g)
  /\ Holds(f, Len(a) + Len(b) + Len(c) + Len(d) + Len(e) + Len(g), h)

LEMMA RowOfSeven ==
  ASSUME NEW S, NEW a \in Seq(S), NEW b \in Seq(S), NEW c \in Seq(S), NEW d \in Seq(S),
         NEW e \in Seq(S), NEW g \in Seq(S), NEW h \in Seq(S),
         NEW f, f = a \o b \o c \o d \o e \o g \o h
  PROVE  Rowed(S, f, a, b, c, d, e, g, h)
<1>1. PICK p : p = a \o b
  OBVIOUS
<1>2. PICK q : q = p \o c
  OBVIOUS
<1>3. PICK r : r = q \o d
  OBVIOUS
<1>4. PICK s : s = r \o e
  OBVIOUS
<1>5. PICK t : t = s \o g
  OBVIOUS
<1>6. f = t \o h
  BY <1>1, <1>2, <1>3, <1>4, <1>5
<1>7. p \in Seq(S)
  BY <1>1, ConcatProperties
<1>8. q \in Seq(S)
  BY <1>2, <1>7, ConcatProperties
<1>9. r \in Seq(S)
  BY <1>3, <1>8, ConcatProperties
<1>10. s \in Seq(S)
  BY <1>4, <1>9, ConcatProperties
<1>11. t \in Seq(S)
  BY <1>5, <1>10, ConcatProperties
<1>12. f \in Seq(S)
  BY <1>6, <1>11, ConcatProperties
<1>13. Holds(f, 0, f)
  BY <1>12, HoldsSelf
<1>14. Two(f, t, h, f)
  BY <1>6, <1>11, <1>12, <1>13, PrefixIn
<1>15. Two(f, s, g, t)
  <2>1. Holds(f, 0, t)
    BY <1>14 DEF Two
  <2>2. QED
    BY <1>5, <1>10, <1>12, <2>1, PrefixIn
<1>16. Two(f, r, e, s)
  <2>1. Holds(f, 0, s)
    BY <1>15 DEF Two
  <2>2. QED
    BY <1>4, <1>9, <1>12, <2>1, PrefixIn
<1>17. Two(f, q, d, r)
  <2>1. Holds(f, 0, r)
    BY <1>16 DEF Two
  <2>2. QED
    BY <1>3, <1>8, <1>12, <2>1, PrefixIn
<1>18. Two(f, p, c, q)
  <2>1. Holds(f, 0, q)
    BY <1>17 DEF Two
  <2>2. QED
    BY <1>2, <1>7, <1>12, <2>1, PrefixIn
<1>19. Two(f, a, b, p)
  <2>1. Holds(f, 0, p)
    BY <1>18 DEF Two
  <2>2. QED
    BY <1>1, <1>12, <2>1, PrefixIn
<1>20. QED
  BY <1>12, <1>14, <1>15, <1>16, <1>17, <1>18, <1>19, Zenon DEF Rowed, Two

(* Where everything is in an image f.                                      *)
ChipsOf(im)  == [k \in DOMAIN im.patches |-> im.patches[k].chip]
LensOf(im)   == [k \in DOMAIN im.patches |-> Len(im.patches[k].data)]
StartsOf(im) == [k \in DOMAIN im.patches |-> Fw!Start(im, k)]
Layout(im, f, n, m) ==
  /\ f \in Seq(Nat)
  /\ Holds(f, 0, Fw!smagic) /\ Holds(f, 8, im.version) /\ Holds(f, 12, Fw!Le16(n))
  /\ Holds(f, 14, Fw!Array16(ChipsOf(im))) /\ Holds(f, 14 + 2 * n, Fw!Array16(LensOf(im)))
  /\ Holds(f, 14 + 4 * n, Fw!Array32(StartsOf(im)))
  /\ Ends(f, Fw!Data(im)[n]) /\ Len(f) = 14 + 8 * n + Len(Fw!Data(im)[n])

LEMMA StartIs ==
  ASSUME NEW im, WellMade(im), NEW n \in Nat, n = Len(im.patches), NEW k \in 1..n
  PROVE  /\ Len(Fw!Data(im)[n]) \in Nat /\ Len(Fw!Data(im)[n + 1 - k]) \in Nat
         /\ Fw!Start(im, k) \in Nat /\ Fw!Start(im, k) >= 14
         /\ Fw!Start(im, k) = 14 + 8 * n + (Len(Fw!Data(im)[n]) - Len(Fw!Data(im)[n + 1 - k]))
<1>1. PICK d, p, e : d = Fw!Data(im) /\ p = DatasOf(im) /\ e = BehindData(im)
  OBVIOUS
<1>2. p \in Seq(Seq(Nat)) /\ Len(p) = n /\ e \in Seq(Nat) /\ IsStack(Nat, d, p, e)
  BY <1>1, DataIs
<1>3. d = Fw!Stacked(p, e)
  BY <1>1, Zenon DEF DatasOf, BehindData, Fw!Data
<1>4. n \in 0..n /\ n + 1 - k \in 0..n
  BY SMT
<1>5. d[n] \in Seq(Nat) /\ d[n + 1 - k] \in Seq(Nat)
  BY <1>2, <1>4 DEF IsStack
<1>6. PICK x, y \in Nat : x = Len(d[n]) /\ y = Len(d[n + 1 - k])
  BY <1>5, LenProperties
<1>7. Ends(d[n], d[n])
  <2>1. Holds(d[n], 0, d[n])
    BY <1>5, HoldsSelf
  <2>2. x - x = 0 /\ x <= x
    BY SMT
  <2>3. QED
    BY <1>6, <2>1, <2>2 DEF Ends
<1>8. Ends(d[n], d[n + 1 - k])
  BY <1>2, <1>3, <1>4, <1>5, <1>7, StackedEnds
<1>9. y <= x
  BY <1>6, <1>8 DEF Ends
<1>10. Fw!Start(im, k) = 14 + 8 * n + (x - y)
  BY <1>1, <1>6 DEF Fw!Start, Fw!HdrLen
<1>11. 14 + 8 * n + (x - y) \in Nat /\ 14 + 8 * n + (x - y) >= 14
  BY <1>9, SMT
<1>12. QED
  BY <1>1, <1>6, <1>10, <1>11

LEMMA FileIs ==
  ASSUME NEW im, WellMade(im), NEW n \in Nat, n = Len(im.patches),
         NEW m \in Nat, m = Len(im.fields)
  PROVE  Layout(im, Fw!File(im), n, m)
<1>1. DOMAIN im.patches = 1..n /\ \A k \in 1..n : im.patches[k] \in Fw!PatchType
  BY ElementOfSeq DEF WellMade
<1>2. \A k \in 1..n : im.patches[k].chip \in Nat /\ Len(im.patches[k].data) \in Nat
  BY <1>1, PatchTyped
<1>3. \A k \in 1..n : Fw!Start(im, k) \in Nat
  BY StartIs
<1>4. PICK u, v, w : u = ChipsOf(im) /\ v = LensOf(im) /\ w = StartsOf(im)
  OBVIOUS
<1>5. /\ u = [k \in 1..n |-> im.patches[k].chip]
      /\ v = [k \in 1..n |-> Len(im.patches[k].data)]
      /\ w = [k \in 1..n |-> Fw!Start(im, k)]
  BY <1>1, <1>4 DEF ChipsOf, LensOf, StartsOf
<1>6. u \in Seq(Nat) /\ v \in Seq(Nat) /\ w \in Seq(Nat) /\ Len(u) = n /\ Len(v) = n /\ Len(w) = n
  BY <1>2, <1>3, <1>5
<1>7. PICK a, b, c, d, e, g, h :
        /\ a = Fw!smagic /\ b = im.version /\ c = Fw!Le16(n) /\ d = Fw!Array16(u)
        /\ e = Fw!Array16(v) /\ g = Fw!Array32(w) /\ h = Fw!Data(im)[n]
  OBVIOUS
<1>8. a \in Seq(Nat) /\ Len(a) = 8 /\ b \in Seq(Nat) /\ Len(b) = 4
  BY <1>7, MagicTyped DEF WellMade
<1>9. c \in Seq(Nat) /\ Len(c) = 2
  BY <1>7, Le16Is
<1>10. d \in Seq(Nat) /\ Len(d) = 2 * n /\ e \in Seq(Nat) /\ Len(e) = 2 * n
  BY <1>6, <1>7, Array16Is DEF IsArray16
<1>11. g \in Seq(Nat) /\ Len(g) = 4 * n
  <2>1. IsArray32(g, w)
    BY <1>6, <1>7, Array32Is
  <2>2. QED
    BY <1>6, <2>1 DEF IsArray32
<1>12. h \in Seq(Nat)
  <2>1. Len(DatasOf(im)) = n /\ IsStack(Nat, Fw!Data(im), DatasOf(im), BehindData(im))
    BY DataIs
  <2>2. n \in 0..n
    BY SMT
  <2>3. QED
    BY <1>7, <2>1, <2>2 DEF IsStack
<1>13. PICK f : f = Fw!File(im)
  OBVIOUS
<1>14. f = a \o b \o c \o d \o e \o g \o h
  <2>1. f = Fw!smagic \o im.version \o Fw!Le16(Len(im.patches)) \o Fw!Array16(ChipsOf(im))
            \o Fw!Array16(LensOf(im)) \o Fw!Array32(StartsOf(im))
            \o Fw!Data(im)[Len(im.patches)]
    BY <1>13, Zenon DEF Fw!File, ChipsOf, LensOf, StartsOf
  <2>2. f = Fw!smagic \o im.version \o Fw!Le16(n) \o Fw!Array16(u)
            \o Fw!Array16(v) \o Fw!Array32(w) \o Fw!Data(im)[n]
    BY <1>4, <2>1
  <2>3. QED
    BY <1>7, <2>2
<1>15. Rowed(Nat, f, a, b, c, d, e, g, h)
  <2>1. /\ a \in Seq(Nat) /\ b \in Seq(Nat) /\ c \in Seq(Nat) /\ d \in Seq(Nat)
        /\ e \in Seq(Nat) /\ g \in Seq(Nat) /\ h \in Seq(Nat)
    BY <1>8, <1>9, <1>10, <1>11, <1>12
  <2>2. QED
    BY <1>14, <2>1, RowOfSeven
<1>16. PICK l \in Nat : l = Len(h)
  BY <1>12, LenProperties
<1>17. /\ 8 + 4 = 12 /\ 8 + 4 + 2 = 14 /\ 8 + 4 + 2 + 2 * n = 14 + 2 * n
       /\ 8 + 4 + 2 + 2 * n + 2 * n = 14 + 4 * n
       /\ 8 + 4 + 2 + 2 * n + 2 * n + 4 * n = 14 + 8 * n
       /\ 8 + 4 + 2 + 2 * n + 2 * n + 4 * n + l = 14 + 8 * n + l
       /\ (14 + 8 * n + l) - l = 14 + 8 * n /\ l <= 14 + 8 * n + l
  BY SMT
<1>18. /\ f \in Seq(Nat) /\ Len(f) = 14 + 8 * n + l
       /\ Holds(f, 0, a) /\ Holds(f, 8, b) /\ Holds(f, 12, c) /\ Holds(f, 14, d)
       /\ Holds(f, 14 + 2 * n, e) /\ Holds(f, 14 + 4 * n, g) /\ Holds(f, 14 + 8 * n, h)
  BY <1>8, <1>9, <1>10, <1>11, <1>15, <1>16, <1>17 DEF Rowed
<1>19. Ends(f, h)
  BY <1>16, <1>17, <1>18 DEF Ends
<1>20. QED
  BY <1>4, <1>7, <1>13, <1>16, <1>18, <1>19, Zenon DEF Layout

(* The extension section is at the end of f, behind a byte of 255.         *)
LEMMA SectionEnds ==
  ASSUME NEW im, WellMade(im), NEW n \in Nat, n = Len(im.patches),
         NEW m \in Nat, m = Len(im.fields), NEW f, Layout(im, f, n, m),
         NEW sec, sec = Fw!Section(im.fields)
  PROVE  /\ \A k \in 0..m : /\ sec[k] \in Seq(Nat) /\ Ends(f, sec[k])
                            /\ 15 + Len(sec[k]) <= Len(f)
         /\ f[Len(f) - Len(sec[m])] = 255
<1>1. PICK ps, e : ps = FieldsOf(im) /\ e = Fw!emagic
  OBVIOUS
<1>2. ps \in Seq(Seq(Nat)) /\ Len(ps) = m /\ IsStack(Nat, sec, ps, e) /\ e \in Seq(Nat)
  BY <1>1, SectionIs, MagicTyped
<1>3. 0 \in 0..m /\ m \in 0..m /\ 0 \in 0..n /\ n \in 0..n
  BY SMT
<1>4. PICK h \in Seq(Nat) : h = Fw!Section(im.fields)[m] /\ h = sec[m]
  BY <1>2, <1>3 DEF IsStack
<1>5. PICK b \in Seq(Nat) : b = BehindData(im) /\ b = <<255>> \o h
  BY <1>4, DataIs DEF BehindData
<1>6. PICK dat, qs : dat = Fw!Data(im) /\ qs = DatasOf(im)
  OBVIOUS
<1>7. qs \in Seq(Seq(Nat)) /\ Len(qs) = n /\ IsStack(Nat, dat, qs, b)
  BY <1>5, <1>6, DataIs
<1>8. dat = Fw!Stacked(qs, b)
  BY <1>5, <1>6, Zenon DEF DatasOf, BehindData, Fw!Data
<1>9. PICK c \in Seq(Nat) : c = dat[n]
  BY <1>3, <1>7 DEF IsStack
<1>10. f \in Seq(Nat) /\ Ends(f, c) /\ Len(f) = 14 + 8 * n + Len(c)
  BY <1>6, <1>9 DEF Layout
<1>11. dat[0] = b
  BY <1>7 DEF IsStack
<1>12. Ends(f, b)
  BY <1>3, <1>7, <1>8, <1>9, <1>10, <1>11, StackedEnds
<1>13. Ends(c, b)
  <2>1. Ends(c, c)
    BY EndsSelf
  <2>2. Ends(c, dat[Len(qs)])
    BY <1>3, <1>7, <1>8, <1>9, <1>11, <2>1
  <2>3. \A k \in 0..Len(qs) : Ends(c, dat[k])
    BY <1>3, <1>7, <1>8, <1>9, <1>11, <2>2, StackedEnds
  <2>4. QED
    BY <1>3, <1>7, <1>8, <1>9, <1>11, <2>3
<1>14. PICK w \in Seq(Nat) : w = <<255>> /\ Len(w) = 1 /\ w[1] = 255
  <2>1. PICK w : w = <<255>>
    OBVIOUS
  <2>2. w \in Seq(Nat) /\ Len(w) = 1 /\ w[1] = 255
    BY <2>1, SMT
  <2>3. QED
    BY <2>1, <2>2, Zenon
<1>15. PICK x, y, z \in Nat : x = Len(f) /\ y = Len(h) /\ z = Len(c)
  BY <1>9, <1>10, LenProperties
<1>16. Ends(f, h) /\ Holds(f, x - Len(b), w) /\ Len(b) = 1 + y
  <2>1. EndsTwo(f, w, h, b)
    BY <1>5, <1>10, <1>12, <1>14, EndsIn
  <2>2. QED
    BY <1>14, <1>15, <2>1 DEF EndsTwo
<1>17. f[x - y] = 255
  <2>1. (x - (1 + y)) + 1 = x - y /\ 1 \in 1..1
    BY SMT
  <2>2. f[(x - (1 + y)) + 1] = w[1]
    BY <1>14, <1>16, <2>1 DEF Holds
  <2>3. QED
    BY <1>14, <2>1, <2>2
<1>18. 15 + y <= x
  <2>1. 1 + y <= z
    BY <1>13, <1>15, <1>16 DEF Ends
  <2>2. x = 14 + 8 * n + z
    BY <1>10, <1>15
  <2>3. QED
    BY <2>1, <2>2
<1>19. sec = Fw!Stacked(ps, e)
  BY <1>1, Zenon DEF FieldsOf, Fw!Section
<1>20. ASSUME NEW k \in 0..m
       PROVE  sec[k] \in Seq(Nat) /\ Ends(f, sec[k]) /\ 15 + Len(sec[k]) <= x
  <2>1. sec[k] \in Seq(Nat)
    BY <1>2 DEF IsStack
  <2>2. Ends(f, sec[k])
    BY <1>2, <1>4, <1>10, <1>16, <1>19, StackedEnds
  <2>3. Ends(h, sec[k])
    <3>1. Ends(h, sec[Len(ps)])
      BY <1>2, <1>4, EndsSelf
    <3>2. QED
      BY <1>2, <1>19, <3>1, StackedEnds
  <2>4. PICK a \in Nat : a = Len(sec[k])
    BY <2>1, LenProperties
  <2>5. a <= y
    BY <1>15, <2>3, <2>4 DEF Ends
  <2>6. 15 + a <= x
    BY <1>18, <2>5
  <2>7. QED
    BY <2>1, <2>2, <2>4, <2>6
<1>21. QED
  BY <1>4, <1>15, <1>17, <1>20

(* Where the opcode of the field in front of the end t of f is, and what   *)
(* rtb_get_fw_project_id reads there.                                      *)
OpcodeOf(f, t) == Len(f) - Len(t) - 1

FieldReads(f, p, fd, q) ==
  /\ p \in Nat /\ p - 2 >= 0 /\ p + 1 <= Len(f)
  /\ f[p + 1] = fd.op /\ f[p] = Len(fd.data) /\ (Len(fd.data) = 1 => f[p - 1] = fd.data[1])
  /\ p - (Len(fd.data) + 2) = q /\ q \in Nat

LEMMA FieldRead ==
  ASSUME NEW im, WellMade(im), NEW n \in Nat, n = Len(im.patches),
         NEW m \in Nat, m = Len(im.fields), NEW f, Layout(im, f, n, m),
         NEW sec, sec = Fw!Section(im.fields), NEW k \in 1..m
  PROVE  FieldReads(f, OpcodeOf(f, sec[k - 1]), im.fields[k], OpcodeOf(f, sec[k]))
<1>1. PICK ps, e : ps = FieldsOf(im) /\ e = Fw!emagic
  OBVIOUS
<1>2. ps \in Seq(Seq(Nat)) /\ Len(ps) = m /\ IsStack(Nat, sec, ps, e) /\ e \in Seq(Nat)
  BY <1>1, SectionIs, MagicTyped
<1>3. im.fields[k] \in Fw!FieldType /\ ps[k] = Fw!Field(im.fields[k])
  <2>1. DOMAIN im.fields = 1..m
    BY DEF WellMade
  <2>2. QED
    BY <1>1, <2>1, ElementOfSeq DEF FieldsOf, WellMade
<1>4. PICK d \in Seq(Nat) : d = im.fields[k].data
  BY <1>3, FieldTyped
<1>5. PICK l \in Nat : l = Len(d)
  BY LenProperties
<1>6. PICK g \in Seq(Nat) : g = ps[k]
  BY <1>2, ElementOfSeq
<1>7. /\ Len(g) = l + 2 /\ g[l + 1] = l /\ g[l + 2] = im.fields[k].op
      /\ \A j \in 1..l : g[j] = d[j]
  <2>1. PICK u \in Fw!FieldType : u = im.fields[k]
    BY <1>3
  <2>2. /\ Len(Fw!Field(u)) = Len(u.data) + 2
        /\ \A j \in 1..Len(u.data) : Fw!Field(u)[j] = u.data[j]
        /\ Fw!Field(u)[Len(u.data) + 1] = Len(u.data) /\ Fw!Field(u)[Len(u.data) + 2] = u.op
    BY FieldTyped
  <2>3. g = Fw!Field(u) /\ u.data = d /\ Len(u.data) = l
    BY <1>3, <1>4, <1>5, <1>6, <2>1
  <2>4. QED
    BY <2>1, <2>2, <2>3
<1>8. k \in 0..m /\ k - 1 \in 0..m /\ m \in 0..m
  BY SMT
<1>9. PICK s, t \in Seq(Nat) : s = sec[k] /\ t = sec[k - 1] /\ s = g \o t
  BY <1>2, <1>6, <1>8 DEF IsStack
<1>10. f \in Seq(Nat) /\ Ends(f, s) /\ 15 + Len(s) <= Len(f)
  <2>1. \A j \in 0..m : /\ sec[j] \in Seq(Nat) /\ Ends(f, sec[j])
                         /\ 15 + Len(sec[j]) <= Len(f)
    BY SectionEnds
  <2>2. QED
    BY <1>8, <1>9, <2>1 DEF Layout
<1>11. PICK x, y, z \in Nat : x = Len(f) /\ y = Len(s) /\ z = Len(t)
  BY <1>9, <1>10, LenProperties
<1>12. Ends(f, t) /\ Holds(f, x - y, g) /\ y = Len(g) + z
  <2>1. EndsTwo(f, g, t, s)
    BY <1>9, <1>10, EndsIn
  <2>2. QED
    BY <1>11, <2>1 DEF EndsTwo
<1>13. y = (l + 2) + z /\ 15 + y <= x
  BY <1>7, <1>10, <1>11, <1>12
<1>14. \A j \in 1..(l + 2) : f[(x - y) + j] = g[j]
  BY <1>7, <1>12 DEF Holds
<1>15. PICK p, q \in Nat : p = x - z - 1 /\ q = x - y - 1
  BY <1>13
<1>16. /\ p - 2 >= 0 /\ p + 1 <= x /\ p - (l + 2) = q
       /\ (x - y) + (l + 2) = p + 1 /\ (x - y) + (l + 1) = p
       /\ l = 1 => (x - y) + 1 = p - 1
       /\ l + 2 \in 1..(l + 2) /\ l + 1 \in 1..(l + 2) /\ 1 \in 1..(l + 2)
  BY <1>13, <1>15
<1>17. f[p + 1] = im.fields[k].op /\ f[p] = l
  BY <1>7, <1>14, <1>16
<1>18. l = 1 => f[p - 1] = d[1]
  <2>1. l = 1 => g[1] = d[1]
    BY <1>7
  <2>2. QED
    BY <1>14, <1>16, <2>1
<1>19. p = OpcodeOf(f, t) /\ q = OpcodeOf(f, s)
  BY <1>11, <1>15 DEF OpcodeOf
<1>20. QED
  BY <1>4, <1>5, <1>9, <1>11, <1>16, <1>17, <1>18, <1>19, Zenon DEF FieldReads

(* What rtb_get_patch_entry reads of the k-th patch in f.                  *)
Word(f, at) == f[at + 1] + 256 * f[at + 1 + 1]
Long(f, at) == Word(f, at) + 65536 * Word(f, at + 2)
Entry(f, t, n, k) ==
  /\ Word(f, 14 + 2 * (k - 1)) = t.chip
  /\ Word(f, 14 + 2 * n + 2 * (k - 1)) = Len(t.data)
  /\ \E s \in Nat : /\ Long(f, 14 + 2 * n + 2 * n + 4 * (k - 1)) = s
                    /\ s >= 14 /\ s + Len(t.data) <= Len(f)
                    /\ SubSeq(f, s + 1, s + Len(t.data)) = t.data

LEMMA WordRead ==
  ASSUME NEW f, NEW m \in Nat, NEW ns \in Seq(Nat), NEW a, IsArray16(a, ns), Holds(f, m, a),
         NEW k \in 1..Len(ns)
  PROVE  Word(f, m + 2 * (k - 1)) = ns[k]
<1>1. PICK n \in Nat : n = Len(ns)
  BY LenProperties
<1>2. Len(a) = 2 * n /\ a[2 * (k - 1) + 1] + 256 * a[2 * (k - 1) + 2] = ns[k]
  BY <1>1 DEF IsArray16
<1>3. /\ 2 * (k - 1) + 1 \in 1..(2 * n) /\ 2 * (k - 1) + 2 \in 1..(2 * n)
      /\ m + (2 * (k - 1) + 1) = m + 2 * (k - 1) + 1
      /\ m + (2 * (k - 1) + 2) = m + 2 * (k - 1) + 1 + 1
  BY <1>1
<1>4. \A j \in 1..(2 * n) : f[m + j] = a[j]
  BY <1>2 DEF Holds
<1>5. /\ f[m + 2 * (k - 1) + 1] = a[2 * (k - 1) + 1]
      /\ f[m + 2 * (k - 1) + 1 + 1] = a[2 * (k - 1) + 2]
  <2>1. /\ f[m + (2 * (k - 1) + 1)] = a[2 * (k - 1) + 1]
        /\ f[m + (2 * (k - 1) + 2)] = a[2 * (k - 1) + 2]
    BY <1>3, <1>4, Zenon
  <2>2. QED
    BY <1>3, <2>1, Zenon
<1>6. QED
  BY <1>2, <1>5 DEF Word

LEMMA LongRead ==
  ASSUME NEW f, NEW m \in Nat, NEW ns \in Seq(Nat), NEW a, IsArray32(a, ns), Holds(f, m, a),
         NEW k \in 1..Len(ns)
  PROVE  Long(f, m + 4 * (k - 1)) = ns[k]
<1>1. PICK n \in Nat : n = Len(ns)
  BY LenProperties
<1>2. /\ Len(a) = 4 * n
      /\ (a[4 * (k - 1) + 1] + 256 * a[4 * (k - 1) + 2])
           + 65536 * (a[4 * (k - 1) + 3] + 256 * a[4 * (k - 1) + 4]) = ns[k]
  BY <1>1 DEF IsArray32
<1>3. PICK l \in Nat : l = 4 * (k - 1)
  OBVIOUS
<1>4. /\ l + 1 \in 1..(4 * n) /\ l + 2 \in 1..(4 * n)
      /\ l + 3 \in 1..(4 * n) /\ l + 4 \in 1..(4 * n)
      /\ m + (l + 1) = m + l + 1 /\ m + (l + 2) = m + l + 1 + 1
      /\ m + (l + 3) = m + l + 2 + 1 /\ m + (l + 4) = m + l + 2 + 1 + 1
  BY <1>1, <1>3
<1>5. \A j \in 1..(4 * n) : f[m + j] = a[j]
  BY <1>2 DEF Holds
<1>6. /\ f[m + l + 1] = a[l + 1] /\ f[m + l + 1 + 1] = a[l + 2]
      /\ f[m + l + 2 + 1] = a[l + 3] /\ f[m + l + 2 + 1 + 1] = a[l + 4]
  <2>1. f[m + (l + 1)] = a[l + 1] /\ f[m + (l + 2)] = a[l + 2]
    BY <1>4, <1>5, Zenon
  <2>2. f[m + (l + 3)] = a[l + 3] /\ f[m + (l + 4)] = a[l + 4]
    BY <1>4, <1>5, Zenon
  <2>3. QED
    BY <1>4, <2>1, <2>2, Zenon
<1>7. (a[l + 1] + 256 * a[l + 2]) + 65536 * (a[l + 3] + 256 * a[l + 4]) = ns[k]
  BY <1>2, <1>3
<1>8. Long(f, m + l) = ns[k]
  <2>1. Word(f, m + l) = a[l + 1] + 256 * a[l + 2]
    BY <1>6, Zenon DEF Word
  <2>2. Word(f, m + l + 2) = a[l + 3] + 256 * a[l + 4]
    BY <1>6, Zenon DEF Word
  <2>3. Long(f, m + l) = Word(f, m + l) + 65536 * Word(f, m + l + 2)
    BY SMT DEF Long
  <2>4. QED
    BY <1>7, <2>1, <2>2, <2>3
<1>9. QED
  BY <1>3, <1>8

LEMMA EntryRead ==
  ASSUME NEW im, WellMade(im), NEW n \in Nat, n = Len(im.patches),
         NEW m \in Nat, m = Len(im.fields), NEW f, Layout(im, f, n, m), NEW k \in 1..n
  PROVE  Entry(f, im.patches[k], n, k)
<1>1. DOMAIN im.patches = 1..n /\ \A j \in 1..n : im.patches[j] \in Fw!PatchType
  BY ElementOfSeq DEF WellMade
<1>2. \A j \in 1..n : im.patches[j].chip \in Nat /\ Len(im.patches[j].data) \in Nat
  BY <1>1, PatchTyped
<1>3. \A j \in 1..n : Fw!Start(im, j) \in Nat
  BY StartIs
<1>4. PICK u, v, w : u = ChipsOf(im) /\ v = LensOf(im) /\ w = StartsOf(im)
  OBVIOUS
<1>5. /\ u = [j \in 1..n |-> im.patches[j].chip]
      /\ v = [j \in 1..n |-> Len(im.patches[j].data)]
      /\ w = [j \in 1..n |-> Fw!Start(im, j)]
  BY <1>1, <1>4 DEF ChipsOf, LensOf, StartsOf
<1>6. u \in Seq(Nat) /\ v \in Seq(Nat) /\ w \in Seq(Nat) /\ Len(u) = n /\ Len(v) = n /\ Len(w) = n
  BY <1>2, <1>3, <1>5
<1>7. /\ f \in Seq(Nat) /\ Holds(f, 14, Fw!Array16(u)) /\ Holds(f, 14 + 2 * n, Fw!Array16(v))
      /\ Holds(f, 14 + 4 * n, Fw!Array32(w)) /\ Ends(f, Fw!Data(im)[n])
      /\ Len(f) = 14 + 8 * n + Len(Fw!Data(im)[n])
  BY <1>4 DEF Layout
<1>8. 14 \in Nat /\ 14 + 2 * n \in Nat /\ 14 + 4 * n \in Nat /\ 14 + 2 * n + 2 * n = 14 + 4 * n
  BY SMT
<1>9. Word(f, 14 + 2 * (k - 1)) = im.patches[k].chip
  <2>1. PICK a : a = Fw!Array16(u)
    OBVIOUS
  <2>2. IsArray16(a, u)
    BY <1>6, <2>1, Array16Is
  <2>3. Holds(f, 14, a) /\ k \in 1..Len(u)
    BY <1>6, <1>7, <2>1
  <2>4. Word(f, 14 + 2 * (k - 1)) = u[k]
    BY <1>6, <1>8, <2>2, <2>3, WordRead
  <2>5. QED
    BY <1>5, <2>4
<1>10. Word(f, 14 + 2 * n + 2 * (k - 1)) = Len(im.patches[k].data)
  <2>1. PICK a, o : a = Fw!Array16(v) /\ o = 14 + 2 * n
    OBVIOUS
  <2>2. IsArray16(a, v)
    BY <1>6, <2>1, Array16Is
  <2>3. Holds(f, o, a) /\ k \in 1..Len(v) /\ o \in Nat
    BY <1>6, <1>7, <1>8, <2>1
  <2>4. Word(f, o + 2 * (k - 1)) = v[k]
    BY <1>6, <2>2, <2>3, WordRead
  <2>5. QED
    BY <1>5, <2>1, <2>4
<1>11. Long(f, 14 + 2 * n + 2 * n + 4 * (k - 1)) = Fw!Start(im, k)
  <2>1. PICK a, o : a = Fw!Array32(w) /\ o = 14 + 4 * n
    OBVIOUS
  <2>2. IsArray32(a, w)
    BY <1>6, <2>1, Array32Is
  <2>3. Holds(f, o, a) /\ k \in 1..Len(w) /\ o \in Nat
    BY <1>6, <1>7, <1>8, <2>1
  <2>4. Long(f, o + 4 * (k - 1)) = w[k]
    BY <1>6, <2>2, <2>3, LongRead
  <2>5. Long(f, 14 + 2 * n + 2 * n + 4 * (k - 1)) = Long(f, o + 4 * (k - 1))
    BY <1>8, <2>1
  <2>6. QED
    BY <1>5, <2>4, <2>5
<1>12. PICK d, qs, b : d = Fw!Data(im) /\ qs = DatasOf(im) /\ b = BehindData(im)
  OBVIOUS
<1>13. qs \in Seq(Seq(Nat)) /\ Len(qs) = n /\ b \in Seq(Nat) /\ IsStack(Nat, d, qs, b)
  BY <1>12, DataIs
<1>14. d = Fw!Stacked(qs, b)
  BY <1>12, Zenon DEF DatasOf, BehindData, Fw!Data
<1>15. n \in 0..n /\ n + 1 - k \in 1..n /\ n + 1 - k \in 0..n /\ (n + 1 - k) - 1 \in 0..n
  BY SMT
<1>16. PICK p, s, t \in Seq(Nat) :
         p = im.patches[k].data /\ s = d[n + 1 - k] /\ t = d[(n + 1 - k) - 1]
  BY <1>1, <1>13, <1>15, PatchTyped DEF IsStack
<1>17. s = p \o t
  <2>1. qs[n + 1 - k] = p
    BY <1>12, <1>16, DataIs
  <2>2. QED
    BY <1>13, <1>15, <1>16, <2>1 DEF IsStack
<1>18. Ends(f, s)
  <2>1. \A j \in 0..n : Ends(f, d[j])
    BY <1>7, <1>12, <1>13, <1>14, StackedEnds
  <2>2. QED
    BY <1>15, <1>16, <2>1
<1>19. EndsTwo(f, p, t, s)
  BY <1>7, <1>17, <1>18, EndsIn
<1>20. Len(f) - Len(s) = Fw!Start(im, k)
  <2>1. PICK x, y \in Nat : x = Len(d[n]) /\ y = Len(d[n + 1 - k])
    BY <1>12, StartIs
  <2>2. Fw!Start(im, k) = 14 + 8 * n + (x - y)
    <3>1. Fw!Start(im, k) = 14 + 8 * n + (Len(Fw!Data(im)[n]) - Len(Fw!Data(im)[n + 1 - k]))
      BY StartIs
    <3>2. QED
      BY <1>12, <2>1, <3>1
  <2>3. Len(f) = 14 + 8 * n + x /\ Len(s) = y
    BY <1>7, <1>12, <1>16, <2>1
  <2>4. QED
    BY <2>2, <2>3
<1>21. PICK st \in Nat : st = Fw!Start(im, k) /\ st >= 14
  BY StartIs
<1>22. Holds(f, st, p)
  BY <1>19, <1>20, <1>21 DEF EndsTwo
<1>23. SubSeq(f, st + 1, st + Len(p)) = p
  BY <1>7, <1>22, HoldsSlice
<1>24. st + Len(p) <= Len(f)
  BY <1>22 DEF Holds
<1>25. QED
  BY <1>9, <1>10, <1>11, <1>16, <1>21, <1>23, <1>24, Zenon DEF Entry

Headed(im, f, n) ==
  /\ f \in Seq(Nat) /\ Word(f, 12) = n
  /\ SubSeq(f, 1, 8) = Fw!smagic /\ SubSeq(f, 9, 12) = im.version
  /\ SubSeq(f, Len(f) - 3, Len(f)) = Fw!emagic

LEMMA HeadRead ==
  ASSUME NEW im, WellMade(im), NEW n \in Nat, n = Len(im.patches),
         NEW m \in Nat, m = Len(im.fields), NEW f, Layout(im, f, n, m)
  PROVE  Headed(im, f, n)
<1>1. /\ f \in Seq(Nat) /\ Holds(f, 0, Fw!smagic) /\ Holds(f, 8, im.version)
      /\ Holds(f, 12, Fw!Le16(n))
  BY DEF Layout
<1>2. im.version \in Seq(Nat) /\ Len(im.version) = 4
  BY DEF WellMade
<1>3. Word(f, 12) = n
  <2>1. PICK c : c = Fw!Le16(n)
    OBVIOUS
  <2>2. Len(c) = 2 /\ c[1] + 256 * c[2] = n
    BY <2>1, Le16Is
  <2>3. f[12 + 1] = c[1] /\ f[12 + 2] = c[2]
    BY <1>1, <2>1, <2>2 DEF Holds
  <2>4. QED
    BY <2>2, <2>3 DEF Word
<1>4. SubSeq(f, 1, 8) = Fw!smagic
  <2>1. PICK a \in Seq(Nat) : a = Fw!smagic /\ Len(a) = 8
    BY MagicTyped
  <2>2. 0 \in Nat /\ 0 + 1 = 1 /\ 0 + Len(a) = 8
    BY <2>1
  <2>3. Holds(f, 0, a)
    BY <1>1, <2>1
  <2>4. SubSeq(f, 0 + 1, 0 + Len(a)) = a
    BY <1>1, <2>2, <2>3, HoldsSlice
  <2>5. QED
    BY <2>1, <2>2, <2>4
<1>5. SubSeq(f, 9, 12) = im.version
  <2>1. PICK a \in Seq(Nat) : a = im.version /\ Len(a) = 4
    BY <1>2
  <2>2. 8 \in Nat /\ 8 + 1 = 9 /\ 8 + Len(a) = 12
    BY <2>1
  <2>3. Holds(f, 8, a)
    BY <1>1, <2>1
  <2>4. SubSeq(f, 8 + 1, 8 + Len(a)) = a
    BY <1>1, <2>2, <2>3, HoldsSlice
  <2>5. QED
    BY <2>1, <2>2, <2>4
<1>6. SubSeq(f, Len(f) - 3, Len(f)) = Fw!emagic
  <2>1. PICK sec, e : sec = Fw!Section(im.fields) /\ e = Fw!emagic
    OBVIOUS
  <2>2. sec[0] = e /\ e \in Seq(Nat) /\ Len(e) = 4
    BY <2>1, SectionIs, MagicTyped DEF IsStack
  <2>3. 0 \in 0..m
    BY SMT
  <2>4. Ends(f, e)
    BY <2>1, <2>2, <2>3, SectionEnds
  <2>5. PICK x \in Nat : x = Len(f)
    BY <1>1, LenProperties
  <2>6. 4 <= x /\ Holds(f, x - 4, e)
    BY <2>2, <2>4, <2>5 DEF Ends
  <2>7. x - 4 \in Nat /\ (x - 4) + 1 = x - 3 /\ (x - 4) + 4 = x
    BY <2>6
  <2>8. SubSeq(f, (x - 4) + 1, (x - 4) + Len(e)) = e
    BY <1>1, <2>2, <2>6, <2>7, HoldsSlice
  <2>9. QED
    BY <2>1, <2>2, <2>5, <2>7, <2>8
<1>7. QED
  BY <1>1, <1>3, <1>4, <1>5, <1>6 DEF Headed

(* The inductive invariant of the firmware step.                           *)
NoProject(im, k) == \A j \in 1..k : ~ Fw!IsProject(im.fields[j])
NotFor(im, v, k) == \A j \in 1..k : im.patches[j].chip # v + 1
AtField(im, f, p, k) ==
  /\ 1 <= k /\ k <= Len(im.fields) /\ p = OpcodeOf(f, Fw!Section(im.fields)[k - 1])
  /\ NoProject(im, k - 1)

ImageRead ==
  /\ src \in Images /\ eversion \in Nat /\ image = Fw!File(src)
  /\ stage \in {"signature", "project", "entry", "copy", "done", "err"}
  /\ stage # "signature" => pc \in {"done", "none"}
  /\ stage \in {"signature", "project"} => proj_id = 0 /\ i = 0
  /\ stage = "project" => \E k \in Nat : AtField(src, image, p_buf, k)
  /\ stage \in {"entry", "copy"} =>
       i \in Nat /\ i <= Len(src.patches) /\ NotFor(src, eversion, i)
  /\ stage = "copy" => i < Len(src.patches) /\ src.patches[i + 1].chip = eversion + 1
  /\ ProjectRight /\ Fw!PatchRight(config_buf)

LEMMA MinIs == ASSUME NEW T, T \subseteq Nat, NEW k \in T, \A j \in T : k <= j
               PROVE  Fw!Min(T) = k
<1>1. PICK l : l = Fw!Min(T)
  OBVIOUS
<1>2. l \in T /\ \A j \in T : l <= j
  BY <1>1 DEF Fw!Min
<1>3. l \in Nat /\ k \in Nat /\ l <= k /\ k <= l
  BY <1>2
<1>4. l = k
  BY <1>3, SMT
<1>5. QED
  BY <1>1, <1>4

LEMMA Situated ==
  ASSUME NEW im \in Images
  PROVE  \E n, m \in Nat : /\ n = Len(im.patches) /\ m = Len(im.fields) /\ 1 <= m
                           /\ WellMade(im) /\ Layout(im, Fw!File(im), n, m)
<1>1. WellMade(im)
  BY ImageTyped
<1>2. PICK n, m \in Nat : n = Len(im.patches) /\ m = Len(im.fields)
  BY <1>1, LenProperties DEF WellMade
<1>3. Layout(im, Fw!File(im), n, m)
  BY <1>1, <1>2, FileIs
<1>4. m # 0
  BY <1>1, <1>2, EmptySeq DEF WellMade
<1>5. 1 <= m
  BY <1>4, SMT
<1>6. QED
  BY <1>1, <1>2, <1>3, <1>5

LEMMA ProjectFound ==
  ASSUME NEW im, WellMade(im), NEW k \in Nat, 1 <= k, k <= Len(im.fields), NoProject(im, k - 1),
         Fw!IsProject(im.fields[k]),
         NEW ps, ps = {j \in DOMAIN im.fields : Fw!IsProject(im.fields[j])}
  PROVE  ps # {} /\ Fw!Min(ps) = k
<1>1. PICK m \in Nat : m = Len(im.fields) /\ DOMAIN im.fields = 1..m
  BY LenProperties DEF WellMade
<1>2. k \in 1..m
  BY <1>1
<1>3. k \in ps
  BY <1>1, <1>2
<1>4. ps \subseteq Nat
  BY <1>1
<1>5. ASSUME NEW j \in ps PROVE k <= j
  <2>1. j \in 1..m /\ Fw!IsProject(im.fields[j])
    BY <1>1
  <2>2. j \notin 1..(k - 1)
    BY <2>1 DEF NoProject
  <2>3. QED
    BY <2>1, <2>2, SMT
<1>6. QED
  BY <1>3, <1>4, <1>5, MinIs

LEMMA FirstFound ==
  ASSUME NEW im, WellMade(im), NEW v, NEW k \in Nat, k < Len(im.patches), NotFor(im, v, k),
         im.patches[k + 1].chip = v + 1,
         NEW mine, mine = {j \in DOMAIN im.patches : im.patches[j].chip = v + 1}
  PROVE  mine # {} /\ Fw!Min(mine) = k + 1
<1>1. PICK m \in Nat : m = Len(im.patches) /\ DOMAIN im.patches = 1..m
  BY LenProperties DEF WellMade
<1>2. k + 1 \in 1..m
  BY <1>1
<1>3. k + 1 \in mine
  BY <1>1, <1>2
<1>4. mine \subseteq Nat
  BY <1>1
<1>5. ASSUME NEW j \in mine PROVE k + 1 <= j
  <2>1. j \in 1..m /\ im.patches[j].chip = v + 1
    BY <1>1
  <2>2. j \notin 1..k
    BY <2>1 DEF NotFor
  <2>3. QED
    BY <2>1, <2>2, SMT
<1>6. QED
  BY <1>3, <1>4, <1>5, MinIs

LEMMA NextNoProject ==
  ASSUME NEW im, NEW k \in Nat, 1 <= k, NoProject(im, k - 1), ~ Fw!IsProject(im.fields[k])
  PROVE  NoProject(im, k)
<1>1. ASSUME NEW j \in 1..k, j # k PROVE j \in 1..(k - 1)
  BY <1>1, SMT
<1>2. QED
  BY <1>1, Zenon DEF NoProject

LEMMA NextNotFor ==
  ASSUME NEW im, NEW v, NEW k \in Nat, NotFor(im, v, k), im.patches[k + 1].chip # v + 1
  PROVE  NotFor(im, v, k + 1)
<1>1. ASSUME NEW j \in 1..(k + 1), j # k + 1 PROVE j \in 1..k
  BY <1>1, SMT
<1>2. QED
  BY <1>1, Zenon DEF NotFor

LEMMA FilesInitRead == FilesInit /\ Fw!Intact => ImageRead
<1> SUFFICES ASSUME FilesInit, Fw!Intact PROVE ImageRead
  OBVIOUS
<1>2. /\ src \in Images /\ eversion \in Nat /\ image = Fw!File(src) /\ stage = "signature"
      /\ proj_id = 0 /\ i = 0
  <2>1. Eversions \subseteq Nat
    BY ImagesAssumption
  <2>2. QED
    BY <2>1 DEF FilesInit, Fw!Init, Fw!Intact
<1>3. ProjectRight /\ Fw!PatchRight(config_buf)
  BY <1>2 DEF ProjectRight, Fw!ProjectRight, Fw!PatchRight
<1>4. stage # "project" /\ stage \notin {"entry", "copy"} /\ stage # "copy"
  BY <1>2
<1>5. QED
  BY <1>2, <1>3, <1>4 DEF ImageRead

LEMMA SignatureRead == ASSUME ImageRead, Fw!CheckSignature, pc \in {"done", "none"}, UNCHANGED vars
                       PROVE  ImageRead'
<1>1. stage = "signature" /\ proj_id = 0 /\ i = 0 /\ image = Fw!File(src) /\ src \in Images
  BY DEF ImageRead, Fw!CheckSignature
<1>2. PICK n, m \in Nat : /\ n = Len(src.patches) /\ m = Len(src.fields) /\ 1 <= m
                         /\ WellMade(src) /\ Layout(src, image, n, m)
  BY <1>1, Situated
<1>3. /\ image \in Seq(Nat) /\ SubSeq(image, 1, 8) = Fw!smagic
      /\ SubSeq(image, Len(image) - 3, Len(image)) = Fw!emagic
  BY <1>2, HeadRead DEF Headed
<1>4. PICK x \in Nat : x = Len(image)
  BY <1>3, LenProperties
<1>5. 15 <= x /\ OpcodeOf(image, Fw!Section(src.fields)[0]) = x - 5
  <2>1. PICK sec : sec = Fw!Section(src.fields)
    OBVIOUS
  <2>2. 0 \in 0..m
    BY SMT
  <2>3. sec[0] = Fw!emagic /\ Len(sec[0]) = 4
    BY <1>2, <2>1, SectionIs, MagicTyped DEF IsStack
  <2>4. 15 + Len(sec[0]) <= Len(image)
    BY <1>2, <2>1, <2>2, SectionEnds
  <2>5. 15 <= x /\ x - 4 - 1 = x - 5
    BY <1>4, <2>3, <2>4
  <2>6. QED
    BY <1>4, <2>1, <2>3, <2>5 DEF OpcodeOf
<1>6. \A s \in {<<0, 8>>, <<Len(image) - 4, 4>>} : Fw!InFile(s[1], s[2])
  BY <1>4, <1>5 DEF Fw!InFile
<1>7. Fw!memcpy(0, 8) = Fw!smagic /\ Fw!memcpy(Len(image) - 4, 4) = Fw!emagic
  <2>1. 0 + 1 = 1 /\ 0 + 8 = 8 /\ (x - 4) + 1 = x - 3 /\ (x - 4) + 4 = x
    BY SMT
  <2>2. QED
    BY <1>3, <1>4, <2>1, Zenon DEF Fw!memcpy
<1>8. /\ stage' = "project" /\ p_buf' = Len(image) - 5 /\ proj_id' = proj_id /\ i' = i
      /\ src' = src /\ image' = image /\ eversion' = eversion /\ pc' = pc
  BY <1>6, <1>7, Zenon DEF Fw!CheckSignature, Fw!Reading, vars
<1>9. AtField(src, image, p_buf', 1)
  <2>1. 1 - 1 = 0 /\ 1 <= Len(src.fields) /\ 1 <= 1
    BY <1>2
  <2>2. NoProject(src, 0)
    BY SMT DEF NoProject
  <2>3. QED
    BY <1>4, <1>5, <1>8, <2>1, <2>2 DEF AtField
<1>10. QED
  BY <1>1, <1>8, <1>9, Zenon DEF ImageRead, ProjectRight, Fw!ProjectRight, Fw!PatchRight, Fw!Intact

(* What the fields are where rtb_get_fw_project_id looks, and behind the   *)
(* last one a byte that is no opcode.                                      *)
NoOpcode(f, q) == f[q + 1] = 255

LEMMA FieldAt ==
  ASSUME NEW im \in Images, NEW f, f = Fw!File(im), NEW k \in Nat, NEW p, AtField(im, f, p, k)
  PROVE  \E fd \in Fw!FieldType, q \in Nat :
           /\ fd = im.fields[k] /\ FieldReads(f, p, fd, q) /\ q + 1 <= Len(f) /\ q + 1 \in Nat
           /\ ~ NoOpcode(f, q) => AtField(im, f, q, k + 1) \/ Fw!IsProject(fd)
           /\ NoOpcode(f, q) => NoProject(im, Len(im.fields)) \/ Fw!IsProject(fd)
<1>1. PICK n, m \in Nat : /\ n = Len(im.patches) /\ m = Len(im.fields) /\ 1 <= m
                         /\ WellMade(im) /\ Layout(im, f, n, m)
  BY Situated
<1>2. PICK sec : sec = Fw!Section(im.fields)
  OBVIOUS
<1>3. 1 <= k /\ k <= m /\ p = OpcodeOf(f, sec[k - 1]) /\ NoProject(im, k - 1)
  BY <1>1, <1>2 DEF AtField
<1>4. k \in 1..m /\ k \in 0..m
  BY <1>3
<1>5. PICK fd, q : fd = im.fields[k] /\ q = OpcodeOf(f, sec[k])
  OBVIOUS
<1>6. fd \in Fw!FieldType
  BY <1>1, <1>4, <1>5, ElementOfSeq DEF WellMade
<1>7. FieldReads(f, p, fd, q)
  BY <1>1, <1>2, <1>3, <1>4, <1>5, FieldRead
<1>8. f \in Seq(Nat)
  BY <1>1 DEF Layout
<1>9. sec[k] \in Seq(Nat)
  BY <1>1, <1>2, <1>4, SectionEnds
<1>10. PICK x, z \in Nat : x = Len(f) /\ z = Len(sec[k])
  BY <1>8, <1>9, LenProperties
<1>11. q \in Nat /\ q = x - z - 1
  BY <1>5, <1>7, <1>10 DEF FieldReads, OpcodeOf
<1>12. q + 1 <= x /\ q + 1 = x - z /\ q + 1 \in Nat
  BY <1>11
<1>13. Fw!IsProject(fd) \/ NoProject(im, k)
  BY <1>3, <1>5, NextNoProject
<1>14. CASE k = m
  <2>1. NoOpcode(f, q)
    BY <1>1, <1>2, <1>10, <1>12, <1>14, SectionEnds DEF NoOpcode
  <2>2. QED
    BY <1>1, <1>5, <1>6, <1>7, <1>10, <1>11, <1>12, <1>13, <1>14, <2>1
<1>15. CASE k < m
  <2>1. k + 1 \in 1..m /\ (k + 1) - 1 = k /\ 1 <= k + 1 /\ k + 1 <= m
    BY <1>15
  <2>2. PICK g, r : g = im.fields[k + 1] /\ r = OpcodeOf(f, sec[k + 1])
    OBVIOUS
  <2>3. FieldReads(f, OpcodeOf(f, sec[(k + 1) - 1]), g, r)
    BY <1>1, <1>2, <2>1, <2>2, FieldRead
  <2>4. FieldReads(f, q, g, r)
    BY <1>5, <2>1, <2>3
  <2>5. g \in Fw!FieldType
    BY <1>1, <2>1, <2>2, ElementOfSeq DEF WellMade
  <2>6. g.op # 255
    BY <2>5, FieldTyped
  <2>7. ~ NoOpcode(f, q)
    BY <2>4, <2>6, Zenon DEF FieldReads, NoOpcode
  <2>8. NoProject(im, k) => AtField(im, f, q, k + 1)
    BY <1>1, <1>2, <1>5, <2>1, Zenon DEF AtField
  <2>9. AtField(im, f, q, k + 1) \/ Fw!IsProject(fd)
    BY <1>13, <2>8, Zenon
  <2>10. q + 1 <= Len(f) /\ q + 1 \in Nat
    BY <1>10, <1>12
  <2>11. QED
    BY <1>5, <1>6, <1>7, <1>11, <2>7, <2>9, <2>10, Zenon
<1>16. QED
  BY <1>3, <1>14, <1>15

LEMMA FieldStep == ASSUME ImageRead, Fw!ReadField, pc \in {"done", "none"}, UNCHANGED vars
                   PROVE  ImageRead'
<1>1. /\ stage = "project" /\ proj_id = 0 /\ i = 0 /\ image = Fw!File(src) /\ src \in Images
      /\ eversion \in Nat
  BY DEF ImageRead, Fw!ReadField
<1>2. PICK k \in Nat : AtField(src, image, p_buf, k)
  BY <1>1 DEF ImageRead
<1>3. PICK fd \in Fw!FieldType, q \in Nat :
        /\ fd = src.fields[k] /\ FieldReads(image, p_buf, fd, q) /\ q + 1 <= Len(image)
        /\ q + 1 \in Nat
        /\ ~ NoOpcode(image, q) => AtField(src, image, q, k + 1) \/ Fw!IsProject(fd)
        /\ NoOpcode(image, q) => NoProject(src, Len(src.fields)) \/ Fw!IsProject(fd)
  BY <1>1, <1>2, FieldAt
<1>4. PICK n, m \in Nat : /\ n = Len(src.patches) /\ m = Len(src.fields) /\ 1 <= m
                         /\ WellMade(src) /\ Layout(src, image, n, m)
  BY <1>1, Situated
<1>5. PICK l \in Nat : l = Len(fd.data)
  BY FieldTyped
<1>6. PICK x \in Nat : x = Len(image)
  BY <1>4, LenProperties DEF Layout
<1>7. /\ p_buf \in Nat /\ p_buf - 2 >= 0 /\ p_buf + 1 <= x /\ image[p_buf + 1] = fd.op
      /\ image[p_buf] = l /\ (l = 1 => image[p_buf - 1] = fd.data[1])
      /\ p_buf - (l + 2) = q
  BY <1>3, <1>5, <1>6, Zenon DEF FieldReads
<1>8. /\ (p_buf - 1) + 1 = p_buf /\ (p_buf - 2) + 1 = p_buf - 1 /\ (p_buf - 2) + 3 = p_buf + 1
      /\ (p_buf - 2) + 3 <= x
  BY <1>7
<1>9. \A s \in {<<p_buf - 2, 3>>} : Fw!InFile(s[1], s[2])
  BY <1>6, <1>7, <1>8 DEF Fw!InFile
<1>10. /\ Fw!Byte(p_buf) = fd.op /\ Fw!Byte(p_buf - 1) = l
       /\ (l = 1 => Fw!Byte(p_buf - 2) = fd.data[1])
       /\ Fw!Byte(q) = image[q + 1] /\ Fw!Previous(p_buf, l) = q
  BY <1>7, <1>8, Zenon DEF Fw!Byte, Fw!Previous
<1>11. Fw!InFile(q, 1)
  BY <1>3, <1>6 DEF Fw!InFile
<1>12. /\ src' = src /\ image' = image /\ eversion' = eversion /\ pc' = pc
       /\ config_buf' = config_buf
  BY Zenon DEF Fw!ReadField, vars, config_buf
<1>13. IF fd.op = 0 /\ l = 1
       THEN proj_id' = Fw!Byte(p_buf - 2) /\ stage' = "entry" /\ UNCHANGED <<p_buf, i, buf>>
       ELSE /\ p_buf' = q
            /\ stage' = IF ~Fw!InFile(q, 1) THEN "outside"
                        ELSE IF Fw!Byte(q) = 255 THEN "entry" ELSE "project"
            /\ UNCHANGED <<proj_id, i, buf>>
  BY <1>9, <1>10, Zenon DEF Fw!ReadField, Fw!Reading
<1>14. Fw!IsProject(fd) <=> fd.op = 0 /\ l = 1
  BY <1>5, Zenon DEF Fw!IsProject
<1>15. NotFor(src, eversion, 0) /\ 0 \in Nat /\ 0 <= Len(src.patches)
  BY <1>4 DEF NotFor
<1>16. PICK ps : ps = {j \in DOMAIN src.fields : Fw!IsProject(src.fields[j])}
  OBVIOUS
<1>17. CASE Fw!IsProject(fd)
  <2>1. /\ stage' = "entry" /\ i' = 0 /\ proj_id' = fd.data[1]
    BY <1>1, <1>10, <1>13, <1>14, <1>17
  <2>2. ps # {} /\ Fw!Min(ps) = k
    <3>1. 1 <= k /\ k <= Len(src.fields) /\ NoProject(src, k - 1)
      BY <1>2 DEF AtField
    <3>2. QED
      BY <1>3, <1>4, <1>16, <1>17, <3>1, ProjectFound
  <2>3. ProjectRight'
    BY <1>3, <1>12, <1>16, <2>1, <2>2, Zenon DEF ProjectRight, Fw!ProjectRight, Fw!Intact
  <2>4. QED
    BY <1>1, <1>12, <1>15, <2>1, <2>3, Zenon DEF ImageRead, Fw!PatchRight, Fw!Intact
<1>18. CASE ~ Fw!IsProject(fd) /\ NoOpcode(image, q)
  <2>1. stage' = "entry" /\ i' = 0 /\ proj_id' = 0
    BY <1>1, <1>10, <1>11, <1>13, <1>14, <1>18, Zenon DEF NoOpcode
  <2>2. ps = {}
    <3>1. DOMAIN src.fields = 1..m
      BY <1>4 DEF WellMade
    <3>2. NoProject(src, m)
      BY <1>3, <1>4, <1>18
    <3>3. QED
      BY <1>16, <3>1, <3>2, Zenon DEF NoProject
  <2>3. ProjectRight'
    BY <1>12, <1>16, <2>1, <2>2, Zenon DEF ProjectRight, Fw!ProjectRight, Fw!Intact
  <2>4. QED
    BY <1>1, <1>12, <1>15, <2>1, <2>3, Zenon DEF ImageRead, Fw!PatchRight, Fw!Intact
<1>19. CASE ~ Fw!IsProject(fd) /\ ~ NoOpcode(image, q)
  <2>1. stage' = "project" /\ i' = 0 /\ proj_id' = 0 /\ p_buf' = q
    BY <1>1, <1>10, <1>11, <1>13, <1>14, <1>19, Zenon DEF NoOpcode
  <2>2. AtField(src, image, q, k + 1) /\ k + 1 \in Nat
    BY <1>3, <1>19
  <2>3. ProjectRight'
    BY <2>1, Zenon DEF ProjectRight, Fw!ProjectRight, Fw!Intact
  <2>4. QED
    BY <1>1, <1>12, <2>1, <2>2, <2>3, Zenon DEF ImageRead, Fw!PatchRight, Fw!Intact
<1>20. QED
  BY <1>17, <1>18, <1>19

LEMMA NumbersAt ==
  ASSUME image = Fw!File(src), src \in Images, NEW n \in Nat, n = Len(src.patches)
  PROVE  /\ Fw!number_of_patch = n /\ Fw!ci_base = 14 /\ Fw!pl_base = 14 + 2 * n
         /\ Fw!so_base = 14 + 2 * n + 2 * n
         /\ \A at : Fw!get_unaligned_le16(at) = Word(image, at)
         /\ \A at : Fw!get_unaligned_le32(at) = Long(image, at)
<1>1. PICK m \in Nat : /\ m = Len(src.fields) /\ WellMade(src) /\ Layout(src, image, n, m)
  BY Situated
<1>2. Word(image, 12) = n
  BY <1>1, HeadRead DEF Headed
<1>3. \A at : Fw!get_unaligned_le16(at) = Word(image, at)
  BY SMT DEF Fw!get_unaligned_le16, Fw!Byte, Word
<1>4. \A at : Fw!get_unaligned_le32(at) = Long(image, at)
  BY <1>3, SMT DEF Fw!get_unaligned_le32, Long
<1>5. Fw!number_of_patch = n
  BY <1>2, <1>3 DEF Fw!number_of_patch
<1>6. Fw!ci_base = 14
  BY DEF Fw!ci_base, Fw!HdrLen
<1>7. Fw!pl_base = 14 + 2 * n
  BY <1>5, <1>6 DEF Fw!pl_base
<1>8. Fw!so_base = 14 + 2 * n + 2 * n
  BY <1>5, <1>7 DEF Fw!so_base
<1>9. QED
  BY <1>3, <1>4, <1>5, <1>6, <1>7, <1>8

LEMMA DataAll ==
  ASSUME NEW im, WellMade(im), NEW n \in Nat, n = Len(im.patches)
  PROVE  Fw!Data(im)[n] \in Seq(Nat)
<1>1. Len(DatasOf(im)) = n /\ IsStack(Nat, Fw!Data(im), DatasOf(im), BehindData(im))
  BY DataIs
<1>2. n \in 0..n
  BY SMT
<1>3. QED
  BY <1>1, <1>2 DEF IsStack

LEMMA EntryStep == ASSUME ImageRead, Fw!NextEntry, pc \in {"done", "none"}, UNCHANGED vars
                   PROVE  ImageRead'
<1>1. /\ stage = "entry" /\ image = Fw!File(src) /\ src \in Images /\ eversion \in Nat
      /\ i \in Nat /\ i <= Len(src.patches) /\ NotFor(src, eversion, i) /\ ProjectRight
  BY DEF ImageRead, Fw!NextEntry
<1>2. PICK n, m \in Nat : /\ n = Len(src.patches) /\ m = Len(src.fields) /\ 1 <= m
                         /\ WellMade(src) /\ Layout(src, image, n, m)
  BY <1>1, Situated
<1>3. /\ Fw!number_of_patch = n /\ Fw!ci_base = 14
      /\ \A at : Fw!get_unaligned_le16(at) = Word(image, at)
  BY <1>1, <1>2, NumbersAt
<1>4. /\ src' = src /\ image' = image /\ eversion' = eversion /\ pc' = pc
      /\ config_buf' = config_buf
  BY Zenon DEF Fw!NextEntry, vars, config_buf
<1>n. \A s \in {<<12, 2>>} : Fw!InFile(s[1], s[2])
  <2>1. PICK x, z \in Nat : x = Len(image) /\ z = Len(Fw!Data(src)[n])
    <3>1. image \in Seq(Nat) /\ Fw!Data(src)[n] \in Seq(Nat)
      BY <1>2, DataAll DEF Layout
    <3>2. QED
      BY <3>1, LenProperties
  <2>2. x = 14 + 8 * n + z
    BY <1>2, <2>1 DEF Layout
  <2>a. 12 >= 0 /\ 12 + 2 <= x
    BY <2>2, SMT
  <2>3. Fw!InFile(12, 2)
    BY <2>1, <2>a DEF Fw!InFile
  <2>4. QED
    BY <2>3
<1>5. CASE i = n
  <2>1. stage' = "err"
    BY <1>3, <1>5, <1>n, Zenon DEF Fw!NextEntry, Fw!Reading
  <2>2. {j \in DOMAIN src.patches : src.patches[j].chip = eversion + 1} = {}
    <3>1. DOMAIN src.patches = 1..n
      BY <1>2 DEF WellMade
    <3>2. QED
      BY <1>1, <1>5, <3>1, Zenon DEF NotFor
  <2>3. ProjectRight' /\ Fw!PatchRight(config_buf)'
    BY <1>4, <2>1, <2>2, Zenon DEF ProjectRight, Fw!ProjectRight, Fw!PatchRight, Fw!Intact
  <2>4. QED
    BY <1>1, <1>4, <2>1, <2>3, Zenon DEF ImageRead
<1>6. CASE i # n
  <2>1. i < n /\ i + 1 <= n /\ i + 1 \in Nat /\ (i + 1) - 1 = i /\ i + 1 \in 1..n
    BY <1>1, <1>2, <1>6
  <2>2. Entry(image, src.patches[i + 1], n, i + 1)
    BY <1>2, <2>1, EntryRead
  <2>3. Fw!get_unaligned_le16(Fw!ci_base + 2 * i) = src.patches[i + 1].chip
    BY <1>3, <2>1, <2>2, Zenon DEF Entry
  <2>4. PICK x, z \in Nat : x = Len(image) /\ z = Len(Fw!Data(src)[n]) /\ x = 14 + 8 * n + z
    <3>1. image \in Seq(Nat) /\ Len(image) = 14 + 8 * n + Len(Fw!Data(src)[n])
      BY <1>2 DEF Layout
    <3>2. Len(Fw!Data(src)[n]) \in Nat
      BY <1>2, <2>1, StartIs
    <3>3. QED
      BY <3>1, <3>2, LenProperties
  <2>5. \A s \in {<<Fw!ci_base + 2 * i, 2>>} : Fw!InFile(s[1], s[2])
    <3>1. 14 + 2 * i >= 0 /\ (14 + 2 * i) + 2 <= x
      <4>1. i \in Nat /\ i < n /\ x = 14 + 8 * n + z
        BY <1>1, <2>1, <2>4, Zenon
      <4>2. QED
        BY <4>1, SMT
    <3>2. Fw!InFile(Fw!ci_base + 2 * i, 2)
      BY <1>3, <2>4, <3>1 DEF Fw!InFile
    <3>3. QED
      BY <3>2
  <2>6. /\ IF src.patches[i + 1].chip = eversion + 1
           THEN stage' = "copy" /\ i' = i
           ELSE stage' = stage /\ i' = i + 1
        /\ UNCHANGED <<p_buf, proj_id, buf>>
    BY <1>3, <1>6, <1>n, <2>3, <2>5, Zenon DEF Fw!NextEntry, Fw!Reading
  <2>7. stage' \in {"entry", "copy"} /\ proj_id' = proj_id
    BY <1>1, <2>6
  <2>8. ProjectRight' /\ Fw!PatchRight(config_buf)'
    BY <1>1, <1>4, <2>7, Zenon DEF ProjectRight, Fw!ProjectRight, Fw!PatchRight, Fw!Intact
  <2>9. CASE src.patches[i + 1].chip = eversion + 1
    <3>1. stage' = "copy" /\ i' = i
      BY <2>6, <2>9
    <3>2. QED
      BY <1>1, <1>2, <1>4, <2>1, <2>8, <2>9, <3>1, Zenon DEF ImageRead
  <2>10. CASE src.patches[i + 1].chip # eversion + 1
    <3>1. stage' = "entry" /\ i' = i + 1
      BY <1>1, <2>6, <2>10
    <3>2. NotFor(src, eversion, i + 1)
      BY <1>1, <2>10, NextNotFor
    <3>3. QED
      BY <1>1, <1>2, <1>4, <2>1, <2>8, <3>1, <3>2, Zenon DEF ImageRead
  <2>11. QED
    BY <2>9, <2>10
<1>7. QED
  BY <1>5, <1>6

LEMMA CopyStep ==
  ASSUME ImageRead, Fw!CopyPatch(config_buf), pc \in {"done", "none"}, UNCHANGED vars
  PROVE  ImageRead'
<1>1. /\ stage = "copy" /\ image = Fw!File(src) /\ src \in Images /\ eversion \in Nat
      /\ i \in Nat /\ i < Len(src.patches) /\ NotFor(src, eversion, i) /\ ProjectRight
      /\ src.patches[i + 1].chip = eversion + 1
  BY DEF ImageRead, Fw!CopyPatch
<1>2. PICK n, m \in Nat : /\ n = Len(src.patches) /\ m = Len(src.fields) /\ 1 <= m
                         /\ WellMade(src) /\ Layout(src, image, n, m)
  BY <1>1, Situated
<1>3. /\ Fw!pl_base = 14 + 2 * n /\ Fw!so_base = 14 + 2 * n + 2 * n
      /\ \A at : Fw!get_unaligned_le16(at) = Word(image, at)
      /\ \A at : Fw!get_unaligned_le32(at) = Long(image, at)
  BY <1>1, <1>2, NumbersAt
<1>4. /\ src' = src /\ image' = image /\ eversion' = eversion /\ pc' = pc
      /\ config_buf' = config_buf
  BY Zenon DEF Fw!CopyPatch, vars, config_buf
<1>5. i < n /\ i + 1 <= n /\ i + 1 \in Nat /\ (i + 1) - 1 = i /\ i + 1 \in 1..n
  BY <1>1, <1>2
<1>6. PICK t, d, l : t = src.patches[i + 1] /\ d = t.data /\ l = Len(d)
  OBVIOUS
<1>7. d \in Seq(Nat) /\ l \in Nat /\ l >= 4
  <2>1. t \in Fw!PatchType
    BY <1>2, <1>5, <1>6, ElementOfSeq DEF WellMade
  <2>2. QED
    BY <1>6, <2>1, PatchTyped
<1>8. Entry(image, t, n, i + 1)
  BY <1>2, <1>5, <1>6, EntryRead
<1>9. PICK s \in Nat : /\ Long(image, 14 + 2 * n + 2 * n + 4 * ((i + 1) - 1)) = s
                       /\ s >= 14 /\ s + l <= Len(image) /\ SubSeq(image, s + 1, s + l) = d
  BY <1>6, <1>8, Zenon DEF Entry
<1>10. Fw!soffset = s
  BY <1>3, <1>5, <1>9, Zenon DEF Fw!soffset
<1>11. Fw!patch_len = l
  <2>1. Word(image, 14 + 2 * n + 2 * ((i + 1) - 1)) = l
    BY <1>6, <1>8, Zenon DEF Entry
  <2>2. QED
    BY <1>3, <1>5, <2>1, Zenon DEF Fw!patch_len
<1>12. PICK x, z \in Nat : x = Len(image) /\ z = Len(Fw!Data(src)[n]) /\ x = 14 + 8 * n + z
  <2>1. image \in Seq(Nat) /\ Len(image) = 14 + 8 * n + Len(Fw!Data(src)[n])
    BY <1>2 DEF Layout
  <2>2. Len(Fw!Data(src)[n]) \in Nat
    BY <1>2, <1>5, StartIs
  <2>3. QED
    BY <2>1, <2>2, LenProperties
<1>13. \A v \in {<<Fw!pl_base + 2 * i, 2>>, <<Fw!so_base + 4 * i, 4>>} : Fw!InFile(v[1], v[2])
  <2>1. /\ 14 + 2 * n + 2 * i >= 0 /\ (14 + 2 * n + 2 * i) + 2 <= x
        /\ 14 + 2 * n + 2 * n + 4 * i >= 0 /\ (14 + 2 * n + 2 * n + 4 * i) + 4 <= x
    <3>1. i \in Nat /\ i < n /\ x = 14 + 8 * n + z
      BY <1>1, <1>5, <1>12, Zenon
    <3>2. QED
      BY <3>1, SMT
  <2>2. Fw!InFile(Fw!pl_base + 2 * i, 2) /\ Fw!InFile(Fw!so_base + 4 * i, 4)
    BY <1>3, <1>12, <2>1 DEF Fw!InFile
  <2>3. QED
    BY <2>2
<1>14. \A v \in {<<Fw!soffset, Fw!patch_len>>, <<Fw!soffset + Fw!patch_len - 12, 12>>} :
         Fw!InFile(v[1], v[2])
  <2>1. s + l - 12 >= 0 /\ s + l - 12 + 12 = s + l /\ s >= 0
    BY <1>7, <1>9
  <2>2. QED
    BY <1>9, <1>10, <1>11, <2>1 DEF Fw!InFile
<1>l. ~(Fw!patch_len < 4)
  BY <1>7, <1>11, SMT
<1>15. /\ buf' = Fw!WithVersion(Fw!memcpy(Fw!soffset, Fw!patch_len)) \o config_buf
       /\ stage' = "done" /\ proj_id' = proj_id
  BY <1>13, <1>14, <1>l, Zenon DEF Fw!CopyPatch, Fw!Reading
<1>16. Fw!memcpy(Fw!soffset, Fw!patch_len) = d
  BY <1>9, <1>10, <1>11, Zenon DEF Fw!memcpy
<1>17. Fw!memcpy(8, 4) = src.version
  <2>1. Headed(src, image, n)
    BY <1>2, HeadRead
  <2>2. 8 + 1 = 9 /\ 8 + 4 = 12
    BY SMT
  <2>3. QED
    BY <2>1, <2>2, Zenon DEF Fw!memcpy, Headed
<1>18. buf' = SubSeq(d, 1, Len(d) - 4) \o src.version \o config_buf
  BY <1>15, <1>16, <1>17, Zenon DEF Fw!WithVersion
<1>19. PICK mine : mine = {j \in DOMAIN src.patches : src.patches[j].chip = eversion + 1}
  OBVIOUS
<1>20. mine # {} /\ Fw!Min(mine) = i + 1
  BY <1>1, <1>2, <1>19, FirstFound
<1>21. Fw!PatchRight(config_buf)'
  BY <1>4, <1>6, <1>15, <1>18, <1>19, <1>20, Zenon DEF Fw!PatchRight, Fw!Intact
<1>22. ProjectRight'
  BY <1>1, <1>4, <1>15, Zenon DEF ProjectRight, Fw!ProjectRight, Fw!Intact
<1>23. QED
  BY <1>1, <1>4, <1>15, <1>21, <1>22, Zenon DEF ImageRead

LEMMA ReadStep == ASSUME ImageRead, [FilesNext]_FilesVars PROVE ImageRead'
<1>1. CASE pc \in {"done", "none"} /\ UNCHANGED vars /\ Fw!Next(config_buf) /\ ~ Fw!Finished
  BY <1>1, SignatureRead, FieldStep, EntryStep, CopyStep, Zenon DEF Fw!Next
<1>2. ASSUME UNCHANGED fwvars, pc \in {"done", "none"} => UNCHANGED <<pc, out>> PROVE ImageRead'
  <2>1. /\ src' = src /\ eversion' = eversion /\ image' = image /\ stage' = stage
        /\ proj_id' = proj_id /\ i' = i /\ p_buf' = p_buf /\ buf' = buf
    BY <1>2 DEF fwvars
  <2>2. CASE pc \in {"done", "none"}
    <3>1. config_buf' = config_buf /\ pc' = pc
      BY <1>2, <2>2, Zenon DEF config_buf
    <3>2. QED
      BY <2>1, <3>1, Zenon DEF ImageRead, ProjectRight, Fw!ProjectRight, Fw!PatchRight, Fw!Intact
  <2>3. CASE pc \notin {"done", "none"}
    <3>1. stage = "signature"
      BY <2>3, Zenon DEF ImageRead
    <3>2. ProjectRight' /\ Fw!PatchRight(config_buf)'
      BY <2>1, <3>1, Zenon DEF ProjectRight, Fw!ProjectRight, Fw!PatchRight, Fw!Intact
    <3>3. QED
      BY <2>1, <3>1, <3>2, Zenon DEF ImageRead
  <2>4. QED
    BY <2>2, <2>3
<1>3. CASE ConfigStep
  <2>1. pc \in {"done", "none"} => UNCHANGED <<pc, out>>
    <3>1. SUFFICES ASSUME pc \in {"done", "none"} PROVE UNCHANGED vars
      BY DEF vars
    <3>2. Next
      BY <1>3 DEF ConfigStep
    <3>3. QED
      BY <3>1, <3>2 DEF Next, LineProcess, AddMac, ReadFile, ParseItem, ParseCut, Parsed,
         MergeEmpty, MergeBegin, MergeOther, MergeUpdate, MergeReplace, MergeNext, AppendNew,
         MergeDone, Emit, FreeSplice, FreeItem, FreeDone, Finished
  <2>2. QED
    BY <1>2, <1>3, <2>1 DEF ConfigStep
<1>4. CASE UNCHANGED FilesVars \/ (UNCHANGED vars /\ Fw!Finished)
  <2>1. UNCHANGED fwvars /\ UNCHANGED <<pc, out>>
    BY <1>4 DEF FilesVars, vars, fwvars, Fw!Finished, Fw!vars
  <2>2. QED
    BY <1>2, <2>1
<1>5. QED
  BY <1>1, <1>3, <1>4, Zenon DEF FilesNext, FirmwareStep

LEMMA AlwaysRead == FilesSpec => [](Fw!Intact => ImageRead)
<1>1. FilesInit => (Fw!Intact => ImageRead)
  BY FilesInitRead
<1>2. (Fw!Intact => ImageRead) /\ [FilesNext]_FilesVars => (Fw!Intact => ImageRead)'
  <2> SUFFICES ASSUME Fw!Intact => ImageRead, [FilesNext]_FilesVars, Fw!Intact'
               PROVE  ImageRead'
    OBVIOUS
  <2>1. src' = src /\ image' = image
    BY DEF FilesNext, ConfigStep, FirmwareStep, FilesVars, fwvars, Fw!Next, Fw!CheckSignature,
       Fw!ReadField, Fw!NextEntry, Fw!CopyPatch, Fw!Finished, Fw!vars
  <2>2. Fw!Intact
    BY <2>1, Zenon DEF Fw!Intact
  <2>3. QED
    BY <2>2, ReadStep
<1>3. QED
  BY <1>1, <1>2, PTL DEF FilesSpec

(* For every image that is as its maker laid it out, the project id found  *)
(* is that of the field nearest to the end of the file, and 0 if there is  *)
(* none (rtb_get_fw_project_id).                                           *)
THEOREM ProjectAlwaysRight == FilesSpec => []ProjectRight
<1>1. (Fw!Intact => ImageRead) => ProjectRight
  BY DEF ImageRead, ProjectRight, Fw!ProjectRight
<1>2. QED
  BY <1>1, AlwaysRead, PTL

(* For every image that is as its maker laid it out and every ROM version, *)
(* nothing is read outside of the image, and what is downloaded is the     *)
(* first patch for the version, with the version of the image in its last  *)
(* four bytes, and behind it what is in rtb_cfg.config_buf; it fails only  *)
(* if there is no such patch (rtb_get_patch_entry, rtb_get_final_patch).   *)
THEOREM PatchAlwaysRight == FilesSpec => []Fw!PatchRight(config_buf)
<1>1. (Fw!Intact => ImageRead) => Fw!PatchRight(config_buf)
  BY Zenon DEF ImageRead, Fw!PatchRight
<1>2. QED
  BY <1>1, AlwaysRead, PTL
-----------------------------------------------------------------------------
(***************************************************************************)
(* What the lists say.  A list is the sequence of its nodes, from its head *)
(* on; here is what list_add_tail, list_del, list_replace_init and         *)
(* list_splice_tail make of such a sequence, beside another list.          *)
(***************************************************************************)
(* The ring with the items s[1] to s[a], along f from the head s[0].       *)
Ring(L, f, s, a) ==
  /\ a \in Nat /\ s[a + 1] = s[0]
  /\ \A k \in 0..a : s[k] \in L /\ f[s[k]] = s[k + 1]
  /\ \A j, k \in 0..a : s[j] = s[k] => j = k

(* It and another, t, and g is the inverse of f.                           *)
Strung(L, f, g, s, a, t, b) ==
  /\ L \in SUBSET Nodes /\ f \in Links /\ g \in Links
  /\ \A m \in L : f[m] \in L /\ g[f[m]] = m
  /\ Ring(L, f, s, a) /\ Ring(L, f, t, b)
  /\ \A j \in 0..a, k \in 0..b : s[j] # t[k]

LEMMA StrungTurned ==
  ASSUME NEW L, NEW f, NEW g, NEW s, NEW a, NEW t, NEW b, Strung(L, f, g, s, a, t, b)
  PROVE  Strung(L, f, g, t, b, s, a)
BY Zenon DEF Strung

(* A change of f that leaves the other ring alone.                         *)
Apart(L1, f, f1, t, b) == \A k \in 0..b : t[k] \in L1 /\ f1[t[k]] = f[t[k]]

LEMMA OtherRing ==
  ASSUME NEW L, NEW L1, NEW f, NEW f1, NEW t, NEW b, Ring(L, f, t, b), Apart(L1, f, f1, t, b)
  PROVE  Ring(L1, f1, t, b)
BY DEF Ring, Apart

(* list_add_tail.                                                          *)
Longer(s, a, n) ==
  [k \in 0..(a + 2) |-> IF k <= a THEN s[k] ELSE IF k = a + 1 THEN n ELSE s[0]]

LEMMA AppendStrung ==
  ASSUME NEW L, NEW f, NEW g, NEW s, NEW a, NEW t, NEW b, Strung(L, f, g, s, a, t, b),
         NEW n \in Nodes, n \notin L, NEW h, h = s[0],
         NEW f1, f1 = [f EXCEPT ![n] = h, ![g[h]] = n],
         NEW g1, g1 \in Links, NEW L1, L1 = L \cup {n},
         \A m \in L1 : f1[m] \in L1 /\ g1[f1[m]] = m,
         NEW u, u = Longer(s, a, n)
  PROVE  Strung(L1, f1, g1, u, a + 1, t, b)
<1>1. /\ a \in Nat /\ b \in Nat /\ s[a + 1] = s[0]
      /\ \A k \in 0..a : s[k] \in L /\ f[s[k]] = s[k + 1]
      /\ \A j, k \in 0..a : s[j] = s[k] => j = k
      /\ \A k \in 0..b : t[k] \in L
      /\ \A j \in 0..a, k \in 0..b : s[j] # t[k]
      /\ L \subseteq Nodes /\ f \in Links
  BY DEF Strung, Ring
<1>2. a \in 0..a /\ a + 1 \in Nat /\ (a + 1) + 1 = a + 2 /\ 0 \in 0..a
  BY <1>1, SMT
<1>3. f[s[a]] = s[0] /\ g[s[0]] = s[a] /\ s[a] \in L /\ s[a] # n
  <2>1. f[s[a]] = s[0] /\ s[a] \in L
    BY <1>1, <1>2
  <2>2. g[f[s[a]]] = s[a]
    BY <2>1 DEF Strung
  <2>3. QED
    BY <2>1, <2>2
<1>4. /\ f1[n] = s[0] /\ f1[s[a]] = n /\ \A m \in L : m # s[a] => f1[m] = f[m]
      /\ f1 \in Links
  <2>1. h \in Nodes /\ n \in Nodes /\ s[a] \in Nodes
    BY <1>1, <1>2
  <2>2. f1 = [f EXCEPT ![n] = s[0], ![s[a]] = n]
    BY <1>3
  <2>3. QED
    BY <1>1, <1>2, <1>3, <2>1, <2>2 DEF Links
<1>5. /\ \A k \in 0..a : u[k] = s[k]
      /\ u[a + 1] = n /\ u[(a + 1) + 1] = s[0]
  BY <1>1, <1>2, SMT DEF Longer
<1>6. \A k \in 0..(a + 1) : k \in 0..a \/ k = a + 1
  BY <1>1, SMT
<1>7. \A k \in 0..a : k + 1 \in 0..a \/ k = a
  BY <1>1, SMT
<1>8. Ring(L1, f1, u, a + 1)
  <2>1. u[(a + 1) + 1] = u[0]
    BY <1>2, <1>5
  <2>2. ASSUME NEW k \in 0..(a + 1) PROVE u[k] \in L1 /\ f1[u[k]] = u[k + 1]
    <3>1. CASE k = a + 1
      BY <1>4, <1>5, <3>1
    <3>2. CASE k = a
      BY <1>2, <1>3, <1>4, <1>5, <3>2
    <3>3. CASE k \in 0..a /\ k # a
      <4>1. u[k] = s[k] /\ s[k] \in L /\ k + 1 \in 0..a /\ f[s[k]] = s[k + 1] /\ s[k] # s[a]
        BY <1>1, <1>2, <1>5, <1>7, <3>3
      <4>2. u[k + 1] = s[k + 1]
        BY <1>5, <4>1
      <4>3. QED
        BY <1>4, <4>1, <4>2
    <3>4. QED
      BY <1>6, <3>1, <3>2, <3>3
  <2>3. ASSUME NEW j \in 0..(a + 1), NEW k \in 0..(a + 1), u[j] = u[k] PROVE j = k
    <3>1. \A m \in 0..a : u[m] # n
      BY <1>1, <1>5
    <3>2. QED
      BY <1>1, <1>5, <1>6, <2>3, <3>1
  <2>4. QED
    BY <1>2, <2>1, <2>2, <2>3, Zenon DEF Ring
<1>9. Ring(L1, f1, t, b)
  <2>1. Ring(L, f, t, b)
    BY DEF Strung
  <2>2. Apart(L1, f, f1, t, b)
    <3>1. ASSUME NEW k \in 0..b PROVE t[k] \in L /\ t[k] # s[a]
      BY <1>1, <1>2
    <3>2. QED
      BY <1>4, <3>1 DEF Apart
  <2>3. QED
    BY <2>1, <2>2, OtherRing
<1>10. \A j \in 0..(a + 1), k \in 0..b : u[j] # t[k]
  BY <1>1, <1>5, <1>6
<1>11. L1 \in SUBSET Nodes
  BY <1>1
<1>12. QED
  BY <1>4, <1>8, <1>9, <1>10, <1>11, Zenon DEF Strung

(* list_del.                                                               *)
At(s, a, q, n) == q \in 1..a /\ n = s[q]
Shortened(s, a, q) == [k \in 0..a |-> IF k < q THEN s[k] ELSE s[k + 1]]

LEMMA RemoveStrung ==
  ASSUME NEW L, NEW f, NEW g, NEW s, NEW a, NEW t, NEW b, Strung(L, f, g, s, a, t, b),
         NEW q, NEW n, At(s, a, q, n),
         NEW f1, f1 = [f EXCEPT ![g[n]] = f[n], ![n] = Poison],
         NEW g1, g1 \in Links, NEW L1, L1 = L \ {n},
         \A m \in L1 : f1[m] \in L1 /\ g1[f1[m]] = m,
         NEW u, u = Shortened(s, a, q)
  PROVE  Strung(L1, f1, g1, u, a - 1, t, b)
<1>0. q \in 1..a /\ n = s[q]
  BY DEF At
<1>1. /\ a \in Nat /\ b \in Nat /\ s[a + 1] = s[0]
      /\ \A k \in 0..a : s[k] \in L /\ f[s[k]] = s[k + 1]
      /\ \A j, k \in 0..a : s[j] = s[k] => j = k
      /\ \A k \in 0..b : t[k] \in L
      /\ \A j \in 0..a, k \in 0..b : s[j] # t[k]
      /\ L \subseteq Nodes /\ f \in Links
  BY DEF Strung, Ring
<1>2. /\ q \in 0..a /\ q - 1 \in 0..a /\ (q - 1) + 1 = q /\ a - 1 \in Nat /\ (a - 1) + 1 = a
      /\ q - 1 # q /\ 0 \in 0..a /\ q \in Nat
  BY <1>0, <1>1, SMT
<1>3. f[s[q - 1]] = n /\ g[n] = s[q - 1] /\ s[q - 1] \in L /\ n \in L /\ s[q - 1] # n
  <2>1. f[s[q - 1]] = n /\ s[q - 1] \in L
    BY <1>0, <1>1, <1>2
  <2>2. g[f[s[q - 1]]] = s[q - 1]
    BY <1>0, <2>1 DEF Strung
  <2>3. QED
    BY <1>0, <1>1, <1>2, <2>1, <2>2
<1>4. /\ f1[s[q - 1]] = s[q + 1] /\ \A m \in L : m # s[q - 1] /\ m # n => f1[m] = f[m]
      /\ f1 \in Links
  <2>1. n \in Nodes /\ s[q - 1] \in Nodes /\ f[n] = s[q + 1] /\ f[n] \in Nodes
    <3>1. n \in Nodes /\ s[q - 1] \in Nodes /\ f[n] = s[q + 1]
      BY <1>0, <1>1, <1>2, <1>3
    <3>2. f[n] \in L
      BY <1>0, <1>3 DEF Strung
    <3>3. QED
      BY <1>0, <1>1, <3>1, <3>2
  <2>2. f1 = [f EXCEPT ![s[q - 1]] = s[q + 1], ![n] = Poison]
    BY <1>0, <1>3, <2>1
  <2>3. s[q + 1] \in Nodes
    BY <1>0, <2>1
  <2>4. QED
    BY <1>0, <1>1, <1>3, <2>1, <2>2, <2>3 DEF Links
<1>5. \A k \in 0..a : u[k] = IF k < q THEN s[k] ELSE s[k + 1]
  BY DEF Shortened
<1>6. /\ u[0] = s[0] /\ u[(a - 1) + 1] = s[0]
  <2>1. 0 < q /\ a \in 0..a /\ ~(a < q)
    BY <1>0, <1>1, SMT
  <2>2. QED
    BY <1>0, <1>1, <1>2, <1>5, <2>1
<1>7. ASSUME NEW k \in 0..(a - 1)
      PROVE  u[k] \in L1 /\ f1[u[k]] = u[k + 1]
  <2>1. k \in 0..a /\ k + 1 \in 0..a
    BY <1>0, <1>1, SMT
  <2>2. CASE k < q - 1
    <3>1. u[k] = s[k] /\ u[k + 1] = s[k + 1] /\ k # q /\ k # q - 1
      BY <1>0, <1>1, <1>5, <2>1, <2>2
    <3>2. s[k] \in L /\ s[k] # n /\ s[k] # s[q - 1] /\ f[s[k]] = s[k + 1]
      BY <1>0, <1>1, <1>2, <2>1, <3>1
    <3>3. QED
      BY <1>0, <1>4, <3>1, <3>2
  <2>3. CASE k = q - 1
    <3>1. u[k] = s[q - 1] /\ u[k + 1] = s[q + 1]
      <4>1. k < q /\ k + 1 = q /\ ~(q < q)
        BY <1>0, <1>2, <2>3, SMT
      <4>2. QED
        BY <1>0, <1>5, <2>1, <2>3, <4>1
    <3>2. QED
      BY <1>0, <1>3, <1>4, <3>1
  <2>4. CASE k >= q
    <3>1. u[k] = s[k + 1] /\ u[k + 1] = s[(k + 1) + 1] /\ k + 1 # q /\ k + 1 # q - 1
      BY <1>0, <1>1, <1>5, <2>1, <2>4
    <3>2. s[k + 1] \in L /\ s[k + 1] # n /\ s[k + 1] # s[q - 1] /\ f[s[k + 1]] = s[(k + 1) + 1]
      <4>1. PICK j \in 0..a : j = k + 1 /\ j # q /\ j # q - 1
        BY <1>0, <2>1, <3>1
      <4>2. s[j] \in L /\ s[j] # n /\ s[j] # s[q - 1] /\ f[s[j]] = s[j + 1]
        BY <1>0, <1>1, <1>2, <4>1
      <4>3. QED
        BY <4>1, <4>2
    <3>3. QED
      BY <1>0, <1>4, <3>1, <3>2
  <2>5. QED
    BY <1>0, <2>2, <2>3, <2>4
<1>8. \A k \in 0..(a - 1) : \E j \in 0..a : u[k] = s[j] /\ j = IF k < q THEN k ELSE k + 1
  <2> SUFFICES ASSUME NEW k \in 0..(a - 1)
               PROVE  \E j \in 0..a : u[k] = s[j] /\ j = IF k < q THEN k ELSE k + 1
    OBVIOUS
  <2>1. k \in 0..a /\ k + 1 \in 0..a
    BY <1>0, <1>1, SMT
  <2>2. QED
    BY <1>0, <1>5, <2>1
<1>9. Ring(L1, f1, u, a - 1)
  <2>1. ASSUME NEW j \in 0..(a - 1), NEW k \in 0..(a - 1), u[j] = u[k] PROVE j = k
    <3>1. PICK x \in 0..a : u[j] = s[x] /\ x = IF j < q THEN j ELSE j + 1
      BY <1>0, <1>8
    <3>2. PICK y \in 0..a : u[k] = s[y] /\ y = IF k < q THEN k ELSE k + 1
      BY <1>0, <1>8
    <3>3. s[x] = s[y]
      BY <1>0, <2>1, <3>1, <3>2, Zenon
    <3>4. x = y
      BY <1>0, <1>1, <3>3, Zenon
    <3>5. QED
      BY <1>0, <1>2, <3>1, <3>2, <3>4, SMT
  <2>2. QED
    BY <1>0, <1>2, <1>6, <1>7, <2>1, Zenon DEF Ring
<1>10. Ring(L1, f1, t, b)
  <2>1. Ring(L, f, t, b)
    BY DEF Strung
  <2>2. Apart(L1, f, f1, t, b)
    <3>1. ASSUME NEW k \in 0..b PROVE t[k] \in L /\ t[k] # s[q] /\ t[k] # s[q - 1]
      BY <1>0, <1>1, <1>2
    <3>2. QED
      BY <1>0, <1>4, <3>1 DEF Apart
  <2>3. QED
    BY <1>0, <2>1, <2>2, OtherRing
<1>11. \A j \in 0..(a - 1), k \in 0..b : u[j] # t[k]
  BY <1>0, <1>1, <1>8
<1>12. L1 \in SUBSET Nodes
  BY <1>0, <1>1
<1>13. QED
  BY <1>0, <1>4, <1>9, <1>10, <1>11, <1>12, Zenon DEF Strung

(* list_replace_init.                                                      *)
Exchanged(s, a, q, e) == [k \in 0..(a + 1) |-> IF k = q THEN e ELSE s[k]]

LEMMA ReplaceStrung ==
  ASSUME NEW L, NEW f, NEW g, NEW s, NEW a, NEW t, NEW b, Strung(L, f, g, s, a, t, b),
         NEW q, NEW p, At(s, a, q, p), NEW e \in Nodes, e \notin L,
         NEW f1, f1 = [f EXCEPT ![e] = f[p], ![g[p]] = e, ![p] = p],
         NEW g1, g1 \in Links, NEW L1, L1 = (L \ {p}) \cup {e},
         \A m \in L1 : f1[m] \in L1 /\ g1[f1[m]] = m,
         NEW u, u = Exchanged(s, a, q, e)
  PROVE  Strung(L1, f1, g1, u, a, t, b)
<1>0. q \in 1..a /\ p = s[q]
  BY DEF At
<1>1. /\ a \in Nat /\ b \in Nat /\ s[a + 1] = s[0]
      /\ \A k \in 0..a : s[k] \in L /\ f[s[k]] = s[k + 1]
      /\ \A j, k \in 0..a : s[j] = s[k] => j = k
      /\ \A k \in 0..b : t[k] \in L
      /\ \A j \in 0..a, k \in 0..b : s[j] # t[k]
      /\ L \subseteq Nodes /\ f \in Links
  BY DEF Strung, Ring
<1>2. /\ q \in 0..a /\ q - 1 \in 0..a /\ (q - 1) + 1 = q /\ q - 1 # q /\ q # 0 /\ q # a + 1
  BY <1>0, <1>1, SMT
<1>3. f[s[q - 1]] = p /\ g[p] = s[q - 1] /\ s[q - 1] \in L /\ p \in L /\ s[q - 1] # p
      /\ f[p] = s[q + 1]
  <2>1. f[s[q - 1]] = p /\ s[q - 1] \in L
    BY <1>0, <1>1, <1>2
  <2>2. g[f[s[q - 1]]] = s[q - 1]
    BY <2>1 DEF Strung
  <2>3. QED
    BY <1>1, <1>2, <2>1, <2>2
<1>4. /\ f1[s[q - 1]] = e /\ f1[e] = s[q + 1] /\ f1 \in Links
      /\ \A m \in L : m # s[q - 1] /\ m # p => f1[m] = f[m]
  <2>1. f[p] \in L
    BY <1>3 DEF Strung
  <2>2. p \in Nodes /\ s[q - 1] \in Nodes /\ s[q + 1] \in Nodes
    BY <1>1, <1>3, <2>1
  <2>3. f1 = [f EXCEPT ![e] = s[q + 1], ![s[q - 1]] = e, ![p] = p]
    BY <1>3
  <2>4. e # p /\ e # s[q - 1]
    BY <1>3
  <2>5. QED
    BY <1>1, <1>3, <2>2, <2>3, <2>4 DEF Links
<1>5. \A k \in 0..(a + 1) : u[k] = IF k = q THEN e ELSE s[k]
  BY DEF Exchanged
<1>6. u[q] = e /\ \A k \in 0..a : k # q => u[k] = s[k]
  BY <1>1, <1>2, <1>5, SMT
<1>7. u[0] = s[0] /\ u[a + 1] = s[0]
  BY <1>1, <1>2, <1>5, SMT
<1>8. ASSUME NEW k \in 0..a PROVE u[k] \in L1 /\ f1[u[k]] = u[k + 1]
  <2>0. k \in Nat /\ k + 1 \in 0..(a + 1)
    BY <1>1, SMT
  <2>1. CASE k = q
    <3>1. u[k + 1] = s[q + 1]
      <4>1. k + 1 # q
        BY <2>0, <2>1, SMT
      <4>2. QED
        BY <1>5, <2>0, <2>1, <4>1
    <3>2. QED
      BY <1>4, <1>6, <2>1, <3>1
  <2>2. CASE k = q - 1
    <3>1. u[k] = s[q - 1] /\ u[k + 1] = e
      BY <1>2, <1>6, <2>2
    <3>2. QED
      BY <1>3, <1>4, <3>1
  <2>3. CASE k # q /\ k # q - 1
    <3>1. k + 1 # q
      BY <1>2, <2>0, <2>3, SMT
    <3>2. u[k] = s[k] /\ u[k + 1] = s[k + 1]
      BY <1>5, <1>6, <2>0, <2>3, <3>1
    <3>3. s[k] \in L /\ s[k] # p /\ s[k] # s[q - 1] /\ f[s[k]] = s[k + 1]
      BY <1>0, <1>1, <1>2, <2>3
    <3>4. QED
      BY <1>4, <3>2, <3>3
  <2>4. QED
    BY <2>1, <2>2, <2>3
<1>9. Ring(L1, f1, u, a)
  <2>1. ASSUME NEW j \in 0..a, NEW k \in 0..a, u[j] = u[k] PROVE j = k
    <3>1. \A m \in 0..a : m # q => u[m] # e /\ u[m] = s[m]
      BY <1>1, <1>6
    <3>2. CASE j = q \/ k = q
      BY <1>6, <2>1, <3>1, <3>2
    <3>3. CASE j # q /\ k # q
      <4>1. s[j] = s[k]
        BY <2>1, <3>1, <3>3
      <4>2. QED
        BY <1>1, <4>1, Zenon
    <3>4. QED
      BY <3>2, <3>3
  <2>2. u[a + 1] = u[0]
    BY <1>7
  <2>3. QED
    BY <1>1, <1>8, <2>1, <2>2, Zenon DEF Ring
<1>10. Ring(L1, f1, t, b)
  <2>1. Ring(L, f, t, b)
    BY DEF Strung
  <2>2. Apart(L1, f, f1, t, b)
    <3>1. ASSUME NEW k \in 0..b PROVE t[k] \in L /\ t[k] # s[q] /\ t[k] # s[q - 1]
      BY <1>1, <1>2
    <3>2. QED
      BY <1>0, <1>4, <3>1 DEF Apart
  <2>3. QED
    BY <2>1, <2>2, OtherRing
<1>11. \A j \in 0..a, k \in 0..b : u[j] # t[k]
  BY <1>1, <1>6
<1>12. L1 \in SUBSET Nodes
  BY <1>1
<1>13. QED
  BY <1>4, <1>9, <1>10, <1>11, <1>12, Zenon DEF Strung

(* list_splice_tail onto an empty list.                                    *)
Headed1(t, b, h) == [k \in 0..(b + 1) |-> IF k \in 1..b THEN t[k] ELSE h]

HeadOnly(h) == [k \in 0..1 |-> h]

LEMMA SpliceStrung ==
  ASSUME NEW L, NEW f, NEW g, NEW s, NEW t, NEW b, Strung(L, f, g, s, 0, t, b),
         b # 0, NEW h, h = s[0], NEW o, o = t[0],
         NEW f1, f1 = [f EXCEPT ![h] = f[o], ![g[o]] = h, ![o] = o],
         NEW g1, g1 \in Links, \A m \in L : f1[m] \in L /\ g1[f1[m]] = m,
         NEW u, u = Headed1(t, b, h), NEW v, v = HeadOnly(o)
  PROVE  Strung(L, f1, g1, u, b, v, 0)
<1>1. /\ b \in Nat /\ t[b + 1] = o
      /\ \A k \in 0..b : t[k] \in L /\ f[t[k]] = t[k + 1]
      /\ \A j, k \in 0..b : t[j] = t[k] => j = k
      /\ h \in L /\ \A k \in 0..b : t[k] # h
      /\ L \subseteq Nodes /\ f \in Links
  BY DEF Strung, Ring
<1>2. 0 \in 0..b /\ b \in 0..b /\ b \in 1..b /\ 1 \in 1..b /\ \A k \in 1..b : k \in 0..b
  BY <1>1, SMT
<1>3. f[o] = t[1] /\ f[t[b]] = o /\ g[o] = t[b] /\ o \in L /\ o # h /\ t[b] \in L
      /\ t[b] # o /\ t[b] # h
  <2>1. o \in L /\ o # h /\ t[b] \in L /\ t[b] # o /\ t[b] # h /\ f[t[b]] = o
    BY <1>1, <1>2
  <2>2. g[f[t[b]]] = t[b]
    BY <2>1 DEF Strung
  <2>3. f[t[0]] = t[0 + 1] /\ 0 + 1 = 1
    BY <1>1, <1>2
  <2>4. QED
    BY <2>1, <2>2, <2>3
<1>4. /\ f1[h] = t[1] /\ f1[t[b]] = h /\ f1[o] = o /\ f1 \in Links
      /\ \A m \in L : m # h /\ m # t[b] /\ m # o => f1[m] = f[m]
  <2>1. h \in Nodes /\ o \in Nodes /\ t[b] \in Nodes /\ t[1] \in Nodes
    BY <1>1, <1>2, <1>3
  <2>2. f1 = [f EXCEPT ![h] = t[1], ![t[b]] = h, ![o] = o]
    BY <1>3
  <2>3. QED
    BY <1>1, <1>3, <2>1, <2>2 DEF Links
<1>5. /\ u[0] = h /\ u[b + 1] = h /\ \A k \in 1..b : u[k] = t[k]
  BY <1>1, SMT DEF Headed1
<1>6. ASSUME NEW k \in 0..b PROVE u[k] \in L /\ f1[u[k]] = u[k + 1]
  <2>1. CASE k = 0
    BY <1>1, <1>2, <1>4, <1>5, <2>1
  <2>2. CASE k = b
    BY <1>1, <1>2, <1>3, <1>4, <1>5, <2>2
  <2>3. CASE k # 0 /\ k # b
    <3>1. k \in 1..b /\ k + 1 \in 1..b
      BY <1>1, <2>3, SMT
    <3>2. t[k] \in L /\ t[k] # h /\ t[k] # t[b] /\ t[k] # o /\ f[t[k]] = t[k + 1]
      BY <1>1, <1>2, <2>3, <3>1
    <3>3. QED
      BY <1>4, <1>5, <3>1, <3>2
  <2>4. QED
    BY <2>1, <2>2, <2>3
<1>7. Ring(L, f1, u, b)
  <2>1. ASSUME NEW j \in 0..b, NEW k \in 0..b, u[j] = u[k] PROVE j = k
    <3>1. \A m \in 0..b : m # 0 => m \in 1..b /\ u[m] # h /\ u[m] = t[m]
      <4>1. \A m \in 0..b : m # 0 => m \in 1..b
        BY <1>1, SMT
      <4>2. QED
        BY <1>1, <1>5, <4>1
    <3>2. CASE j = 0 \/ k = 0
      BY <1>5, <2>1, <3>1, <3>2
    <3>3. CASE j # 0 /\ k # 0
      <4>1. t[j] = t[k]
        BY <2>1, <3>1, <3>3
      <4>2. QED
        BY <1>1, <4>1, Zenon
    <3>4. QED
      BY <3>2, <3>3
  <2>2. u[b + 1] = u[0]
    BY <1>5
  <2>3. QED
    BY <1>1, <1>6, <2>1, <2>2, Zenon DEF Ring
<1>8. v[0] = o /\ v[1] = o
  BY DEF HeadOnly
<1>9. Ring(L, f1, v, 0)
  <2>1. \A k \in 0..0 : k = 0 /\ k + 1 = 1
    BY SMT
  <2>2. 0 \in Nat /\ 0 + 1 = 1
    BY SMT
  <2>3. QED
    BY <1>3, <1>4, <1>8, <2>1, <2>2, Zenon DEF Ring
<1>10. \A j \in 0..b, k \in 0..0 : u[j] # v[k]
  <2> SUFFICES ASSUME NEW j \in 0..b, NEW k \in 0..0 PROVE u[j] # v[k]
    OBVIOUS
  <2>1. v[k] = o
    BY <1>8
  <2>2. CASE j = 0
    BY <1>3, <1>5, <2>1, <2>2
  <2>3. CASE j # 0
    <3>1. j \in 1..b /\ 0 \in 0..b
      BY <1>1, <2>3, SMT
    <3>2. u[j] = t[j] /\ t[j] # t[0]
      BY <1>1, <1>5, <2>3, <3>1
    <3>3. QED
      BY <2>1, <3>2
  <2>4. QED
    BY <2>2, <2>3
<1>11. QED
  BY <1>1, <1>4, <1>7, <1>9, <1>10, Zenon DEF Strung
-----------------------------------------------------------------------------
(* What an extra item makes of an item with its offset.                    *)
Overlaid(old, add) == [k \in DOMAIN old |-> IF k <= Len(add) THEN add[k] ELSE old[k]]
Renewed(old, e) ==
  IF Len(e.data) < Len(old.data)
  THEN Item(e.ofs, e.data \o SubSeq(old.data, Len(e.data) + 1, Len(old.data)))
  ELSE e

LEMMA OverlaidIs ==
  ASSUME NEW S, NEW old \in Seq(S), NEW add \in Seq(S), Len(add) < Len(old)
  PROVE  add \o SubSeq(old, Len(add) + 1, Len(old)) = Overlaid(old, add)
<1>1. PICK x, y \in Nat : x = Len(add) /\ y = Len(old)
  BY LenProperties
<1>2. PICK r : r = SubSeq(old, x + 1, y)
  OBVIOUS
<1>3. x < y /\ x + 1 <= y + 1 /\ y - x \in Nat
  BY <1>1
<1>4. r \in Seq(S) /\ Len(r) = y - x /\ \A k \in 1..(y - x) : r[k] = old[x + k]
  <2>1. Within(S, Slice(old, x, y - x), old, x, y - x)
    BY <1>1, <1>3, Part
  <2>2. x + (y - x) = y
    BY <1>3
  <2>3. QED
    BY <1>2, <2>1, <2>2 DEF Within, Slice
<1>5. PICK c : c = add \o r
  OBVIOUS
<1>6. /\ c \in Seq(S) /\ Len(c) = y
      /\ \A k \in 1..x : c[k] = add[k]
      /\ \A k \in 1..(y - x) : c[x + k] = r[k]
  <2>1. Follow(S, Cat(add, r), add, r, x, y - x)
    BY <1>1, <1>3, <1>4, Behind
  <2>2. x + (y - x) = y
    BY <1>1, SMT
  <2>3. QED
    BY <1>5, <2>1, <2>2 DEF Follow, Cat
<1>7. PICK o : o = Overlaid(old, add)
  OBVIOUS
<1>8. o \in Seq(S)
  BY <1>7, Overwrite DEF Overlaid
<1>9. DOMAIN o = 1..y /\ \A k \in 1..y : o[k] = IF k <= x THEN add[k] ELSE old[k]
  BY <1>1, <1>7 DEF Overlaid
<1>10. Len(o) = y
  BY <1>1, <1>8, <1>9, LenProperties
<1>11. ASSUME NEW k \in 1..y PROVE c[k] = o[k]
  <2>1. CASE k <= x
    <3>1. k \in 1..x
      BY <2>1
    <3>2. QED
      BY <1>6, <1>9, <2>1, <3>1
  <2>2. CASE ~(k <= x)
    <3>1. k - x \in 1..(y - x) /\ x + (k - x) = k
      BY <2>2, SMT
    <3>2. r[k - x] = old[k] /\ c[k] = r[k - x]
      <4>1. PICK m \in 1..(y - x) : m = k - x /\ x + m = k
        BY <3>1
      <4>2. QED
        BY <1>4, <1>6, <4>1
    <3>3. QED
      BY <1>9, <2>2, <3>2
  <2>3. QED
    BY <2>1, <2>2
<1>12. c = o
  BY <1>6, <1>8, <1>10, <1>11, SeqEqual
<1>13. QED
  BY <1>1, <1>2, <1>5, <1>7, <1>12

LEMMA RenewedIs ==
  ASSUME NEW old \in ItemType, NEW e \in ItemType, old.ofs = e.ofs
  PROVE  /\ Renewed(old, e) \in ItemType /\ Renewed(old, e).ofs = old.ofs
         /\ Shorter(e.data, old.data) =>
              Renewed(old, e) = [old EXCEPT !.data = Overlaid(old.data, e.data)]
         /\ ~Shorter(e.data, old.data) => Renewed(old, e) = e
<1>1. /\ old.data \in Seq(0..255) /\ e.data \in Seq(0..255) /\ e.ofs \in Offset
      /\ old = [ofs |-> old.ofs, data |-> old.data]
  BY SMT DEF ItemType
<1>2. CASE Shorter(e.data, old.data)
  <2>1. PICK d : d = Overlaid(old.data, e.data)
    OBVIOUS
  <2>2. e.data \o SubSeq(old.data, Len(e.data) + 1, Len(old.data)) = d
    BY <1>1, <1>2, <2>1, OverlaidIs DEF Shorter
  <2>3. d \in Seq(0..255)
    BY <1>1, <2>1, Overwrite DEF Overlaid
  <2>4. Renewed(old, e) = Item(e.ofs, d)
    BY <1>2, <2>2 DEF Renewed, Shorter
  <2>5. Item(e.ofs, d) \in ItemType /\ Item(e.ofs, d).ofs = e.ofs
    BY <1>1, <2>3, SMT DEF Item, ItemType
  <2>6. [old EXCEPT !.data = d] = Item(e.ofs, d)
    BY SMT DEF ItemType, Item
  <2>7. QED
    BY <1>2, <2>1, <2>4, <2>5, <2>6
<1>3. CASE ~Shorter(e.data, old.data)
  BY <1>3 DEF Renewed, Shorter
<1>4. QED
  BY <1>2, <1>3

(* What the merge makes of an extra item.                                  *)
Accs == [base: Seq(ItemType), rest: Seq(ItemType)]
Hit(base, e) == \E k \in 1..Len(base) : base[k].ofs = e.ofs
Applies(acc, e, acc1) ==
  /\ Len(acc1.base) = Len(acc.base)
  /\ \A k \in 1..Len(acc.base) :
       acc1.base[k] = IF acc.base[k].ofs = e.ofs THEN Renewed(acc.base[k], e) ELSE acc.base[k]
  /\ \A k \in 1..Len(acc.base) : acc1.base[k].ofs = acc.base[k].ofs
  /\ Hit(acc.base, e) => acc1.rest = acc.rest
  /\ ~Hit(acc.base, e) => acc1.rest = Append(acc.rest, e)

LEMMA ApplyIs ==
  ASSUME NEW acc \in Accs, NEW e \in ItemType
  PROVE  Apply(acc, e) \in Accs /\ Applies(acc, e, Apply(acc, e))
<1>1. PICK b, c : b = acc.base /\ c = acc.rest
  OBVIOUS
<1>2. b \in Seq(ItemType) /\ c \in Seq(ItemType) /\ acc = [base |-> b, rest |-> c]
  BY <1>1, SMT DEF Accs
<1>3. PICK n \in Nat : n = Len(b)
  BY <1>2, LenProperties
<1>4. DOMAIN b = 1..n /\ \A k \in 1..n : b[k] \in ItemType
  BY <1>2, <1>3, LenProperties, ElementOfSeq
<1>5. PICK hit : hit = {k \in 1..n : b[k].ofs = e.ofs}
  OBVIOUS
<1>6. PICK nb : nb = [k \in 1..n |-> IF k \in hit THEN Renewed(b[k], e) ELSE b[k]]
  OBVIOUS
<1>7. \A k \in 1..n : nb[k] = IF b[k].ofs = e.ofs THEN Renewed(b[k], e) ELSE b[k]
  BY <1>5, <1>6
<1>8. ASSUME NEW k \in 1..n PROVE nb[k] \in ItemType /\ nb[k].ofs = b[k].ofs
  <2>1. CASE b[k].ofs = e.ofs
    BY <1>4, <1>7, <2>1, RenewedIs
  <2>2. CASE b[k].ofs # e.ofs
    BY <1>4, <1>7, <2>2
  <2>3. QED
    BY <2>1, <2>2
<1>9. nb \in Seq(ItemType) /\ Len(nb) = n
  <2>1. nb \in [1..n -> ItemType]
    BY <1>6, <1>7, <1>8
  <2>2. nb \in Seq(ItemType)
    BY <2>1, SeqDef, Zenon
  <2>3. DOMAIN nb = 1..n
    BY <1>6
  <2>4. QED
    BY <1>3, <2>2, <2>3, LenProperties
<1>10. Hit(b, e) <=> hit # {}
  BY <1>3, <1>5 DEF Hit
<1>11. Apply(acc, e) = IF hit = {} THEN [acc EXCEPT !.rest = Append(c, e)]
                       ELSE [acc EXCEPT !.base = nb]
  <2>1. {k \in DOMAIN acc.base : acc.base[k].ofs = e.ofs} = hit
    BY <1>1, <1>4, <1>5
  <2>2. DOMAIN acc.base = 1..n /\ acc.base = b /\ acc.rest = c
    BY <1>1, <1>4
  <2>3. QED
    BY <1>6, <2>1, <2>2, Zenon DEF Apply, Renewed
<1>12. CASE hit = {}
  <2>2. Append(c, e) \in Seq(ItemType)
    BY <1>2
  <2>3. PICK x : x = Append(c, e)
    OBVIOUS
  <2>a. Apply(acc, e) = [acc EXCEPT !.rest = x]
    BY <1>11, <1>12, <2>3, Zenon
  <2>1. Apply(acc, e) = [base |-> b, rest |-> x]
    BY <1>2, <2>a, SMT
  <2>4. \A k \in 1..n : b[k].ofs # e.ofs
    BY <1>5, <1>12
  <2>5. Applies(acc, e, [base |-> b, rest |-> x])
    BY <1>1, <1>3, <1>10, <1>12, <2>3, <2>4 DEF Applies
  <2>6. [base |-> b, rest |-> x] \in Accs
    BY <1>2, <2>2, <2>3 DEF Accs
  <2>7. QED
    BY <2>1, <2>3, <2>5, <2>6
<1>13. CASE hit # {}
  <2>1. Apply(acc, e) = [base |-> nb, rest |-> c]
    BY <1>2, <1>11, <1>13, SMT
  <2>2. Applies(acc, e, [base |-> nb, rest |-> c])
    BY <1>1, <1>3, <1>7, <1>8, <1>9, <1>10, <1>13 DEF Applies
  <2>3. [base |-> nb, rest |-> c] \in Accs
    BY <1>2, <1>9 DEF Accs
  <2>4. QED
    BY <2>1, <2>2, <2>3
<1>14. QED
  BY <1>12, <1>13

(* The accumulated lists, from each extra item to the next.                *)
IsChain(acc, base, extras) ==
  /\ \A k \in 0..Len(extras) : acc[k] \in Accs
  /\ acc[0] = [base |-> base, rest |-> << >>]
  /\ \A k \in 1..Len(extras) : acc[k] = Apply(acc[k - 1], extras[k])

LEMMA AppliedSteps ==
  ASSUME NEW base \in Seq(ItemType), NEW extras \in Seq(ItemType),
         NEW acc, acc = Applied(base, extras)
  PROVE  IsChain(acc, base, extras)
<1> DEFINE n == Len(extras)
           start == [base |-> base, rest |-> << >>]
           Built(g) == [k \in 0..n |-> IF k = 0 THEN start ELSE Apply(g[k - 1], extras[k])]
           F == [p \in (1..n) \X Accs |-> Apply(p[2], extras[p[1]])]
<1>1. n \in Nat /\ \A k \in 1..n : extras[k] \in ItemType
  BY LenProperties, ElementOfSeq
<1>2. Stepper(F, n, Accs)
  <2>1. \A a \in Accs : \A k \in 1..n : Apply(a, extras[k]) \in Accs
    BY <1>1, ApplyIs
  <2>2. QED
    BY <2>1 DEF Stepper
<1>3. start \in Accs
  BY SMT DEF Accs
<1> HIDE DEF n, F, start
<1>a. n \in Nat
  BY <1>1
<1>b. PICK f : Unrolled(f, F, n, Accs, start)
  BY <1>a, <1>2, <1>3, Recursion, Zenon
<1>4. f \in [0..n -> Accs] /\ f[0] = start /\ \A k \in 1..n : f[k] = F[<<k, f[k - 1]>>]
  BY <1>b DEF Unrolled
<1>5. \A k \in 0..n : k # 0 => k \in 1..n /\ k - 1 \in 0..n
  BY <1>1, SMT
<1>6. \A k \in 1..n : k - 1 \in 0..n /\ k \in 0..n /\ k # 0
  BY <1>1, SMT
<1>7. \A k \in 1..n : f[k] = Apply(f[k - 1], extras[k])
  BY <1>4, <1>6 DEF F
<1>8. f = Built(f)
  BY <1>4, <1>5, <1>7
<1>9. acc = Built(acc)
  <2>1. acc = CHOOSE g : g = Built(g)
    BY DEF Applied, n, start
  <2>2. QED
    BY <1>8, <2>1, Zenon
<1>10. acc[0] = start /\ \A k \in 1..n : acc[k] = Apply(acc[k - 1], extras[k])
  <2>1. 0 \in 0..n
    BY <1>a, SMT
  <2>2. \A k \in 0..n : acc[k] = IF k = 0 THEN start ELSE Apply(acc[k - 1], extras[k])
    BY <1>9, Zenon
  <2>3. QED
    BY <1>6, <2>1, <2>2, Zenon
<1> DEFINE T == {k \in 0..n : acc[k] \in Accs}
<1>11. \A k \in 0..n : k \in T
  <2>1. 0 \in T
    BY <1>3, <1>10, <1>a
  <2>2. ASSUME NEW k \in 0..n, k < n, k \in T PROVE k + 1 \in T
    <3>1. k + 1 \in 1..n /\ k + 1 \in 0..n /\ (k + 1) - 1 = k
      BY <1>a, <2>2, SMT
    <3>2. acc[k + 1] = Apply(acc[k], extras[k + 1])
      BY <1>10, <3>1
    <3>3. QED
      BY <1>1, <2>2, <3>1, <3>2, ApplyIs DEF n
  <2> HIDE DEF T
  <2>3. QED
    BY <1>a, <2>1, <2>2, UpTo
<1>12. QED
  BY <1>10, <1>11 DEF IsChain, n, start

(* What is true of all of them: the items of the file keep their places    *)
(* and offsets, and the extra items that are new are those of any that is  *)
(* not in the file.                                                        *)
Chain(acc, base, extras) ==
  /\ acc[0].base = base /\ Len(acc[0].rest) = 0
  /\ \A k \in 0..Len(extras) :
       /\ acc[k].base \in Seq(ItemType) /\ acc[k].rest \in Seq(ItemType)
       /\ Len(acc[k].base) = Len(base)
       /\ \A j \in 1..Len(base) : acc[k].base[j].ofs = base[j].ofs
  /\ \A k \in 1..Len(extras) : Applies(acc[k - 1], extras[k], acc[k])

LEMMA ChainIs ==
  ASSUME NEW base \in Seq(ItemType), NEW extras \in Seq(ItemType)
  PROVE  Chain(Applied(base, extras), base, extras)
<1>1. PICK acc : acc = Applied(base, extras)
  OBVIOUS
<1>2. PICK n, m \in Nat : n = Len(extras) /\ m = Len(base)
  BY LenProperties
<1>3. IsChain(acc, base, extras)
  BY <1>1, AppliedSteps
<1>4. /\ \A k \in 0..n : acc[k] \in Accs
      /\ acc[0] = [base |-> base, rest |-> << >>]
      /\ \A k \in 1..n : acc[k] = Apply(acc[k - 1], extras[k])
  BY <1>2, <1>3 DEF IsChain
<1>5. \A k \in 1..n : k - 1 \in 0..n /\ extras[k] \in ItemType
  BY <1>2, ElementOfSeq
<1>6. \A k \in 1..n : Applies(acc[k - 1], extras[k], acc[k])
  <2> SUFFICES ASSUME NEW k \in 1..n PROVE Applies(acc[k - 1], extras[k], acc[k])
    OBVIOUS
  <2>1. PICK a \in Accs : a = acc[k - 1]
    BY <1>4, <1>5
  <2>2. acc[k] = Apply(a, extras[k])
    BY <1>4, <2>1
  <2>3. QED
    BY <1>5, <2>1, <2>2, ApplyIs
<1>7. acc[0].base = base /\ Len(acc[0].rest) = 0
  BY <1>4
<1>8. \A k \in 0..n : acc[k].base \in Seq(ItemType) /\ acc[k].rest \in Seq(ItemType)
  BY <1>4 DEF Accs
<1> DEFINE T == {k \in 0..n : /\ Len(acc[k].base) = m
                              /\ \A j \in 1..m : acc[k].base[j].ofs = base[j].ofs}
<1>9. \A k \in 0..n : k \in T
  <2>1. 0 \in T
    BY <1>2, <1>7
  <2>2. ASSUME NEW k \in 0..n, k < n, k \in T PROVE k + 1 \in T
    <3>1. k + 1 \in 1..n /\ k + 1 \in 0..n /\ (k + 1) - 1 = k
      BY <1>2, <2>2, SMT
    <3>2. Applies(acc[k], extras[k + 1], acc[k + 1])
      BY <1>6, <3>1
    <3>3. /\ Len(acc[k + 1].base) = Len(acc[k].base)
          /\ \A j \in 1..Len(acc[k].base) : acc[k + 1].base[j].ofs = acc[k].base[j].ofs
      BY <3>2 DEF Applies
    <3>4. QED
      BY <2>2, <3>1, <3>3
  <2> HIDE DEF T
  <2>3. QED
    BY <1>2, <2>1, <2>2, UpTo
<1>10. QED
  BY <1>1, <1>2, <1>6, <1>7, <1>8, <1>9 DEF Chain

(* Nothing of the file: all are new.                                       *)
Fresh(rest, extras, k) == Len(rest) = k /\ \A j \in 1..k : rest[j] = extras[j]

LEMMA AllNew ==
  ASSUME NEW base \in Seq(ItemType), NEW extras \in Seq(ItemType), Len(base) = 0,
         NEW acc, acc = Applied(base, extras), NEW n \in Nat, n = Len(extras)
  PROVE  Fresh(acc[n].rest, extras, n)
<1>1. Chain(acc, base, extras)
  BY ChainIs
<1>2. /\ Len(acc[0].rest) = 0
      /\ \A k \in 0..n : acc[k].rest \in Seq(ItemType) /\ Len(acc[k].base) = 0
      /\ \A k \in 1..n : Applies(acc[k - 1], extras[k], acc[k])
  BY <1>1 DEF Chain
<1> DEFINE T == {k \in 0..n : /\ Len(acc[k].rest) = k
                              /\ \A j \in 1..k : acc[k].rest[j] = extras[j]}
<1>3. 0 \in T
  BY <1>2
<1>4. ASSUME NEW k \in 0..n, k < n, k \in T PROVE k + 1 \in T
  <2>1. k + 1 \in 1..n /\ k + 1 \in 0..n /\ (k + 1) - 1 = k
    BY <1>4, SMT
  <2>2. ~Hit(acc[k].base, extras[k + 1])
    BY <1>2, SMT DEF Hit
  <2>3. Applies(acc[k], extras[k + 1], acc[k + 1])
    BY <1>2, <2>1
  <2>4. PICK r \in Seq(ItemType) : r = acc[k].rest
    BY <1>2
  <2>5. extras[k + 1] \in ItemType
    BY <2>1, ElementOfSeq
  <2>6. acc[k + 1].rest = Append(r, extras[k + 1])
    BY <2>2, <2>3, <2>4 DEF Applies
  <2>7. PICK r1 : r1 = Append(r, extras[k + 1])
    OBVIOUS
  <2>8. /\ Len(r1) = Len(r) + 1 /\ r1[Len(r) + 1] = extras[k + 1]
        /\ \A j \in 1..Len(r) : r1[j] = r[j]
    BY <2>4, <2>5, <2>7, AppendProperties
  <2>9. Len(r) = k /\ \A j \in 1..k : r[j] = extras[j]
    BY <1>4, <2>4
  <2>10. \A j \in 1..(k + 1) : j \in 1..k \/ j = k + 1
    BY <1>4, SMT
  <2>11. QED
    BY <2>1, <2>6, <2>7, <2>8, <2>9, <2>10
<1>5. \A k \in 0..n : k \in T
  <2> HIDE DEF T
  <2>1. QED
    BY <1>3, <1>4, UpTo
<1>6. n \in 0..n
  BY SMT
<1>7. QED
  BY <1>5, <1>6 DEF Fresh
-----------------------------------------------------------------------------
(* The items taken from the lines.                                         *)
IsTaken(acc, lines) ==
  /\ \A k \in 0..Len(lines) : acc[k] \in Seq(ItemType)
  /\ acc[0] = << >>
  /\ \A k \in 1..Len(lines) :
       acc[k] = IF ~WellFormed(lines[k]) THEN acc[k - 1]
                ELSE Append(acc[k - 1], Item(lines[k].ofs, lines[k].data))

LEMMA TakenIs == ASSUME NEW lines \in Seq(LineType) PROVE IsTaken(Taken(lines), lines)
<1> DEFINE n == Len(lines)
           D == Seq(ItemType)
           More(k, a) == IF ~WellFormed(lines[k]) THEN a
                         ELSE Append(a, Item(lines[k].ofs, lines[k].data))
           Built(g) == [k \in 0..n |->
                          IF k = 0 THEN << >>
                          ELSE IF ~WellFormed(lines[k]) THEN g[k - 1]
                          ELSE Append(g[k - 1], Item(lines[k].ofs, lines[k].data))]
           F == [p \in (1..n) \X D |-> More(p[1], p[2])]
<1>1. n \in Nat /\ \A k \in 1..n : lines[k] \in LineType
  BY LenProperties, ElementOfSeq
<1>2. \A k \in 1..n : Item(lines[k].ofs, lines[k].data) \in ItemType
  BY <1>1, SMT DEF LineType, ItemType, Item
<1>3. \A a \in D : \A k \in 1..n : More(k, a) \in D
  BY <1>2
<1>4. Stepper(F, n, D)
  BY <1>3 DEF Stepper
<1>5. << >> \in D
  OBVIOUS
<1> HIDE DEF n, D, F, More
<1>a. n \in Nat
  BY <1>1
<1>b. PICK f : Unrolled(f, F, n, D, << >>)
  BY <1>a, <1>4, <1>5, Recursion, Zenon
<1>6. f \in [0..n -> D] /\ f[0] = << >> /\ \A k \in 1..n : f[k] = F[<<k, f[k - 1]>>]
  BY <1>b DEF Unrolled
<1>7. \A k \in 0..n : k # 0 => k \in 1..n /\ k - 1 \in 0..n
  BY <1>1, SMT
<1>8. \A k \in 1..n : k - 1 \in 0..n /\ k \in 0..n /\ k # 0
  BY <1>1, SMT
<1>9. \A k \in 1..n : f[k] = More(k, f[k - 1])
  BY <1>6, <1>8 DEF F
<1>10. f = Built(f)
  <2>1. \A k \in 0..n : f[k] = IF k = 0 THEN << >> ELSE More(k, f[k - 1])
    BY <1>6, <1>7, <1>9
  <2>2. f = [k \in 0..n |-> f[k]]
    BY <1>6
  <2>3. QED
    BY <2>1, <2>2, Zenon DEF More
<1>11. PICK acc : acc = Taken(lines)
  OBVIOUS
<1>12. acc = Built(acc)
  <2>1. acc = CHOOSE g : g = Built(g)
    BY <1>11 DEF Taken, n
  <2>2. QED
    BY <1>10, <2>1, Zenon
<1>13. acc[0] = << >> /\ \A k \in 1..n : acc[k] = More(k, acc[k - 1])
  <2>1. 0 \in 0..n
    BY <1>a, SMT
  <2>2. \A k \in 0..n : acc[k] = IF k = 0 THEN << >> ELSE More(k, acc[k - 1])
    BY <1>12, Zenon DEF More
  <2>3. QED
    BY <1>8, <2>1, <2>2, Zenon
<1> DEFINE T == {k \in 0..n : acc[k] \in D}
<1>14. \A k \in 0..n : k \in T
  <2>1. 0 \in T
    BY <1>5, <1>13, <1>a
  <2>2. ASSUME NEW k \in 0..n, k < n, k \in T PROVE k + 1 \in T
    <3>1. k + 1 \in 1..n /\ k + 1 \in 0..n /\ (k + 1) - 1 = k
      BY <1>a, <2>2, SMT
    <3>2. acc[k + 1] = More(k + 1, acc[k])
      BY <1>13, <3>1
    <3>3. QED
      BY <1>3, <2>2, <3>1, <3>2
  <2> HIDE DEF T
  <2>3. QED
    BY <1>a, <2>1, <2>2, UpTo
<1>15. QED
  BY <1>11, <1>13, <1>14, Zenon DEF IsTaken, More, n, D

-----------------------------------------------------------------------------
(* What the two lists say at each step: s are the nodes of the first, t    *)
(* those of the second.                                                    *)
Acc   == Applied(Base, Extras)
Whole == Merged(Base, Extras)

Shows(s, a, c) == Len(c) = a /\ \A k \in 1..a : item[s[k]] = c[k]

(* The extra items that are still to come: from the y-th on, behind those  *)
(* found to be new.                                                        *)
ToCome(t, b, rest, y) ==
  /\ b = Len(rest) + (Len(Extras) + 1 - y)
  /\ \A k \in 1..Len(rest) : item[t[k]] = rest[k]
  /\ \A j \in y..Len(Extras) : item[t[Len(rest) + 1 + (j - y)]] = Extras[j]

(* The items before the q-th are those after this extra item.              *)
Renewing(s, a, c, d, q) == \A k \in 1..a : item[s[k]] = IF k < q THEN d[k] ELSE c[k]

(* The search for the like of the x-th extra item is at the q-th item; it  *)
(* was found, and is gone from the second list, if y is x + 1.             *)
Midway(s, a, t, b, x, y, q) ==
  /\ a = Len(Base) /\ x \in 1..Len(Extras) /\ y \in {x, x + 1} /\ q \in 1..(a + 1)
  /\ pos = s[q] /\ item[epos] = Extras[x]
  /\ y = x => epos = t[Len(Acc[x - 1].rest) + 1]
  /\ enext = t[Len(Acc[x - 1].rest) + 2 + (x - y)]
  /\ y = x + 1 <=> \E k \in 1..(q - 1) : Base[k].ofs = Extras[x].ofs
  /\ Renewing(s, a, Acc[x - 1].base, Acc[x].base, q)
  /\ ToCome(t, b, Acc[x - 1].rest, y)

Appending(s, a, t, b) ==
  /\ Len(Whole) = a + b
  /\ \A k \in 1..a : item[s[k]] = Whole[k]
  /\ \A k \in 1..b : item[t[k]] = Whole[a + k]

Says(s, a, t, b) ==
  /\ pc = "lines" => a = 0 /\ Shows(t, b, Taken(input.lines)[line - 1])
  /\ pc = "file"  => a = 0 /\ Shows(t, b, Extras)
  /\ pc = "parse" =>
       /\ Shows(t, b, Extras) /\ a \in 0..Len(Base) /\ bytes = Encoded(Base)[a + 1]
       /\ \A k \in 1..a : item[s[k]] = Base[k]
  /\ pc = "merge"  => \E x, y, q \in Nat : Midway(s, a, t, b, x, y, q)
  /\ pc = "append" => Appending(s, a, t, b)
  /\ pc = "emit"   => Shows(s, a, Whole)

Stands(s, a, t, b) ==
  /\ s[0] = cfg /\ t[0] = ext /\ Strung(Live, next, prev, s, a, t, b) /\ Says(s, a, t, b)

Content ==
  /\ pc \in {"lines", "file", "parse", "merge", "append", "emit"} =>
       \E s, a, t, b : Stands(s, a, t, b)
  /\ pc \in {"parse", "merge", "append", "emit"} => Usable
  /\ pc = "free" => (Usable => out = File(Whole))
  /\ pc = "done" => Usable /\ out = File(Whole)
  /\ pc = "none" => ~Usable
  /\ pc # "crash"

LEMMA ExtrasTyped ==
  ASSUME Types
  PROVE  /\ Base \in Seq(ItemType) /\ Extras \in Seq(ItemType)
         /\ IsTaken(Taken(input.lines), input.lines)
         /\ Taken(input.lines)[Len(input.lines)] \in Seq(ItemType)
         /\ input.mac \in Seq(ItemType) /\ input.lines \in Seq(LineType)
<1>1. /\ Base \in Seq(ItemType) /\ input.lines \in Seq(LineType)
      /\ input.mac \in Seq(ItemType)
  BY InputTyped
<1>2. IsTaken(Taken(input.lines), input.lines)
  BY <1>1, TakenIs
<1>3. Len(input.lines) \in 0..Len(input.lines)
  BY <1>1, LenProperties, SMT
<1>4. Taken(input.lines)[Len(input.lines)] \in Seq(ItemType)
  BY <1>2, <1>3 DEF IsTaken
<1>5. Extras \in Seq(ItemType)
  BY <1>1, <1>4, ConcatProperties DEF Extras
<1>6. QED
  BY <1>1, <1>2, <1>4, <1>5

(* The heap is linked as AppendStrung and its like want it.                *)
HeapWhole == /\ Live \in SUBSET Nodes /\ next \in Links /\ prev \in Links
             /\ \A m \in Live : next[m] \in Live /\ prev[next[m]] = m

LEMMA HeapLinked == IInv => HeapWhole
  BY LiveNodes DEF IInv, Known, Rings, HeapWhole, Types
LEMMA HeapLinkedNext == IInv' => HeapWhole'
<1> SUFFICES ASSUME IInv' PROVE HeapWhole'
  OBVIOUS
<1>1. Live' \in SUBSET Nodes
  BY NodeFacts DEF Live
<1>2. QED
  BY <1>1 DEF IInv, Known, Rings, HeapWhole, Types
-----------------------------------------------------------------------------
LEMMA SaidSame ==
  ASSUME UNCHANGED input
  PROVE  /\ Base' = Base /\ Extras' = Extras /\ Acc' = Acc /\ Whole' = Whole
         /\ Usable' = Usable
  BY DEF Base, Extras, Acc, Whole, Usable

(* The items of the lists are no heads.                                    *)
LEMMA ItemsInside ==
  ASSUME NEW L, NEW f, NEW g, NEW s, NEW a, NEW t, NEW b, Strung(L, f, g, s, a, t, b),
         s[0] \in Heads, t[0] \in Heads
  PROVE  /\ a \in Nat /\ b \in Nat /\ s[0] \in L /\ t[0] \in L
         /\ \A k \in 1..a : s[k] \in L /\ s[k] \in Ids /\ s[k] # s[0] /\ s[k] \notin Heads
         /\ \A k \in 1..b : t[k] \in L /\ t[k] \in Ids /\ t[k] # t[0] /\ t[k] \notin Heads
<1>1. /\ a \in Nat /\ b \in Nat /\ L \subseteq Nodes
      /\ \A k \in 0..a : s[k] \in L
      /\ \A k \in 0..b : t[k] \in L
      /\ \A j, k \in 0..a : s[j] = s[k] => j = k
      /\ \A j, k \in 0..b : t[j] = t[k] => j = k
      /\ \A j \in 0..a, k \in 0..b : s[j] # t[k]
  BY DEF Strung, Ring
<1>2. 0 \in 0..a /\ 0 \in 0..b /\ \A k \in 1..a : k \in 0..a /\ k # 0
  BY <1>1, SMT
<1>3. \A k \in 1..b : k \in 0..b /\ k # 0
  BY <1>1, SMT
<1>4. s[0] # t[0] /\ Heads = {s[0], t[0]}
  <2>1. s[0] # t[0]
    BY <1>1, <1>2
  <2>2. QED
    BY <2>1 DEF Heads
<1>5. \A m \in L : m # s[0] /\ m # t[0] => m \in Ids /\ m \notin Heads
  BY <1>1, <1>4, NodeFacts
<1>6. \A k \in 1..a : s[k] \in L /\ s[k] # s[0] /\ s[k] # t[0]
  BY <1>1, <1>2
<1>7. \A k \in 1..b : t[k] \in L /\ t[k] # s[0] /\ t[k] # t[0]
  BY <1>1, <1>2, <1>3
<1>8. QED
  BY <1>1, <1>2, <1>5, <1>6, <1>7

(* An item is allocated and put at the end of a list.                      *)
Grown(s, a, t, b, u, it) ==
  /\ Strung(Live', next', prev', u, a + 1, t, b)
  /\ u[0] = s[0] /\ item'[u[a + 1]] = it
  /\ \A k \in 1..a : item'[u[k]] = item[s[k]]
  /\ \A k \in 1..b : item'[t[k]] = item[t[k]]

LEMMA AllocateStrung ==
  ASSUME IInv, IInv', NEW s, NEW a, NEW t, NEW b, Strung(Live, next, prev, s, a, t, b),
         NEW h \in Heads, s[0] = h, t[0] \in Heads, NEW it \in ItemType, Allocate(it, h)
  PROVE  \E u : Grown(s, a, t, b, u, it)
<1>1. PICK C, r : Known(C, r)
  BY DEF IInv
<1>2. alloc \in Nat /\ alloc' = alloc + 1 /\ alloc < MaxItems
  <2>1. alloc' = alloc + 1 /\ alloc \in 0..MaxItems /\ alloc' \in 0..MaxItems /\ MaxItems \in Nat
    BY MaxItemsNat DEF IInv, Types, Allocate
  <2>2. QED
    BY <2>1, SMT
<1>3. PICK n : n = alloc + 1
  OBVIOUS
<1>4. n \in Ids \ Live /\ item'[n] = it /\ \A m \in Ids \ {n} : item'[m] = item[m]
  <2>1. C \in SUBSET Nodes /\ r \in [Nodes -> Nat] /\ Rings(Live, C, next, prev, r) /\ Types
    BY <1>1 DEF Known, IInv
  <2>2. /\ alloc + 1 \in Ids \ Live
        /\ item'[alloc + 1] = it /\ \A m \in Ids \ {alloc + 1} : item'[m] = item[m]
    BY <1>2, <2>1, AllocateRings
  <2>3. QED
    BY <1>3, <2>2
<1>5. Live' = Live \cup {n}
  <2>1. \A m \in Ids : m <= n <=> m <= alloc \/ m = n
    BY <1>2, <1>3, SMT DEF Ids
  <2>2. freed' = freed /\ alloc' = n
    BY <1>2, <1>3 DEF Allocate
  <2>3. n \notin freed
    <3>1. freed \subseteq 1..alloc
      BY DEF IInv, Types
    <3>2. n \notin 1..alloc
      BY <1>2, <1>3, SMT
    <3>3. QED
      BY <3>1, <3>2
  <2>4. QED
    BY <1>4, <2>1, <2>2, <2>3 DEF Live
<1>6. PICK L, L1, f1, g1, u : L = Live /\ L1 = Live' /\ f1 = next' /\ g1 = prev'
                              /\ u = Longer(s, a, n)
  OBVIOUS
<1>7. /\ f1 = [next EXCEPT ![n] = h, ![prev[h]] = n]
      /\ g1 \in Links /\ L1 = L \cup {n} /\ n \in Nodes /\ n \notin L
      /\ \A m \in L1 : f1[m] \in L1 /\ g1[f1[m]] = m
  <2>1. f1 = [next EXCEPT ![n] = h, ![prev[h]] = n]
    BY <1>3, <1>6 DEF Allocate, AddTail
  <2>2. g1 \in Links /\ \A m \in L1 : f1[m] \in L1 /\ g1[f1[m]] = m
    BY <1>6, HeapLinkedNext DEF HeapWhole
  <2>3. QED
    BY <1>4, <1>5, <1>6, <2>1, <2>2, NodeFacts
<1>8. Strung(L1, f1, g1, u, a + 1, t, b)
  <2>1. Strung(L, next, prev, s, a, t, b)
    BY <1>6
  <2>2. h = s[0] /\ u = Longer(s, a, n)
    BY <1>6
  <2>3. QED
    BY <1>7, <2>1, <2>2, AppendStrung, ZenonT(60)
<1>9. /\ a \in Nat /\ b \in Nat
      /\ \A k \in 1..a : s[k] \in Ids \ {n}
      /\ \A k \in 1..b : t[k] \in Ids \ {n}
  BY <1>4, ItemsInside
<1>10. /\ u[0] = s[0] /\ u[a + 1] = n /\ \A k \in 1..a : u[k] = s[k]
  BY <1>6, <1>9, SMT DEF Longer
<1>11. QED
  BY <1>4, <1>6, <1>8, <1>9, <1>10 DEF Grown

LEMMA InitContent == Init => Content
<1> SUFFICES ASSUME Init PROVE Content
  OBVIOUS
<1>1. IInv
  BY InitIInv
<1> DEFINE s == [k \in 0..1 |-> cfg]
           t == [k \in 0..1 |-> ext]
<1>2. Live \in SUBSET Nodes /\ next \in Links /\ prev \in Links /\ cfg \in Live /\ ext \in Live
      /\ \A m \in Live : next[m] \in Live /\ prev[next[m]] = m
  BY <1>1, HeapLinked DEF HeapWhole, Live, Heads
<1>3. next[cfg] = cfg /\ next[ext] = ext /\ cfg # ext
  BY <1>2, NodeFacts DEF Init
<1>4. s[0] = cfg /\ s[1] = cfg /\ t[0] = ext /\ t[1] = ext
  OBVIOUS
<1>5. \A k \in 0..0 : k = 0 /\ k + 1 = 1
  BY SMT
<1>6. 0 \in Nat /\ 0 + 1 = 1
  BY SMT
<1> HIDE DEF s, t
<1>7. Ring(Live, next, s, 0) /\ Ring(Live, next, t, 0)
  BY <1>2, <1>3, <1>4, <1>5, <1>6, Zenon DEF Ring
<1>8. Strung(Live, next, prev, s, 0, t, 0)
  BY <1>2, <1>3, <1>4, <1>5, <1>7, Zenon DEF Strung
<1>9. Says(s, 0, t, 0)
  <2>1. pc = "lines" /\ line = 1
    BY DEF Init
  <2>2. Taken(input.lines)[0] = << >>
    BY <1>1, ExtrasTyped DEF IInv, IsTaken
  <2>3. Shows(t, 0, Taken(input.lines)[line - 1])
    BY <2>1, <2>2 DEF Shows
  <2>4. QED
    BY <2>1, <2>3 DEF Says
<1>10. Stands(s, 0, t, 0)
  BY <1>4, <1>8, <1>9 DEF Stands
<1>11. QED
  BY <1>10 DEF Init, Content

ShowsNext(s, a, c) == Len(c) = a /\ \A k \in 1..a : item'[s[k]] = c[k]

LEMMA ShowsMore ==
  ASSUME NEW s, NEW a \in Nat, NEW t, NEW b, NEW u, NEW it \in ItemType,
         Grown(s, a, t, b, u, it),
         NEW c \in Seq(ItemType), Shows(s, a, c), NEW d, d = Append(c, it)
  PROVE  ShowsNext(u, a + 1, d)
<1>1. Len(d) = a + 1 /\ d[a + 1] = it /\ \A k \in 1..a : d[k] = c[k]
  <2>1. Len(c) = a
    BY DEF Shows
  <2>2. QED
    BY <2>1, AppendProperties
<1>2. \A k \in 1..(a + 1) : k \in 1..a \/ k = a + 1
  BY SMT
<1>3. \A k \in 1..a : item'[u[k]] = c[k]
  BY DEF Shows, Grown
<1>4. item'[u[a + 1]] = it
  BY DEF Grown
<1>5. QED
  BY <1>1, <1>2, <1>3, <1>4 DEF ShowsNext

LEMMA StaysStrung ==
  ASSUME NEW s, NEW a, NEW t, NEW b, Strung(Live, next, prev, s, a, t, b),
         UNCHANGED <<freed, alloc, next, prev>>
  PROVE  Strung(Live', next', prev', s, a, t, b)
<1>1. Live' = Live /\ next' = next /\ prev' = prev
  BY SameLive
<1>2. QED
  BY <1>1

LEMMA LineContent == ASSUME IInv, IInv', Content, LineProcess PROVE Content'
<1> DEFINE l == input.lines[line]
           c == Taken(input.lines)[line - 1]
<1>1. /\ pc = "lines" /\ pc' = "lines" /\ line' = line + 1 /\ input' = input
      /\ line <= Len(input.lines) /\ Types
  BY DEF IInv, LineProcess
<1>2. PICK s, a, t, b : Stands(s, a, t, b)
  BY <1>1 DEF Content
<1>3. /\ s[0] = cfg /\ t[0] = ext /\ Strung(Live, next, prev, s, a, t, b)
      /\ a = 0 /\ Shows(t, b, c)
  BY <1>1, <1>2 DEF Stands, Says
<1>4. PICK n \in Nat : n = Len(input.lines)
  BY <1>1, ExtrasTyped, LenProperties
<1>5. line \in 1..n /\ line - 1 \in 0..n /\ (line + 1) - 1 = line
  <2>1. line \in 1..(n + 1)
    BY <1>1, <1>4 DEF IInv, Known, Reading
  <2>2. QED
    BY <1>1, <1>4, <2>1, SMT
<1>6. /\ input.lines \in Seq(LineType) /\ c \in Seq(ItemType)
      /\ Taken(input.lines)[line] = IF ~WellFormed(l) THEN c
                                    ELSE Append(c, Item(l.ofs, l.data))
  BY <1>1, <1>4, <1>5, ExtrasTyped, Zenon DEF IsTaken
<1>7. Item(l.ofs, l.data) \in ItemType
  <2>1. l \in LineType
    BY <1>4, <1>5, <1>6, ElementOfSeq, Zenon
  <2>2. QED
    BY <2>1, SMT DEF LineType, ItemType, Item
<1>8. PICK it, x, d : it = Item(l.ofs, l.data) /\ x = c /\ d = Taken(input.lines)[line]
  OBVIOUS
<1>9. Taken(input'.lines)[line' - 1] = d
  BY <1>1, <1>5, <1>8
<1>10. CASE WellFormed(l)
  <2>1. Allocate(it, ext)
    BY <1>8, <1>10 DEF LineProcess
  <2>2. Strung(Live, next, prev, t, b, s, a) /\ ext \in Heads /\ s[0] \in Heads /\ b \in Nat
    BY <1>3, StrungTurned DEF Heads, Strung, Ring
  <2>3. it \in ItemType
    BY <1>7, <1>8
  <2>4. PICK u : Grown(t, b, s, a, u, it)
    BY <1>3, <2>1, <2>2, <2>3, AllocateStrung, Zenon
  <2>5. ShowsNext(u, b + 1, d)
    <3>1. Shows(t, b, x) /\ x \in Seq(ItemType) /\ d = Append(x, it)
      BY <1>3, <1>6, <1>8, <1>10
    <3>2. QED
      BY <2>2, <2>3, <2>4, <3>1, ShowsMore, Zenon
  <2>6. Strung(Live', next', prev', s, a, u, b + 1) /\ u[0] = ext
    BY <1>3, <2>4, StrungTurned DEF Grown
  <2>7. Says(s, a, u, b + 1)'
    BY <1>1, <1>3, <1>9, <2>5 DEF Says, Shows, ShowsNext
  <2>8. Stands(s, a, u, b + 1)'
    BY <1>3, <2>6, <2>7 DEF Stands
  <2>9. QED
    BY <1>1, <2>8, Zenon DEF Content
<1>11. CASE ~WellFormed(l)
  <2>1. UNCHANGED <<freed, alloc, next, prev, item>>
    BY <1>11 DEF LineProcess, heap
  <2>2. Strung(Live', next', prev', s, a, t, b)
    BY <1>3, <2>1, StaysStrung
  <2>3. d = c
    BY <1>6, <1>8, <1>11
  <2>4. Says(s, a, t, b)'
    BY <1>1, <1>3, <1>9, <2>1, <2>3 DEF Says, Shows
  <2>5. Stands(s, a, t, b)'
    BY <1>3, <2>2, <2>4 DEF Stands
  <2>6. QED
    BY <1>1, <2>5, Zenon DEF Content
<1>12. QED
  BY <1>10, <1>11

LEMMA MacContent == ASSUME IInv, IInv', Content, AddMac PROVE Content'
<1> DEFINE c == Taken(input.lines)[Len(input.lines)]
<1>1. /\ pc = "lines" /\ pc' = "file" /\ input' = input
      /\ line > Len(input.lines) /\ Types
  BY DEF IInv, AddMac
<1>2. PICK s, a, t, b : Stands(s, a, t, b)
  BY <1>1 DEF Content
<1>3. PICK n \in Nat : n = Len(input.lines)
  BY <1>1, ExtrasTyped, LenProperties
<1>4. line - 1 = Len(input.lines)
  <2>1. line \in 1..(n + 1)
    BY <1>1, <1>3 DEF IInv, Known, Reading
  <2>2. QED
    BY <1>1, <1>3, <2>1, SMT
<1>5. /\ s[0] = cfg /\ t[0] = ext /\ Strung(Live, next, prev, s, a, t, b)
      /\ a = 0 /\ Shows(t, b, c)
  BY <1>1, <1>2, <1>4 DEF Stands, Says
<1>6. c \in Seq(ItemType) /\ input.mac \in Seq(ItemType)
  BY <1>1, ExtrasTyped
<1>7. PICK x, m, d : x = c /\ m = input.mac /\ d = x \o m
  OBVIOUS
<1>8. Extras' = d
  BY <1>1, <1>7, SaidSame DEF Extras
<1>9. CASE m # << >>
  <2> DEFINE it == Head(m)
  <2>1. Allocate(it, ext)
    BY <1>7, <1>9 DEF AddMac
  <2>2. Strung(Live, next, prev, t, b, s, a) /\ ext \in Heads /\ s[0] \in Heads /\ b \in Nat
    BY <1>5, StrungTurned DEF Heads, Strung, Ring
  <2>a. m \in Seq(ItemType) /\ x \in Seq(ItemType) /\ Len(m) <= 1
    <3>1. input \in Inputs
      BY <1>1 DEF Types
    <3>2. Len(input.mac) <= 1
      BY <3>1, InputsAssumption, Zenon
    <3>3. QED
      BY <1>6, <1>7, <3>2
  <2>3. it \in ItemType
    BY <1>9, <2>a
  <2>b. d = Append(x, it)
    <3>1. m = <<it>>
      <4>1. Len(m) = 1 /\ it = m[1]
        BY <1>9, <2>a
      <4>2. <<it>> \in Seq(ItemType) /\ Len(<<it>>) = 1 /\ <<it>>[1] = it
        BY <2>3
      <4>3. \A k \in 1..1 : k = 1
        BY SMT
      <4>4. \A k \in 1..Len(m) : m[k] = <<it>>[k]
        BY <4>1, <4>2, <4>3
      <4>5. PICK w : w = <<it>>
        OBVIOUS
      <4>6. m = w
        BY <2>a, <4>1, <4>2, <4>4, <4>5, SeqEqual
      <4>7. QED
        BY <4>5, <4>6
    <3>2. Append(x, it) = x \o <<it>>
      BY <2>a, <2>3, AppendIsConcat
    <3>3. QED
      BY <1>7, <3>1, <3>2
  <2> HIDE DEF it
  <2>4. PICK u : Grown(t, b, s, a, u, it)
    BY <1>5, <2>1, <2>2, <2>3, AllocateStrung, Zenon
  <2>5. ShowsNext(u, b + 1, d)
    <3>1. Shows(t, b, x)
      BY <1>5, <1>7
    <3>2. QED
      BY <2>2, <2>3, <2>4, <2>a, <2>b, <3>1, ShowsMore, Zenon
  <2>6. Strung(Live', next', prev', s, a, u, b + 1) /\ u[0] = ext
    BY <1>5, <2>4, StrungTurned DEF Grown
  <2>7. Says(s, a, u, b + 1)'
    BY <1>1, <1>5, <1>8, <2>5 DEF Says, Shows, ShowsNext
  <2>8. Stands(s, a, u, b + 1)'
    BY <1>5, <2>6, <2>7 DEF Stands
  <2>9. QED
    BY <1>1, <2>8, Zenon DEF Content
<1>10. CASE m = << >>
  <2>1. UNCHANGED <<freed, alloc, next, prev, item>>
    BY <1>7, <1>10 DEF AddMac, heap
  <2>2. Strung(Live', next', prev', s, a, t, b)
    BY <1>5, <2>1, StaysStrung
  <2>3. d = c
    BY <1>6, <1>7, <1>10
  <2>4. Says(s, a, t, b)'
    BY <1>1, <1>5, <1>8, <2>1, <2>3 DEF Says, Shows
  <2>5. Stands(s, a, t, b)'
    BY <1>5, <2>2, <2>4 DEF Stands
  <2>6. QED
    BY <1>1, <2>5, Zenon DEF Content
<1>11. QED
  BY <1>9, <1>10

LEMMA FileContent == ASSUME IInv, IInv', Content, ReadFile PROVE Content'
<1>1. /\ pc = "file" /\ input' = input /\ Types
      /\ UNCHANGED <<freed, alloc, next, prev, item>>
      /\ bytes' = IF Usable THEN Body(Base) ELSE << >>
      /\ Usable => pc' = "parse"
      /\ input.read = "short" => pc' = "free"
      /\ input.read = "absent" => pc' = "none"
  BY DEF IInv, ReadFile, Usable, heap
<1>2. PICK s, a, t, b : Stands(s, a, t, b)
  BY <1>1 DEF Content
<1>3. /\ s[0] = cfg /\ t[0] = ext /\ Strung(Live, next, prev, s, a, t, b)
      /\ a = 0 /\ Shows(t, b, Extras)
  BY <1>1, <1>2 DEF Stands, Says
<1>4. /\ Base' = Base /\ Extras' = Extras /\ Usable' = Usable
  BY <1>1, SaidSame
<1>5. Usable \/ input.read \in {"absent", "short"}
  <2>1. input \in Inputs
    BY <1>1 DEF Types
  <2>2. input \in InputType(Seq(ItemType), Reads, Contents, Seq(LineType), Seq(ItemType))
    BY <2>1, InputsAssumption, Zenon
  <2>3. input.read \in Reads
    BY <2>2, SMT DEF InputType
  <2>4. QED
    BY <2>3 DEF Usable, Reads
<1>6. CASE ~Usable
  <2>1. pc' \in {"none", "free"}
    BY <1>1, <1>5, <1>6
  <2>2. QED
    BY <1>1, <1>4, <1>6, <2>1 DEF Content
<1>7. CASE Usable
  <2>1. pc' = "parse"
    BY <1>1, <1>7
  <2>2. bytes' = Encoded(Base)[0 + 1]
    BY <1>1, <1>7 DEF Body
  <2>3. Strung(Live', next', prev', s, a, t, b)
    BY <1>1, <1>3, StaysStrung
  <2>4. Says(s, a, t, b)'
    <3>1. 0 \in 0..Len(Base)
      BY <1>1, ExtrasTyped, LenProperties, SMT
    <3>2. \A k \in 1..0 : FALSE
      BY SMT
    <3>3. Shows(t, b, Extras)'
      BY <1>1, <1>3, <1>4 DEF Shows
    <3>4. QED
      BY <1>3, <1>4, <2>1, <2>2, <3>1, <3>2, <3>3 DEF Says
  <2>5. Stands(s, a, t, b)'
    BY <1>3, <2>3, <2>4 DEF Stands
  <2>6. QED
    BY <1>4, <1>7, <2>1, <2>5, Zenon DEF Content
<1>8. QED
  BY <1>6, <1>7

LEMMA FirstOf ==
  ASSUME NEW L, NEW f, NEW g, NEW s, NEW a, NEW t, NEW b, Strung(L, f, g, s, a, t, b)
  PROVE  a \in Nat /\ f[s[0]] = s[1] /\ (a = 0 <=> f[s[0]] = s[0]) /\ (a # 0 => 1 \in 1..a)
<1>1. /\ a \in Nat /\ s[a + 1] = s[0]
      /\ \A k \in 0..a : f[s[k]] = s[k + 1]
      /\ \A j, k \in 0..a : s[j] = s[k] => j = k
  BY DEF Strung, Ring
<1>2. 0 \in 0..a /\ 0 + 1 = 1 /\ (a # 0 => 1 \in 1..a /\ 1 \in 0..a)
  BY <1>1, SMT
<1>3. f[s[0]] = s[1]
  BY <1>1, <1>2
<1>4. a = 0 => s[1] = s[0]
  BY <1>1, <1>2
<1>5. a # 0 => s[1] # s[0]
  BY <1>1, <1>2
<1>6. QED
  BY <1>1, <1>2, <1>3, <1>4, <1>5

LEMMA WholeIs ==
  ASSUME Types, NEW n, n = Len(Extras),
         NEW x, x = Len(Acc[n].base), NEW y, y = Len(Acc[n].rest)
  PROVE  /\ n \in Nat /\ Chain(Acc, Base, Extras) /\ x \in Nat /\ y \in Nat /\ x = Len(Base)
         /\ Follow(ItemType, Whole, Acc[n].base, Acc[n].rest, x, y)
<1>1. Base \in Seq(ItemType) /\ Extras \in Seq(ItemType)
  BY ExtrasTyped
<1>2. Chain(Acc, Base, Extras)
  BY <1>1, ChainIs DEF Acc
<1>3. n \in Nat /\ n \in 0..n
  BY <1>1, LenProperties, SMT
<1>4. PICK p, q : p = Acc[n].base /\ q = Acc[n].rest
  OBVIOUS
<1>5. p \in Seq(ItemType) /\ q \in Seq(ItemType) /\ Len(p) = Len(Base)
  BY <1>2, <1>3, <1>4 DEF Chain
<1>6. x \in Nat /\ y \in Nat /\ x = Len(p) /\ y = Len(q)
  BY <1>4, <1>5, LenProperties
<1>7. Whole = Cat(p, q)
  BY <1>4 DEF Whole, Merged, Acc, Cat
<1>8. Follow(ItemType, Cat(p, q), p, q, x, y)
  BY <1>5, <1>6, Behind
<1>9. QED
  BY <1>2, <1>3, <1>4, <1>5, <1>6, <1>7, <1>8

(* What is still to be parsed.                                             *)
LEMMA ParsedBase ==
  ASSUME Types, NEW a \in 0..Len(Base), bytes = Encoded(Base)[a + 1]
  PROVE  /\ bytes = << >> <=> a = Len(Base)
         /\ a # Len(Base) => /\ a + 1 \in 0..Len(Base) /\ Base[a + 1] \in ItemType
                             /\ Decodes(bytes, Base[a + 1], Encoded(Base)[(a + 1) + 1])
<1>1. PICK base \in Seq(ItemType) : base = Base
  BY ExtrasTyped
<1>2. PICK n \in Nat : n = Len(base)
  BY LenProperties
<1>3. /\ Encoded(base)[n + 1] = << >>
      /\ \A k \in 1..n : Decodes(Encoded(base)[k], base[k], Encoded(base)[k + 1])
  BY <1>2, ReadBack
<1>4. CASE a = n
  BY <1>1, <1>2, <1>3, <1>4
<1>5. CASE a # n
  <2>1. a + 1 \in 1..n /\ a + 1 \in 0..n
    BY <1>1, <1>2, <1>5, SMT
  <2>2. Decodes(bytes, base[a + 1], Encoded(base)[(a + 1) + 1])
    BY <1>1, <1>3, <2>1, Zenon
  <2>3. bytes # << >>
    BY <2>2 DEF Decodes
  <2>4. base[a + 1] \in ItemType
    BY <1>2, <2>1, ElementOfSeq
  <2>5. QED
    BY <1>1, <1>2, <1>5, <2>1, <2>2, <2>3, <2>4
<1>6. QED
  BY <1>4, <1>5

LEMMA ParseContent == ASSUME IInv, IInv', Content, ParseItem PROVE Content'
<1>1. /\ pc = "parse" /\ pc' = "parse" /\ input' = input /\ Types /\ bytes # << >>
  BY DEF IInv, ParseItem
<1>2. PICK s, a, t, b : Stands(s, a, t, b)
  BY <1>1 DEF Content
<1>3. /\ s[0] = cfg /\ t[0] = ext /\ Strung(Live, next, prev, s, a, t, b)
      /\ Shows(t, b, Extras) /\ a \in 0..Len(Base) /\ bytes = Encoded(Base)[a + 1]
      /\ \A k \in 1..a : item[s[k]] = Base[k]
  BY <1>1, <1>2 DEF Stands, Says
<1>4. a # Len(Base)
  BY <1>1, <1>3, ParsedBase
<1>5. PICK it : it = Base[a + 1]
  OBVIOUS
<1>6. a + 1 \in 0..Len(Base) /\ it \in ItemType /\ Decodes(bytes, it, Encoded(Base)[(a + 1) + 1])
  BY <1>1, <1>3, <1>4, <1>5, ParsedBase
<1>7. Allocate(Item(it.ofs, it.data), cfg) /\ bytes' = Encoded(Base)[(a + 1) + 1]
  <2>1. /\ bytes[1] + 256 * bytes[2] = it.ofs /\ bytes[3] = Len(it.data)
        /\ SubSeq(bytes, 4, 3 + Len(it.data)) = it.data
        /\ SubSeq(bytes, 4 + Len(it.data), Len(bytes)) = Encoded(Base)[(a + 1) + 1]
    BY <1>6, Zenon DEF Decodes
  <2>2. QED
    BY <2>1, Zenon DEF ParseItem
<1>8. Item(it.ofs, it.data) = it
  BY <1>6, SMT DEF ItemType, Item
<1>9. Allocate(it, cfg)
  BY <1>7, <1>8
<1>10. cfg \in Heads /\ t[0] \in Heads /\ a \in Nat
  BY <1>3 DEF Heads, Strung, Ring
<1>11. PICK u : Grown(s, a, t, b, u, it)
  BY <1>3, <1>6, <1>9, <1>10, AllocateStrung, Zenon
<1>12. /\ Base' = Base /\ Extras' = Extras /\ Usable' = Usable
  BY <1>1, SaidSame
<1>13. Says(u, a + 1, t, b)'
  <2>1. Shows(t, b, Extras)'
    BY <1>3, <1>11, <1>12 DEF Shows, Grown
  <2>2. \A k \in 1..(a + 1) : item'[u[k]] = Base[k]
    <3>1. \A k \in 1..(a + 1) : k \in 1..a \/ k = a + 1
      BY <1>10, SMT
    <3>2. QED
      BY <1>3, <1>5, <1>11, <3>1 DEF Grown
  <2>3. QED
    BY <1>1, <1>6, <1>7, <1>12, <2>1, <2>2 DEF Says
<1>14. Stands(u, a + 1, t, b)'
  BY <1>3, <1>11, <1>13 DEF Stands, Grown
<1>15. Usable'
  BY <1>1, <1>12 DEF Content
<1>16. QED
  BY <1>1, <1>14, <1>15, Zenon DEF Content

LEMMA EmptyContent == ASSUME IInv, IInv', Content, MergeEmpty PROVE Content'
<1>1. /\ pc = "parse" /\ pc' = "emit" /\ input' = input /\ Types /\ bytes = << >>
      /\ UNCHANGED <<item, freed, alloc>>
  BY DEF IInv, MergeEmpty, Parsed
<1>2. PICK s, a, t, b : Stands(s, a, t, b)
  BY <1>1 DEF Content
<1>3. /\ s[0] = cfg /\ t[0] = ext /\ Strung(Live, next, prev, s, a, t, b)
      /\ Shows(t, b, Extras) /\ a \in 0..Len(Base) /\ bytes = Encoded(Base)[a + 1]
      /\ \A k \in 1..a : item[s[k]] = Base[k]
  BY <1>1, <1>2 DEF Stands, Says
<1>4. a = Len(Base)
  BY <1>1, <1>3, ParsedBase
<1>5. Whole' = Whole /\ Usable'
  BY <1>1, SaidSame DEF Content
<1>6. PICK x, y : x = Len(Acc[b].base) /\ y = Len(Acc[b].rest)
  OBVIOUS
<1>7. b = Len(Extras)
  BY <1>3 DEF Shows
<1>8. /\ b \in Nat /\ Chain(Acc, Base, Extras) /\ x = a /\ x \in Nat /\ y \in Nat
      /\ Follow(ItemType, Whole, Acc[b].base, Acc[b].rest, x, y)
  BY <1>1, <1>4, <1>6, <1>7, WholeIs
<1>9. CASE next[ext] = ext
  <2>1. b = 0
    BY <1>3, <1>9, StrungTurned, FirstOf
  <2>2. Acc[b].base = Base /\ y = 0
    BY <1>6, <1>8, <2>1 DEF Chain
  <2>3. Len(Whole) = a /\ \A k \in 1..a : Whole[k] = Base[k]
    BY <1>8, <2>2 DEF Follow
  <2>4. UNCHANGED <<freed, alloc, next, prev>>
    BY <1>1, <1>9 DEF MergeEmpty
  <2>5. Strung(Live', next', prev', s, a, t, b)
    BY <1>3, <2>4, StaysStrung
  <2>6. Says(s, a, t, b)'
    BY <1>1, <1>3, <1>5, <2>3 DEF Says, Shows
  <2>7. Stands(s, a, t, b)'
    BY <1>3, <2>5, <2>6 DEF Stands
  <2>8. QED
    BY <1>1, <1>5, <2>7, Zenon DEF Content
<1>10. CASE next[ext] # ext
  <2>1. /\ next[cfg] = cfg
        /\ next' = [next EXCEPT ![cfg] = next[ext], ![prev[ext]] = cfg, ![ext] = ext]
    BY <1>10 DEF MergeEmpty
  <2>2. a = 0 /\ b # 0
    <3>1. a = 0
      BY <1>3, <2>1, FirstOf
    <3>2. Strung(Live, next, prev, t, b, s, a)
      BY <1>3, StrungTurned
    <3>3. QED
      BY <1>3, <1>10, <3>1, <3>2, FirstOf
  <2>3. PICK f1, g1, h, o, u, v, L :
          /\ f1 = next' /\ g1 = prev' /\ h = s[0] /\ o = t[0] /\ L = Live
          /\ u = Headed1(t, b, h) /\ v = HeadOnly(o)
    OBVIOUS
  <2>4. /\ f1 = [next EXCEPT ![h] = next[o], ![prev[o]] = h, ![o] = o]
        /\ g1 \in Links /\ \A m \in L : f1[m] \in L /\ g1[f1[m]] = m
    <3>1. Live' = Live
      BY <1>1, SameLive
    <3>2. QED
      BY <1>3, <2>1, <2>3, <3>1, HeapLinkedNext DEF HeapWhole
  <2>5. Strung(L, next, prev, s, 0, t, b)
    BY <1>3, <2>2, <2>3
  <2>6. Strung(L, f1, g1, u, b, v, 0)
    <3>1. b # 0 /\ h = s[0] /\ o = t[0] /\ u = Headed1(t, b, h) /\ v = HeadOnly(o)
      BY <2>2, <2>3
    <3>2. QED
      BY <2>4, <2>5, <3>1, SpliceStrung, ZenonT(60)
  <2>7. Strung(Live', next', prev', u, b, v, 0)
    BY <1>1, <2>3, <2>6, SameLive
  <2>8. u[0] = cfg /\ v[0] = ext /\ \A k \in 1..b : u[k] = t[k]
    BY <1>3, <1>8, <2>3, SMT DEF Headed1, HeadOnly
  <2>9. y = b /\ \A k \in 1..b : Acc[b].rest[k] = Extras[k]
    <3>1. PICK base, extras \in Seq(ItemType) : base = Base /\ extras = Extras
      BY <1>1, ExtrasTyped
    <3>2. PICK acc : acc = Applied(base, extras)
      OBVIOUS
    <3>3. Len(base) = 0 /\ b = Len(extras)
      BY <1>4, <1>7, <2>2, <3>1
    <3>4. Fresh(acc[b].rest, extras, b)
      BY <1>8, <3>2, <3>3, AllNew, Zenon
    <3>5. acc = Acc
      BY <3>1, <3>2 DEF Acc
    <3>6. QED
      BY <1>6, <3>1, <3>4, <3>5 DEF Fresh
  <2>10. Len(Whole) = b /\ \A k \in 1..b : Whole[k] = Extras[k]
    <3>1. Len(Whole) = x + y /\ \A k \in 1..y : Whole[x + k] = Acc[b].rest[k]
      BY <1>8 DEF Follow
    <3>2. x = 0 /\ \A k \in 1..b : 0 + k = k
      BY <1>8, <2>2, SMT
    <3>3. QED
      BY <1>8, <2>9, <3>1, <3>2
  <2>11. Says(u, b, v, 0)'
    BY <1>1, <1>3, <1>5, <2>8, <2>10 DEF Says, Shows
  <2>12. Stands(u, b, v, 0)'
    BY <2>7, <2>8, <2>11 DEF Stands
  <2>13. QED
    BY <1>1, <1>5, <2>12, Zenon DEF Content
<1>11. QED
  BY <1>9, <1>10

LEMMA ChainAt ==
  ASSUME Types, NEW x \in 1..Len(Extras)
  PROVE  /\ Applies(Acc[x - 1], Extras[x], Acc[x]) /\ Extras[x] \in ItemType
         /\ Acc[x - 1].base \in Seq(ItemType) /\ Acc[x - 1].rest \in Seq(ItemType)
         /\ Len(Acc[x - 1].base) = Len(Base)
         /\ \A j \in 1..Len(Base) : Acc[x - 1].base[j].ofs = Base[j].ofs
         /\ Len(Acc[x - 1].rest) \in Nat /\ Len(Acc[x].rest) \in Nat /\ Len(Base) \in Nat
         /\ Acc[x].rest \in Seq(ItemType)
<1>1. Base \in Seq(ItemType) /\ Extras \in Seq(ItemType)
  BY ExtrasTyped
<1>2. Chain(Acc, Base, Extras)
  BY <1>1, ChainIs DEF Acc
<1>3. Len(Extras) \in Nat /\ x - 1 \in 0..Len(Extras) /\ x \in 0..Len(Extras)
  BY <1>1, LenProperties, SMT
<1>4. Extras[x] \in ItemType
  BY <1>1, ElementOfSeq
<1>5. Acc[x - 1].rest \in Seq(ItemType) /\ Acc[x].rest \in Seq(ItemType)
  BY <1>2, <1>3, Zenon DEF Chain
<1>6. Len(Acc[x - 1].rest) \in Nat /\ Len(Acc[x].rest) \in Nat /\ Len(Base) \in Nat
  BY <1>1, <1>5, LenProperties
<1>7. QED
  BY <1>2, <1>3, <1>4, <1>5, <1>6, Zenon DEF Chain

LEMMA BeginContent == ASSUME IInv, IInv', Content, MergeBegin PROVE Content'
<1>1. /\ pc = "parse" /\ pc' = "merge" /\ input' = input /\ Types /\ bytes = << >>
      /\ UNCHANGED <<item, freed, alloc, next, prev>>
      /\ epos' = next[ext] /\ enext' = next[next[ext]] /\ pos' = next[cfg]
      /\ next[ext] # ext
  BY DEF IInv, MergeBegin, Parsed, heap
<1>2. PICK s, a, t, b : Stands(s, a, t, b)
  BY <1>1 DEF Content
<1>3. /\ s[0] = cfg /\ t[0] = ext /\ Strung(Live, next, prev, s, a, t, b)
      /\ Shows(t, b, Extras) /\ a \in 0..Len(Base) /\ bytes = Encoded(Base)[a + 1]
      /\ \A k \in 1..a : item[s[k]] = Base[k]
  BY <1>1, <1>2 DEF Stands, Says
<1>4. a = Len(Base)
  BY <1>1, <1>3, ParsedBase
<1>5. /\ Base' = Base /\ Extras' = Extras /\ Acc' = Acc /\ Usable'
  BY <1>1, SaidSame DEF Content
<1>6. /\ b = Len(Extras) /\ b \in Nat /\ next[ext] = t[1] /\ b # 0 /\ 1 \in 1..b
      /\ next[t[1]] = t[2]
  <2>1. Strung(Live, next, prev, t, b, s, a)
    BY <1>3, StrungTurned
  <2>2. b \in Nat /\ next[ext] = t[1] /\ b # 0 /\ 1 \in 1..b
    BY <1>1, <1>3, <2>1, FirstOf
  <2>3. 1 \in 0..b /\ 1 + 1 = 2
    BY <2>2, SMT
  <2>4. next[t[1]] = t[1 + 1]
    BY <2>1, <2>3 DEF Strung, Ring
  <2>5. QED
    BY <1>3, <2>2, <2>3, <2>4 DEF Shows
<1>7. next[cfg] = s[1] /\ a \in Nat
  BY <1>3, FirstOf
<1>8. Acc[0].base = Base /\ Len(Acc[0].rest) = 0
  <2>1. Base \in Seq(ItemType) /\ Extras \in Seq(ItemType)
    BY <1>1, ExtrasTyped
  <2>2. Chain(Acc, Base, Extras)
    BY <2>1, ChainIs DEF Acc
  <2>3. QED
    BY <2>2 DEF Chain
<1>9. PICK rest : rest = Acc[0].rest
  OBVIOUS
<1>10. ToCome(t, b, rest, 1)'
  <2>1. \A j \in 1..b : 0 + 1 + (j - 1) = j
    BY SMT
  <2>2. b = 0 + (b + 1 - 1) /\ \A k \in 1..0 : FALSE
    BY <1>6, SMT
  <2>3. \A j \in 1..b : item[t[j]] = Extras[j]
    BY <1>3 DEF Shows
  <2>4. QED
    BY <1>1, <1>5, <1>6, <1>8, <1>9, <2>1, <2>2, <2>3 DEF ToCome
<1>11. Renewing(s, a, Acc[0].base, Acc[1].base, 1)'
  <2>1. \A k \in 1..a : ~(k < 1)
    BY SMT
  <2>2. QED
    BY <1>1, <1>3, <1>5, <1>8, <2>1 DEF Renewing
<1>12. Midway(s, a, t, b, 1, 1, 1)'
  <2>1. 1 - 1 = 0 /\ 0 + 1 = 1 /\ 0 + 2 + (1 - 1) = 2 /\ 1 # 1 + 1 /\ 1 \in 1..(a + 1)
    BY <1>7, SMT
  <2>2. \A k \in 1..(1 - 1) : FALSE
    BY SMT
  <2>3. item'[epos'] = Extras[1]
    BY <1>1, <1>3, <1>6 DEF Shows
  <2>4. /\ a = Len(Base') /\ 1 \in 1..Len(Extras') /\ 1 \in {1, 1 + 1}
        /\ pos' = s[1] /\ item'[epos'] = Extras'[1]
    BY <1>1, <1>4, <1>5, <1>6, <1>7, <2>3
  <2>5. /\ epos' = t[Len(Acc'[1 - 1].rest) + 1]
        /\ enext' = t[Len(Acc'[1 - 1].rest) + 2 + (1 - 1)]
    BY <1>1, <1>5, <1>6, <1>8, <2>1
  <2>6. ToCome(t, b, Acc[1 - 1].rest, 1)' /\ Renewing(s, a, Acc[1 - 1].base, Acc[1].base, 1)'
    BY <1>5, <1>9, <1>10, <1>11, <2>1
  <2>7. QED
    BY <2>1, <2>2, <2>4, <2>5, <2>6 DEF Midway
<1>13. Strung(Live', next', prev', s, a, t, b)
  BY <1>1, <1>3, StaysStrung
<1>14. Says(s, a, t, b)'
  BY <1>1, <1>12 DEF Says
<1>15. Stands(s, a, t, b)'
  BY <1>3, <1>13, <1>14 DEF Stands
<1>16. QED
  BY <1>1, <1>5, <1>15, Zenon DEF Content

(* The search at an item of the first list.                                *)
LEMMA AtItem ==
  ASSUME Types, NEW C, NEW r, Known(C, r), pc = "merge", pos # cfg,
         NEW s, NEW a, NEW t, NEW b, s[0] = cfg, t[0] = ext,
         Strung(Live, next, prev, s, a, t, b),
         NEW x \in Nat, NEW y \in Nat, NEW q \in Nat, Midway(s, a, t, b, x, y, q)
  PROVE  /\ q \in 1..a /\ a \in Nat /\ q + 1 \in 1..(a + 1) /\ (q + 1) - 1 = q
         /\ item[pos] = Acc[x - 1].base[q] /\ item[pos].ofs = Base[q].ofs
         /\ nxt = s[q + 1] /\ x \in 1..Len(Extras) /\ a = Len(Base)
         /\ \A k \in 1..q : k \in 1..(q - 1) \/ k = q
         /\ \A k \in 1..(q - 1) : k \in 1..q /\ k # q /\ k \in 1..a
<1>1. /\ a = Len(Base) /\ x \in 1..Len(Extras) /\ q \in 1..(a + 1) /\ pos = s[q]
      /\ Renewing(s, a, Acc[x - 1].base, Acc[x].base, q)
  BY DEF Midway
<1>2. a \in Nat /\ s[a + 1] = s[0] /\ \A k \in 0..a : next[s[k]] = s[k + 1]
  BY DEF Strung, Ring
<1>3. q \in 1..a
  <2>1. q # a + 1
    BY <1>1, <1>2
  <2>2. QED
    BY <1>1, <1>2, <2>1, SMT
<1>4. item[pos] = Acc[x - 1].base[q]
  <2>1. ~(q < q)
    BY <1>3, SMT
  <2>2. QED
    BY <1>1, <1>3, <2>1 DEF Renewing
<1>5. Acc[x - 1].base[q].ofs = Base[q].ofs
  BY <1>1, <1>3, ChainAt
<1>6. nxt = s[q + 1]
  <2>1. nxt = next[pos] /\ q \in 0..a
    BY <1>2, <1>3, SMT DEF Known, Merging
  <2>2. QED
    BY <1>1, <1>2, <2>1
<1>7. /\ q + 1 \in 1..(a + 1) /\ (q + 1) - 1 = q
      /\ \A k \in 1..q : k \in 1..(q - 1) \/ k = q
      /\ \A k \in 1..(q - 1) : k \in 1..q /\ k # q /\ k \in 1..a
  BY <1>2, <1>3, SMT
<1>8. QED
  BY <1>1, <1>2, <1>3, <1>4, <1>5, <1>6, <1>7

LEMMA OtherContent == ASSUME IInv, IInv', Content, MergeOther PROVE Content'
<1>1. /\ pc = "merge" /\ pc' = "merge" /\ input' = input /\ Types /\ pos # cfg
      /\ UNCHANGED <<item, freed, alloc, next, prev, epos, enext>>
      /\ pos' = nxt /\ item[pos].ofs # item[epos].ofs
  BY DEF IInv, MergeOther, heap, Step
<1>2. PICK s, a, t, b : Stands(s, a, t, b)
  BY <1>1 DEF Content
<1>3. /\ s[0] = cfg /\ t[0] = ext /\ Strung(Live, next, prev, s, a, t, b)
      /\ \E x, y, q \in Nat : Midway(s, a, t, b, x, y, q)
  BY <1>1, <1>2 DEF Stands, Says
<1>4. PICK x, y, q \in Nat : Midway(s, a, t, b, x, y, q)
  BY <1>3
<1>5. PICK C, r : Known(C, r)
  BY DEF IInv
<1>6. /\ q \in 1..a /\ a \in Nat /\ q + 1 \in 1..(a + 1) /\ (q + 1) - 1 = q
      /\ item[pos] = Acc[x - 1].base[q] /\ item[pos].ofs = Base[q].ofs
      /\ nxt = s[q + 1] /\ x \in 1..Len(Extras) /\ a = Len(Base)
      /\ \A k \in 1..q : k \in 1..(q - 1) \/ k = q
      /\ \A k \in 1..(q - 1) : k \in 1..q /\ k # q /\ k \in 1..a
  BY <1>1, <1>3, <1>4, <1>5, AtItem, SMTT(40)
<1>7. /\ a = Len(Base) /\ x \in 1..Len(Extras) /\ y \in {x, x + 1}
      /\ pos = s[q] /\ item[epos] = Extras[x]
      /\ y = x => epos = t[Len(Acc[x - 1].rest) + 1]
      /\ enext = t[Len(Acc[x - 1].rest) + 2 + (x - y)]
      /\ y = x + 1 <=> \E k \in 1..(q - 1) : Base[k].ofs = Extras[x].ofs
      /\ Renewing(s, a, Acc[x - 1].base, Acc[x].base, q)
      /\ ToCome(t, b, Acc[x - 1].rest, y)
  BY <1>4 DEF Midway
<1>8. /\ Base' = Base /\ Extras' = Extras /\ Acc' = Acc /\ Usable'
  BY <1>1, SaidSame DEF Content
<1>9. Base[q].ofs # Extras[x].ofs
  BY <1>1, <1>6, <1>7
<1>10. (\E k \in 1..q : Base[k].ofs = Extras[x].ofs)
         <=> \E k \in 1..(q - 1) : Base[k].ofs = Extras[x].ofs
  BY <1>6, <1>9, Zenon
<1>11. Renewing(s, a, Acc[x - 1].base, Acc[x].base, q + 1)'
  <2>1. Acc[x].base[q] = Acc[x - 1].base[q]
    <3>1. Applies(Acc[x - 1], Extras[x], Acc[x]) /\ Len(Acc[x - 1].base) = a
          /\ Acc[x - 1].base[q].ofs = Base[q].ofs
      BY <1>1, <1>6, ChainAt
    <3>2. QED
      BY <1>6, <1>9, <3>1 DEF Applies
  <2>2. \A k \in 1..a : k # q => (k < q <=> k < q + 1)
    BY <1>6, SMT
  <2>3. q < q + 1 /\ item[s[q]] = Acc[x - 1].base[q]
    BY <1>6, <1>7
  <2>4. QED
    BY <1>1, <1>7, <1>8, <2>1, <2>2, <2>3 DEF Renewing
<1>12. ToCome(t, b, Acc[x - 1].rest, y)'
  BY <1>1, <1>7, <1>8 DEF ToCome
<1>13. Midway(s, a, t, b, x, y, q + 1)'
  BY <1>1, <1>6, <1>7, <1>8, <1>10, <1>11, <1>12 DEF Midway
<1>14. Strung(Live', next', prev', s, a, t, b)
  BY <1>1, <1>3, StaysStrung
<1>15. Says(s, a, t, b)'
  <2>1. q + 1 \in Nat
    OBVIOUS
  <2>2. QED
    BY <1>1, <1>13, <2>1 DEF Says
<1>16. Stands(s, a, t, b)'
  BY <1>3, <1>14, <1>15 DEF Stands
<1>17. QED
  BY <1>1, <1>8, <1>16, Zenon DEF Content

(* An extra item that was searched to the end: if it was not found it is   *)
(* new.                                                                    *)
Searched(s, a, t, b, x) ==
  /\ a = Len(Base) /\ x \in 1..Len(Extras)
  /\ \A k \in 1..a : item[s[k]] = Acc[x].base[k]
  /\ ToCome(t, b, Acc[x].rest, x + 1)
  /\ enext = t[Len(Acc[x].rest) + 1]
  /\ Len(Acc[x].rest) \in Nat

LEMMA SearchedTo ==
  ASSUME Types, pos = cfg, NEW s, NEW a, NEW t, NEW b, s[0] = cfg, t[0] = ext,
         Strung(Live, next, prev, s, a, t, b),
         NEW x \in Nat, NEW y \in Nat, NEW q \in Nat, Midway(s, a, t, b, x, y, q)
  PROVE  Searched(s, a, t, b, x)
<1>1. /\ a = Len(Base) /\ x \in 1..Len(Extras) /\ y \in {x, x + 1} /\ q \in 1..(a + 1)
      /\ pos = s[q] /\ item[epos] = Extras[x]
      /\ y = x => epos = t[Len(Acc[x - 1].rest) + 1]
      /\ enext = t[Len(Acc[x - 1].rest) + 2 + (x - y)]
      /\ y = x + 1 <=> \E k \in 1..(q - 1) : Base[k].ofs = Extras[x].ofs
      /\ Renewing(s, a, Acc[x - 1].base, Acc[x].base, q)
      /\ ToCome(t, b, Acc[x - 1].rest, y)
  BY DEF Midway
<1>2. a \in Nat /\ \A j, k \in 0..a : s[j] = s[k] => j = k
  BY DEF Strung, Ring
<1>3. q = a + 1 /\ q - 1 = a
  <2>1. q \in 0..a /\ 0 \in 0..a => q = 0
    BY <1>1, <1>2
  <2>2. QED
    BY <1>1, <1>2, <2>1, SMT
<1>4. \A k \in 1..a : item[s[k]] = Acc[x].base[k]
  <2>1. \A k \in 1..a : k < q
    BY <1>2, <1>3, SMT
  <2>2. QED
    BY <1>1, <2>1 DEF Renewing
<1>5. PICK c, d, e : c = Acc[x - 1] /\ d = Acc[x] /\ e = Extras[x]
  OBVIOUS
<1>6. /\ Applies(c, e, d) /\ e \in ItemType /\ c.rest \in Seq(ItemType)
      /\ Len(c.base) = a /\ \A j \in 1..a : c.base[j].ofs = Base[j].ofs
      /\ Len(c.rest) \in Nat /\ Len(d.rest) \in Nat
  BY <1>1, <1>5, ChainAt
<1>7. y = x + 1 <=> Hit(c.base, e)
  BY <1>1, <1>3, <1>5, <1>6, Zenon DEF Hit
<1>8. PICK p, n \in Nat : p = Len(c.rest) /\ n = Len(Extras)
  <2>1. Extras \in Seq(ItemType)
    BY ExtrasTyped
  <2>2. QED
    BY <1>6, <2>1, LenProperties
<1>9. /\ b = p + (n + 1 - y)
      /\ \A k \in 1..p : item[t[k]] = c.rest[k]
      /\ \A j \in y..n : item[t[p + 1 + (j - y)]] = Extras[j]
      /\ enext = t[p + 2 + (x - y)]
  BY <1>1, <1>5, <1>8 DEF ToCome
<1>10. CASE Hit(c.base, e)
  <2>1. y = x + 1 /\ d.rest = c.rest
    BY <1>6, <1>7, <1>10 DEF Applies
  <2>2. p + 2 + (x - (x + 1)) = p + 1
    BY SMT
  <2>3. enext = t[p + 1] /\ ToCome(t, b, d.rest, x + 1)
    BY <1>1, <1>5, <1>9, <2>1, <2>2
  <2>4. QED
    BY <1>1, <1>4, <1>5, <1>6, <1>8, <2>1, <2>3 DEF Searched
<1>11. CASE ~Hit(c.base, e)
  <2>1. y = x /\ d.rest = Append(c.rest, e)
    BY <1>1, <1>6, <1>7, <1>11 DEF Applies
  <2>2. PICK r : r = d.rest
    OBVIOUS
  <2>3. Len(r) = p + 1 /\ r[p + 1] = e /\ \A k \in 1..p : r[k] = c.rest[k]
    BY <1>6, <1>8, <2>1, <2>2, AppendProperties
  <2>4. p + 2 + (x - x) = (p + 1) + 1
    BY SMT
  <2>5. enext = t[(p + 1) + 1]
    BY <1>9, <2>1, <2>4
  <2>6. b = (p + 1) + (n + 1 - (x + 1))
    BY <1>9, <2>1, SMT
  <2>7. ASSUME NEW k \in 1..(p + 1) PROVE item[t[k]] = r[k]
    <3>1. CASE k \in 1..p
      BY <1>9, <2>3, <3>1
    <3>2. CASE k = p + 1
      <4>1. x \in x..n /\ p + 1 + (x - x) = p + 1
        BY <1>1, <1>8, SMT
      <4>2. item[t[p + 1]] = Extras[x]
        BY <1>9, <2>1, <4>1
      <4>3. QED
        BY <1>5, <2>3, <3>2, <4>2
    <3>3. QED
      BY <3>1, <3>2
  <2>8. ASSUME NEW j \in (x + 1)..n PROVE item[t[(p + 1) + 1 + (j - (x + 1))]] = Extras[j]
    <3>1. j \in x..n /\ (p + 1) + 1 + (j - (x + 1)) = p + 1 + (j - x)
      BY SMT
    <3>2. QED
      BY <1>9, <2>1, <3>1
  <2>9. ToCome(t, b, r, x + 1)
    BY <1>8, <2>3, <2>6, <2>7, <2>8 DEF ToCome
  <2>10. QED
    BY <1>1, <1>4, <1>5, <1>6, <2>2, <2>3, <2>5, <2>9 DEF Searched
<1>12. QED
  BY <1>10, <1>11

LEMMA NextContent == ASSUME IInv, IInv', Content, MergeNext PROVE Content'
<1>1. /\ pc = "merge" /\ input' = input /\ Types /\ pos = cfg
      /\ UNCHANGED <<item, freed, alloc, next, prev>>
      /\ enext = ext => pc' = "append" /\ UNCHANGED cursors
      /\ enext # ext => /\ pc' = "merge" /\ epos' = enext /\ enext' = next[enext]
                        /\ pos' = next[cfg]
  BY DEF IInv, MergeNext, heap
<1>2. PICK s, a, t, b : Stands(s, a, t, b)
  BY <1>1 DEF Content
<1>3. /\ s[0] = cfg /\ t[0] = ext /\ Strung(Live, next, prev, s, a, t, b)
      /\ \E x, y, q \in Nat : Midway(s, a, t, b, x, y, q)
  BY <1>1, <1>2 DEF Stands, Says
<1>4. PICK x, y, q \in Nat : Midway(s, a, t, b, x, y, q)
  BY <1>3
<1>5. Searched(s, a, t, b, x)
  BY <1>1, <1>3, <1>4, SearchedTo, SMTT(40)
<1>6. PICK n \in Nat : n = Len(Extras)
  BY <1>1, ExtrasTyped, LenProperties
<1>7. PICK r, p : r = Acc[x].rest /\ p = Len(r)
  OBVIOUS
<1>8. /\ a = Len(Base) /\ x \in 1..n /\ enext = t[p + 1] /\ p \in Nat
      /\ \A k \in 1..a : item[s[k]] = Acc[x].base[k]
      /\ b = p + (n + 1 - (x + 1))
      /\ \A k \in 1..p : item[t[k]] = r[k]
      /\ \A j \in (x + 1)..n : item[t[p + 1 + (j - (x + 1))]] = Extras[j]
      /\ ToCome(t, b, r, x + 1)
  BY <1>5, <1>6, <1>7 DEF Searched, ToCome
<1>9. /\ b \in Nat /\ t[b + 1] = t[0]
      /\ \A k \in 0..b : next[t[k]] = t[k + 1]
      /\ \A j, k \in 0..b : t[j] = t[k] => j = k
  BY <1>3 DEF Strung, Ring
<1>10. enext = ext <=> x = n
  <2>1. x = n => p + 1 = b + 1
    BY <1>8, SMT
  <2>2. x # n => p + 1 \in 0..b /\ p + 1 # 0 /\ 0 \in 0..b
    BY <1>8, <1>9, SMT
  <2>3. QED
    BY <1>3, <1>8, <1>9, <2>1, <2>2
<1>11. /\ Base' = Base /\ Extras' = Extras /\ Acc' = Acc /\ Whole' = Whole /\ Usable'
  BY <1>1, SaidSame DEF Content
<1>12. Strung(Live', next', prev', s, a, t, b)
  BY <1>1, <1>3, StaysStrung
<1>13. CASE enext = ext
  <2>1. pc' = "append" /\ x = n /\ b = p
    BY <1>1, <1>8, <1>10, <1>13, SMT
  <2>2. Follow(ItemType, Whole, Acc[n].base, Acc[n].rest, a, b)
    BY <1>1, <1>6, <1>7, <1>8, <2>1, WholeIs
  <2>3. Appending(s, a, t, b)'
    BY <1>1, <1>7, <1>8, <1>11, <2>1, <2>2 DEF Appending, Follow
  <2>4. Says(s, a, t, b)'
    BY <2>1, <2>3 DEF Says
  <2>5. Stands(s, a, t, b)'
    BY <1>3, <1>12, <2>4 DEF Stands
  <2>6. QED
    BY <1>11, <2>1, <2>5, Zenon DEF Content
<1>14. CASE enext # ext
  <2>1. x # n /\ x + 1 \in 1..n /\ x + 1 \in (x + 1)..n /\ p + 1 \in 0..b /\ (x + 1) - 1 = x
        /\ p + 1 + ((x + 1) - (x + 1)) = p + 1 /\ (p + 1) + 1 = p + 2
        /\ p + 2 + ((x + 1) - (x + 1)) = p + 2 /\ x + 1 # (x + 1) + 1
        /\ (x + 1) \in Nat
    <3>1. x # n
      BY <1>10, <1>14
    <3>2. x \in 1..n /\ p \in Nat /\ b = p + (n + 1 - (x + 1))
      BY <1>8
    <3>3. x + 1 \in 1..n /\ x + 1 \in (x + 1)..n /\ x < n
      BY <3>1, <3>2, SMT
    <3>4. p + 1 \in 0..b
      BY <3>2, <3>3, SMT
    <3>5. /\ (x + 1) - 1 = x /\ p + 1 + ((x + 1) - (x + 1)) = p + 1 /\ (p + 1) + 1 = p + 2
          /\ p + 2 + ((x + 1) - (x + 1)) = p + 2 /\ x + 1 # (x + 1) + 1
      BY <3>2, SMT
    <3>6. QED
      BY <3>1, <3>3, <3>4, <3>5
  <2>2. /\ pc' = "merge" /\ epos' = t[p + 1] /\ enext' = t[p + 2] /\ pos' = s[1]
    <3>1. next[cfg] = s[1]
      BY <1>3, FirstOf
    <3>2. next[t[p + 1]] = t[(p + 1) + 1]
      BY <1>9, <2>1
    <3>3. QED
      BY <1>1, <1>8, <1>14, <2>1, <3>1, <3>2
  <2>3. item'[epos'] = Extras[x + 1]
    <3>1. item[t[p + 1 + ((x + 1) - (x + 1))]] = Extras[x + 1]
      BY <1>8, <2>1
    <3>2. QED
      BY <1>1, <2>1, <2>2, <3>1
  <2>4. ToCome(t, b, r, x + 1)'
    BY <1>1, <1>8, <1>11 DEF ToCome
  <2>5. Renewing(s, a, Acc[x].base, Acc[x + 1].base, 1)'
    <3>1. \A k \in 1..a : ~(k < 1)
      BY SMT
    <3>2. QED
      BY <1>1, <1>8, <1>11, <3>1 DEF Renewing
  <2>6. Midway(s, a, t, b, x + 1, x + 1, 1)'
    <3>1. \A k \in 1..(1 - 1) : FALSE
      BY SMT
    <3>2. 1 \in 1..(a + 1)
      BY <1>3, SMT DEF Strung, Ring
    <3>3. /\ a = Len(Base') /\ x + 1 \in 1..Len(Extras')
          /\ pos' = s[1] /\ item'[epos'] = Extras'[x + 1]
      BY <1>6, <1>8, <1>11, <2>1, <2>2, <2>3
    <3>4. /\ epos' = t[Len(Acc'[(x + 1) - 1].rest) + 1]
          /\ enext' = t[Len(Acc'[(x + 1) - 1].rest) + 2 + ((x + 1) - (x + 1))]
      BY <1>7, <1>11, <2>1, <2>2
    <3>5. /\ ToCome(t, b, Acc[(x + 1) - 1].rest, x + 1)'
          /\ Renewing(s, a, Acc[(x + 1) - 1].base, Acc[x + 1].base, 1)'
      BY <1>7, <1>11, <2>1, <2>4, <2>5
    <3>6. QED
      BY <2>1, <3>1, <3>2, <3>3, <3>4, <3>5 DEF Midway
  <2>7. Says(s, a, t, b)'
    BY <2>1, <2>2, <2>6 DEF Says
  <2>8. Stands(s, a, t, b)'
    BY <1>3, <1>12, <2>7 DEF Stands
  <2>9. QED
    BY <1>11, <2>2, <2>8, Zenon DEF Content
<1>15. QED
  BY <1>13, <1>14

(* An item is taken out of its list.                                       *)
LEMMA TakenStrung ==
  ASSUME Types, NEW C, NEW r, Known(C, r),
         NEW s, NEW a, NEW t, NEW b, Strung(Live, next, prev, s, a, t, b),
         s[0] \in Heads, t[0] \in Heads, NEW q, NEW n, At(s, a, q, n)
  PROVE  /\ n \in Live /\ n \notin Heads /\ n \in Ids
         /\ DelNext(n) \in Links /\ DelPrev(n) \in Links
         /\ Strung(Live \ {n}, DelNext(n), DelPrev(n), Shortened(s, a, q), a - 1, t, b)
<1>1. n \in Live /\ n \notin Heads /\ n \in Ids
  BY ItemsInside DEF At
<1>2. PICK L, L1, f1, g1, u :
        L = Live /\ L1 = Live \ {n} /\ f1 = DelNext(n) /\ g1 = DelPrev(n) /\ u = Shortened(s, a, q)
  OBVIOUS
<1>3. f1 = [next EXCEPT ![prev[n]] = next[n], ![n] = Poison] /\ L1 = L \ {n}
  BY <1>2 DEF DelNext
<1>4. f1 \in Links /\ g1 \in Links /\ \A m \in L1 : f1[m] \in L1 /\ g1[f1[m]] = m
  BY <1>1, <1>2, TakenOut DEF Linked, Typed, Rings
<1>5. Strung(L, next, prev, s, a, t, b)
  BY <1>2
<1>6. Strung(L1, f1, g1, u, a - 1, t, b)
  <2>1. u = Shortened(s, a, q) /\ L1 = L \ {n}
    BY <1>2, <1>3
  <2>2. f1 = [next EXCEPT ![prev[n]] = next[n], ![n] = Poison]
    BY <1>3
  <2>3. QED
    BY <1>4, <1>5, <2>1, <2>2, RemoveStrung, ZenonT(60)
<1>7. QED
  BY <1>1, <1>2, <1>4, <1>6

LEMMA AppendContent == ASSUME IInv, IInv', Content, AppendNew PROVE Content'
<1>1. /\ pc = "append" /\ pc' = "append" /\ input' = input /\ Types
      /\ UNCHANGED <<item, freed, alloc>> /\ next[ext] # ext
  BY DEF IInv, AppendNew
<1>2. PICK s, a, t, b : Stands(s, a, t, b)
  BY <1>1 DEF Content
<1>3. /\ s[0] = cfg /\ t[0] = ext /\ Strung(Live, next, prev, s, a, t, b)
      /\ Strung(Live, next, prev, t, b, s, a)
      /\ Appending(s, a, t, b)
  BY <1>1, <1>2, StrungTurned DEF Stands, Says
<1>4. next[ext] = t[1] /\ b # 0 /\ 1 \in 1..b /\ a \in Nat /\ b \in Nat
  BY <1>1, <1>3, FirstOf
<1>5. PICK n, dn, dp, u, v :
        n = t[1] /\ dn = DelNext(n) /\ dp = DelPrev(n) /\ u = Shortened(t, b, 1)
        /\ v = Longer(s, a, n)
  OBVIOUS
<1>6. s[0] \in Heads /\ t[0] \in Heads /\ cfg \in Heads
  BY <1>3 DEF Heads
<1>7. PICK C, r : Known(C, r)
  BY DEF IInv
<1>8. PICK L, L1, f1, g1 : L = Live \ {n} /\ L1 = Live' /\ f1 = next' /\ g1 = prev'
  OBVIOUS
<1>a. At(t, b, 1, n)
  BY <1>4, <1>5 DEF At
<1>9. n \in Live /\ n \in Ids /\ Strung(L, dn, dp, u, b - 1, s, a)
  BY <1>1, <1>3, <1>a, <1>5, <1>6, <1>7, <1>8, TakenStrung
<1>10. Strung(L, dn, dp, s, a, u, b - 1)
  BY <1>9, StrungTurned
<1>11. f1 = [dn EXCEPT ![n] = cfg, ![dp[cfg]] = n] /\ cfg = s[0]
  BY <1>3, <1>4, <1>5, <1>8 DEF AppendNew
<1>12. L1 = L \cup {n} /\ n \notin L /\ n \in Nodes
  BY <1>1, <1>8, <1>9, SameLive, NodeFacts
<1>13. g1 \in Links /\ \A m \in L1 : f1[m] \in L1 /\ g1[f1[m]] = m
  BY <1>8, HeapLinkedNext DEF HeapWhole
<1>14. Strung(L1, f1, g1, v, a + 1, u, b - 1)
  <2>1. PICK h : h = cfg
    OBVIOUS
  <2>2. f1 = [dn EXCEPT ![n] = h, ![dp[h]] = n] /\ h = s[0]
    BY <1>11, <2>1
  <2>3. v = Longer(s, a, n)
    BY <1>5
  <2>4. QED
    BY <1>10, <1>12, <1>13, <2>2, <2>3, AppendStrung, ZenonT(60)
<1>15. /\ v[0] = s[0] /\ v[a + 1] = n /\ \A k \in 1..a : v[k] = s[k]
  BY <1>4, <1>5, SMT DEF Longer
<1>16. /\ u[0] = t[0] /\ \A k \in 1..(b - 1) : u[k] = t[k + 1]
  BY <1>4, <1>5, SMT DEF Shortened
<1>17. Whole' = Whole /\ Usable'
  BY <1>1, SaidSame DEF Content
<1>18. Appending(v, a + 1, u, b - 1)'
  <2>1. /\ Len(Whole) = a + b
        /\ \A k \in 1..a : item[s[k]] = Whole[k]
        /\ \A k \in 1..b : item[t[k]] = Whole[a + k]
    BY <1>3 DEF Appending
  <2>2. a + b = (a + 1) + (b - 1)
    BY <1>4, SMT
  <2>3. ASSUME NEW k \in 1..(a + 1) PROVE item[v[k]] = Whole[k]
    <3>1. CASE k = a + 1
      BY <1>4, <1>5, <1>15, <2>1, <3>1
    <3>2. CASE k # a + 1
      <4>1. k \in 1..a
        BY <1>4, <3>2, SMT
      <4>2. QED
        BY <1>15, <2>1, <4>1
    <3>3. QED
      BY <3>1, <3>2
  <2>4. ASSUME NEW k \in 1..(b - 1) PROVE item[u[k]] = Whole[(a + 1) + k]
    <3>1. k + 1 \in 1..b /\ a + (k + 1) = (a + 1) + k
      BY <1>4, SMT
    <3>2. item[t[k + 1]] = Whole[a + (k + 1)]
      BY <2>1, <3>1, Zenon
    <3>3. QED
      BY <1>16, <3>1, <3>2
  <2>5. QED
    BY <1>1, <1>17, <2>1, <2>2, <2>3, <2>4 DEF Appending
<1>19. Says(v, a + 1, u, b - 1)'
  BY <1>1, <1>18 DEF Says
<1>20. Stands(v, a + 1, u, b - 1)'
  BY <1>3, <1>8, <1>14, <1>15, <1>16, <1>19 DEF Stands
<1>21. QED
  BY <1>1, <1>17, <1>20, Zenon DEF Content

LEMMA DoneContent == ASSUME IInv, IInv', Content, MergeDone PROVE Content'
<1>1. /\ pc = "append" /\ pc' = "emit" /\ input' = input
      /\ UNCHANGED <<item, freed, alloc, next, prev>> /\ next[ext] = ext
  BY DEF MergeDone, heap
<1>2. PICK s, a, t, b : Stands(s, a, t, b)
  BY <1>1 DEF Content
<1>3. /\ s[0] = cfg /\ t[0] = ext /\ Strung(Live, next, prev, s, a, t, b)
      /\ Appending(s, a, t, b)
  BY <1>1, <1>2 DEF Stands, Says
<1>4. b = 0 /\ a \in Nat
  BY <1>1, <1>3, StrungTurned, FirstOf
<1>5. Whole' = Whole /\ Usable'
  BY <1>1, SaidSame DEF Content
<1>6. Shows(s, a, Whole)'
  BY <1>1, <1>3, <1>4, <1>5 DEF Shows, Appending
<1>7. Stands(s, a, t, b)'
  BY <1>1, <1>3, <1>6, StaysStrung DEF Stands, Says
<1>8. QED
  BY <1>1, <1>5, <1>7, Zenon DEF Content

(* If no two items have the same offset, an extra item that matches was    *)
(* not found before, and is the first of those still to come.              *)
LEMMA Matched ==
  ASSUME Types, Tame, NEW C, NEW r, Known(C, r), pc = "merge", pos # cfg,
         item[pos].ofs = item[epos].ofs,
         NEW s, NEW a, NEW t, NEW b, s[0] = cfg, t[0] = ext,
         Strung(Live, next, prev, s, a, t, b),
         NEW x \in Nat, NEW y \in Nat, NEW q \in Nat, Midway(s, a, t, b, x, y, q),
         NEW p, p = Len(Acc[x - 1].rest)
  PROVE  /\ p \in Nat /\ b \in Nat /\ y = x /\ Base[q].ofs = Extras[x].ofs
         /\ At(t, b, p + 1, epos) /\ At(s, a, q, pos)
         /\ Acc[x].base[q] = Renewed(item[pos], item[epos])
<1>1. /\ q \in 1..a /\ a \in Nat /\ item[pos] = Acc[x - 1].base[q]
      /\ item[pos].ofs = Base[q].ofs /\ x \in 1..Len(Extras) /\ a = Len(Base)
      /\ \A k \in 1..(q - 1) : k \in 1..q /\ k # q /\ k \in 1..a
  BY AtItem, SMTT(40)
<1>2. /\ y \in {x, x + 1} /\ pos = s[q] /\ item[epos] = Extras[x]
      /\ y = x => epos = t[Len(Acc[x - 1].rest) + 1]
      /\ y = x + 1 <=> \E k \in 1..(q - 1) : Base[k].ofs = Extras[x].ofs
      /\ ToCome(t, b, Acc[x - 1].rest, y)
  BY DEF Midway
<1>3. Base[q].ofs = Extras[x].ofs
  BY <1>1, <1>2
<1>4. y = x
  <2>1. ASSUME NEW k \in 1..(q - 1), Base[k].ofs = Extras[x].ofs PROVE FALSE
    <3>1. k \in 1..Len(Base) /\ q \in 1..Len(Base) /\ k # q
      BY <1>1
    <3>2. Base[k].ofs = Base[q].ofs
      BY <1>3, <2>1
    <3>3. QED
      BY <3>1, <3>2 DEF Tame
  <2>2. QED
    BY <1>2, <2>1
<1>5. p \in Nat
  BY <1>1, ChainAt
<1>6. b \in Nat
  BY DEF Strung, Ring
<1>7. p + 1 \in 1..b
  <2>1. PICK n \in Nat : n = Len(Extras)
    BY ExtrasTyped, LenProperties
  <2>2. b = p + (n + 1 - x) /\ x \in 1..n
    BY <1>1, <1>2, <1>4, <2>1 DEF ToCome
  <2>3. \A l, m, k \in Nat : k \in 1..m => l + 1 \in 1..(l + (m + 1 - k))
    BY SMT
  <2>4. QED
    BY <1>5, <2>2, <2>3
<1>8. Acc[x].base[q] = Renewed(item[pos], item[epos])
  <2>1. Applies(Acc[x - 1], Extras[x], Acc[x]) /\ Len(Acc[x - 1].base) = a
    BY <1>1, ChainAt
  <2>2. Acc[x - 1].base[q].ofs = Extras[x].ofs
    BY <1>1, <1>2
  <2>3. Acc[x].base[q] = Renewed(Acc[x - 1].base[q], Extras[x])
    BY <1>1, <2>1, <2>2 DEF Applies
  <2>4. QED
    BY <1>1, <1>2, <2>3
<1>9. QED
  BY <1>1, <1>2, <1>3, <1>4, <1>5, <1>6, <1>7, <1>8 DEF At

Without(t, b, p, u) == u = Shortened(t, b, p + 1) /\ p \in Nat /\ p + 1 \in 1..b

Left(t, b, p, u) ==
  /\ u[0] = t[0] /\ u[p + 1] = t[p + 2] /\ \A k \in 1..p : u[k] = t[k]
  /\ \A k \in (p + 1)..b : u[k] = t[k + 1]

LEMMA ShortenedIs ==
  ASSUME NEW t, NEW b \in Nat, NEW p \in Nat, NEW u, Without(t, b, p, u)
  PROVE  Left(t, b, p, u)
<1>1. \A k \in 0..b : u[k] = IF k < p + 1 THEN t[k] ELSE t[k + 1]
  BY DEF Shortened, Without
<1>0. p + 1 \in 1..b
  BY DEF Without
<1>2. 0 \in 0..b /\ 0 < p + 1
  BY <1>0, SMT
<1>3. \A k \in 1..p : k \in 0..b /\ k < p + 1
  BY <1>0, SMT
<1>4. \A k \in (p + 1)..b : k \in 0..b /\ ~(k < p + 1)
  BY <1>0, SMT
<1>5. p + 1 \in (p + 1)..b /\ (p + 1) + 1 = p + 2
  BY <1>0, SMT
<1>6. \A k \in (p + 1)..b : u[k] = t[k + 1]
  BY <1>1, <1>4
<1>7. u[p + 1] = t[p + 2]
  BY <1>5, <1>6
<1>8. QED
  BY <1>1, <1>2, <1>3, <1>6, <1>7 DEF Left

Coming(t, b, rest, p, x) == p = Len(rest) /\ ToCome(t, b, rest, x)

LEMMA OneLess ==
  ASSUME Types, UNCHANGED input, NEW t, NEW b \in Nat, NEW rest, NEW x \in Nat,
         NEW p \in Nat, Coming(t, b, rest, p, x),
         \A k \in 1..b : item'[t[k]] = item[t[k]],
         NEW u, Without(t, b, p, u)
  PROVE  ToCome(u, b - 1, rest, x + 1)'
<1>0. p + 1 \in 1..b
  BY DEF Without
<1>1. PICK n \in Nat : n = Len(Extras)
  BY ExtrasTyped, LenProperties
<1>2. /\ b = p + (n + 1 - x)
      /\ \A k \in 1..p : item[t[k]] = rest[k]
      /\ \A j \in x..n : item[t[p + 1 + (j - x)]] = Extras[j]
  BY <1>1 DEF Coming, ToCome
<1>3. /\ \A k \in 1..p : u[k] = t[k]
      /\ \A k \in (p + 1)..b : u[k] = t[k + 1]
  <2>1. Left(t, b, p, u)
    BY ShortenedIs
  <2>2. QED
    BY <2>1 DEF Left
<1>4. b - 1 = p + (n + 1 - (x + 1))
  BY <1>2, SMT
<1>5. \A k \in 1..p : item'[u[k]] = rest[k]
  <2>1. \A k \in 1..p : k \in 1..b
    BY <1>0, SMT
  <2>2. QED
    BY <1>2, <1>3, <2>1
<1>6. ASSUME NEW j \in (x + 1)..n PROVE item'[u[p + 1 + (j - (x + 1))]] = Extras[j]
  <2>1. PICK m : m = p + 1 + (j - (x + 1))
    OBVIOUS
  <2>2. m \in (p + 1)..b /\ m + 1 \in 1..b /\ m + 1 = p + 1 + (j - x) /\ j \in x..n
    BY <1>2, <2>1, SMT
  <2>3. item[t[m + 1]] = Extras[j] /\ u[m] = t[m + 1]
    BY <1>2, <1>3, <2>2
  <2>4. QED
    BY <2>1, <2>2, <2>3
<1>7. Extras' = Extras
  BY SaidSame
<1>8. QED
  BY <1>1, <1>4, <1>5, <1>6, <1>7 DEF Coming, ToCome

(* The search goes on behind the item that was changed.                    *)
Changed(s, a, q, v, d) ==
  /\ v[q + 1] = s[q + 1] /\ item'[v[q]] = d
  /\ \A k \in 1..a : k # q => item'[v[k]] = item[s[k]]

LEMMA MidwayOn ==
  ASSUME Types, Tame, NEW C, NEW r, Known(C, r), pc = "merge", pos # cfg,
         item[pos].ofs = item[epos].ofs,
         NEW s, NEW a, NEW t, NEW b, s[0] = cfg, t[0] = ext,
         Strung(Live, next, prev, s, a, t, b),
         NEW x \in Nat, NEW y \in Nat, NEW q \in Nat, Midway(s, a, t, b, x, y, q),
         UNCHANGED <<input, epos, enext>>, pos' = nxt, item'[epos] = item[epos],
         \A k \in 1..b : item'[t[k]] = item[t[k]],
         NEW v, Changed(s, a, q, v, Acc[x].base[q]),
         NEW u, u = Shortened(t, b, Len(Acc[x - 1].rest) + 1)
  PROVE  Midway(v, a, u, b - 1, x, x + 1, q + 1)'
<1>1. PICK p : p = Len(Acc[x - 1].rest)
  OBVIOUS
<1>2. /\ q \in 1..a /\ a \in Nat /\ q + 1 \in 1..(a + 1) /\ (q + 1) - 1 = q
      /\ nxt = s[q + 1] /\ x \in 1..Len(Extras) /\ a = Len(Base)
  BY AtItem, SMTT(40)
<1>3. /\ p \in Nat /\ b \in Nat /\ y = x /\ Base[q].ofs = Extras[x].ofs
      /\ At(t, b, p + 1, epos)
  BY <1>1, Matched, SMTT(40)
<1>4. /\ pos = s[q] /\ item[epos] = Extras[x]
      /\ enext = t[Len(Acc[x - 1].rest) + 2 + (x - y)]
      /\ Renewing(s, a, Acc[x - 1].base, Acc[x].base, q)
      /\ ToCome(t, b, Acc[x - 1].rest, x)
  BY <1>3 DEF Midway
<1>5. /\ Base' = Base /\ Extras' = Extras /\ Acc' = Acc
  BY SaidSame
<1>6. Without(t, b, p, u)
  BY <1>1, <1>3 DEF Without, At
<1>7. ToCome(u, b - 1, Acc[x - 1].rest, x + 1)'
  <2>1. PICK rest : rest = Acc[x - 1].rest
    OBVIOUS
  <2>2. Coming(t, b, rest, p, x)
    BY <1>1, <1>4, <2>1 DEF Coming
  <2>3. ToCome(u, b - 1, rest, x + 1)'
    BY <1>3, <1>6, <2>2, OneLess
  <2>4. QED
    BY <1>5, <2>1, <2>3
<1>8. enext' = u[p + 2 + (x - (x + 1))]
  <2>1. Left(t, b, p, u)
    BY <1>3, <1>6, ShortenedIs
  <2>2. p + 2 + (x - x) = p + 2 /\ p + 2 + (x - (x + 1)) = p + 1
    BY <1>3, SMT
  <2>3. enext = t[p + 2]
    BY <1>1, <1>3, <1>4, <2>2
  <2>4. QED
    BY <2>1, <2>2, <2>3 DEF Left
<1>9. Renewing(v, a, Acc[x - 1].base, Acc[x].base, q + 1)'
  <2>1. \A k \in 1..a : k # q => (k < q <=> k < q + 1)
    BY <1>2, SMT
  <2>2. q < q + 1
    BY SMT
  <2>3. /\ item'[v[q]] = Acc[x].base[q]
        /\ \A k \in 1..a : k # q => item'[v[k]] = item[s[k]]
    BY DEF Changed
  <2>4. \A k \in 1..a : item[s[k]] = IF k < q THEN Acc[x].base[k] ELSE Acc[x - 1].base[k]
    BY <1>4 DEF Renewing
  <2>5. ASSUME NEW k \in 1..a
        PROVE  item'[v[k]] = IF k < q + 1 THEN Acc[x].base[k] ELSE Acc[x - 1].base[k]
    BY <2>1, <2>2, <2>3, <2>4
  <2>6. QED
    BY <1>5, <2>5 DEF Renewing
<1>10. \E k \in 1..((q + 1) - 1) : Base'[k].ofs = Extras'[x].ofs
  BY <1>2, <1>3, <1>5
<1>11. /\ x + 1 \in {x, x + 1} /\ x + 1 # x
  BY SMT
<1>12. pos' = v[q + 1] /\ item'[epos'] = Extras'[x]
  BY <1>2, <1>4, <1>5 DEF Changed
<1>13. enext' = u[Len(Acc'[x - 1].rest) + 2 + (x - (x + 1))]
  BY <1>1, <1>5, <1>8
<1>14. a = Len(Base') /\ x \in 1..Len(Extras')
  BY <1>2, <1>5
<1>15. QED
  BY <1>2, <1>7, <1>9, <1>10, <1>11, <1>12, <1>13, <1>14 DEF Midway

LEMMA UpdateContent == ASSUME Tame, IInv, IInv', Content, MergeUpdate PROVE Content'
<1>1. Types /\ pc = "merge" /\ pos # cfg /\ item[pos].ofs = item[epos].ofs
      /\ Shorter(item[epos].data, item[pos].data) /\ Tame
  BY DEF IInv, MergeUpdate
<1>2. PICK s, a, t, b : Stands(s, a, t, b)
  BY <1>1 DEF Content
<1>3. /\ s[0] = cfg /\ t[0] = ext /\ Strung(Live, next, prev, s, a, t, b)
      /\ \E x, y, q \in Nat : Midway(s, a, t, b, x, y, q)
  BY <1>1, <1>2 DEF Stands, Says
<1>4. PICK x, y, q \in Nat : Midway(s, a, t, b, x, y, q)
  BY <1>3
<1>5. PICK C, r : Known(C, r)
  BY DEF IInv
<1>6. PICK p : p = Len(Acc[x - 1].rest)
  OBVIOUS
<1>7. /\ p \in Nat /\ b \in Nat /\ At(t, b, p + 1, epos) /\ At(s, a, q, pos)
      /\ Acc[x].base[q] = Renewed(item[pos], item[epos])
  BY <1>1, <1>3, <1>4, <1>5, <1>6, Matched, SMTT(40)
<1>8. /\ epos \in Live /\ epos \notin Heads /\ epos \in Ids /\ epos # pos /\ pos \in Ids
      /\ Sound(epos)
  <2>1. epos \in Live /\ epos \notin Heads
    BY <1>3, <1>7, ItemsInside DEF At, Heads
  <2>2. Sound(epos)
    BY <1>1, <1>5, <2>1, TakenOut
  <2>3. epos \in Ids /\ epos # pos /\ pos \in Ids
    BY <1>1, <1>5, <2>2, Found
  <2>4. QED
    BY <2>1, <2>2, <2>3
<1>9. /\ item' = [item EXCEPT ![pos].data =
                     [k \in DOMAIN @ |-> IF k <= Len(item[epos].data)
                                         THEN item[epos].data[k] ELSE @[k]]]
      /\ next' = DelNext(epos) /\ prev' = DelPrev(epos)
      /\ freed' = freed \cup {epos} /\ alloc' = alloc /\ input' = input /\ pc' = "merge"
      /\ pos' = nxt /\ epos' = epos /\ enext' = enext
  BY <1>1, <1>8 DEF MergeUpdate, Step
<1>10. PICK u, v : u = Shortened(t, b, p + 1) /\ v = s
  OBVIOUS
<1>11. Strung(Live', next', prev', v, a, u, b - 1)
  <2>1. Strung(Live, next, prev, t, b, s, a) /\ s[0] \in Heads /\ t[0] \in Heads
    BY <1>3, StrungTurned DEF Heads
  <2>2. Strung(Live \ {epos}, DelNext(epos), DelPrev(epos), Shortened(t, b, p + 1), b - 1, s, a)
    BY <1>1, <1>5, <1>7, <2>1, TakenStrung
  <2>3. Live' = Live \ {epos}
    BY <1>1, <1>8, <1>9, FreeLive
  <2>4. Strung(Live', next', prev', u, b - 1, v, a)
    BY <1>9, <1>10, <2>2, <2>3
  <2>5. QED
    BY <2>4, StrungTurned
<1>12. item'[pos] = Acc[x].base[q] /\ \A m \in Ids : m # pos => item'[m] = item[m]
  <2>1. item \in [Ids -> ItemType] /\ item[pos] \in ItemType /\ item[epos] \in ItemType
    BY <1>1, <1>8 DEF Types
  <2>2. Renewed(item[pos], item[epos])
          = [item[pos] EXCEPT !.data = Overlaid(item[pos].data, item[epos].data)]
    BY <1>1, <2>1, RenewedIs
  <2>3. item' = [item EXCEPT ![pos] =
                   [item[pos] EXCEPT !.data = Overlaid(item[pos].data, item[epos].data)]]
    BY <1>9 DEF Overlaid
  <2>4. PICK w : w = Renewed(item[pos], item[epos])
    OBVIOUS
  <2>5. item' = [item EXCEPT ![pos] = w]
    BY <2>2, <2>3, <2>4, Zenon
  <2>6. QED
    BY <1>7, <1>8, <2>1, <2>4, <2>5
<1>13. /\ \A k \in 1..a : k # q => s[k] \in Ids /\ s[k] # pos
       /\ \A k \in 1..b : t[k] \in Ids /\ t[k] # pos
       /\ q \in 1..a /\ pos = s[q]
  <2>1. q \in 1..a /\ pos = s[q]
    BY <1>7 DEF At
  <2>2. /\ \A k \in 1..a : s[k] \in Ids
        /\ \A k \in 1..b : t[k] \in Ids
        /\ a \in Nat
    BY <1>3, ItemsInside DEF Heads
  <2>3. /\ \A j, k \in 0..a : s[j] = s[k] => j = k
        /\ \A j \in 0..a, k \in 0..b : s[j] # t[k]
    BY <1>3 DEF Strung, Ring
  <2>4. (\A k \in 1..a : k \in 0..a) /\ \A k \in 1..b : k \in 0..b
    BY <1>7, <2>2, SMT
  <2>5. QED
    BY <2>1, <2>2, <2>3, <2>4
<1>14. Changed(s, a, q, v, Acc[x].base[q])
  BY <1>10, <1>12, <1>13 DEF Changed
<1>15. item'[epos] = item[epos] /\ \A k \in 1..b : item'[t[k]] = item[t[k]]
  BY <1>8, <1>12, <1>13
<1>16. Midway(v, a, u, b - 1, x, x + 1, q + 1)'
  <2>1. UNCHANGED <<input, epos, enext>> /\ pos' = nxt
    BY <1>9
  <2>2. u = Shortened(t, b, Len(Acc[x - 1].rest) + 1)
    BY <1>6, <1>10
  <2>3. QED
    BY <1>1, <1>3, <1>4, <1>5, <1>14, <1>15, <2>1, <2>2, MidwayOn, ZenonT(60)
<1>17. Says(v, a, u, b - 1)'
  <2>1. x + 1 \in Nat /\ q + 1 \in Nat
    OBVIOUS
  <2>2. QED
    BY <1>9, <1>16, <2>1 DEF Says
<1>18. v[0] = cfg /\ u[0] = ext
  <2>1. Without(t, b, p, u)
    BY <1>7, <1>10 DEF Without, At
  <2>2. Left(t, b, p, u)
    BY <1>7, <2>1, ShortenedIs
  <2>3. QED
    BY <1>3, <1>10, <2>2 DEF Left
<1>19. Stands(v, a, u, b - 1)'
  BY <1>11, <1>17, <1>18 DEF Stands
<1>20. Usable'
  BY <1>1, <1>9, SaidSame DEF Content
<1>21. QED
  BY <1>9, <1>19, <1>20, Zenon DEF Content

LEMMA ExchangedIs ==
  ASSUME NEW s, NEW a \in Nat, NEW q \in 1..a, NEW e, NEW v, v = Exchanged(s, a, q, e)
  PROVE  /\ v[0] = s[0] /\ v[q] = e /\ v[q + 1] = s[q + 1]
         /\ \A k \in 1..a : k # q => v[k] = s[k]
<1>1. \A k \in 0..(a + 1) : v[k] = IF k = q THEN e ELSE s[k]
  BY DEF Exchanged
<1>2. /\ 0 \in 0..(a + 1) /\ 0 # q /\ q \in 0..(a + 1) /\ q + 1 \in 0..(a + 1) /\ q + 1 # q
      /\ \A k \in 1..a : k \in 0..(a + 1)
  BY SMT
<1>3. QED
  BY <1>1, <1>2

LEMMA ReplaceContent == ASSUME Tame, IInv, IInv', Content, MergeReplace PROVE Content'
<1>1. Types /\ pc = "merge" /\ pos # cfg /\ item[pos].ofs = item[epos].ofs
      /\ ~Shorter(item[epos].data, item[pos].data) /\ Tame
  BY DEF IInv, MergeReplace
<1>2. PICK s, a, t, b : Stands(s, a, t, b)
  BY <1>1 DEF Content
<1>3. /\ s[0] = cfg /\ t[0] = ext /\ Strung(Live, next, prev, s, a, t, b)
      /\ \E x, y, q \in Nat : Midway(s, a, t, b, x, y, q)
  BY <1>1, <1>2 DEF Stands, Says
<1>4. PICK x, y, q \in Nat : Midway(s, a, t, b, x, y, q)
  BY <1>3
<1>5. PICK C, r : Known(C, r)
  BY DEF IInv
<1>6. PICK p : p = Len(Acc[x - 1].rest)
  OBVIOUS
<1>7. /\ p \in Nat /\ b \in Nat /\ At(t, b, p + 1, epos) /\ At(s, a, q, pos)
      /\ Acc[x].base[q] = Renewed(item[pos], item[epos])
  BY <1>1, <1>3, <1>4, <1>5, <1>6, Matched, SMTT(40)
<1>8. /\ epos \in Live /\ epos \notin Heads /\ epos \in Ids /\ epos # pos /\ pos \in Ids
      /\ Sound(epos) /\ pos \in Live /\ pos \notin Heads
  <2>1. epos \in Live /\ epos \notin Heads
    BY <1>3, <1>7, ItemsInside DEF At, Heads
  <2>2. Sound(epos)
    BY <1>1, <1>5, <2>1, TakenOut
  <2>3. epos \in Ids /\ epos # pos /\ pos \in Ids /\ pos \in Live
    BY <1>1, <1>5, <2>2, Found
  <2>4. pos \notin Heads
    BY <2>3, NodeFacts DEF Heads
  <2>5. QED
    BY <2>1, <2>2, <2>3, <2>4
<1>9. PICK L, dn, dp, L1, f1, g1, u, v, e, n, c :
        /\ L = Live \ {epos} /\ dn = DelNext(epos) /\ dp = DelPrev(epos)
        /\ L1 = Live' /\ f1 = next' /\ g1 = prev'
        /\ u = Shortened(t, b, p + 1) /\ v = Exchanged(s, a, q, e) /\ e = epos /\ n = pos
        /\ c = b - 1
  OBVIOUS
<1>10. /\ next' = [dn EXCEPT ![epos] = dn[pos], ![dp[pos]] = epos, ![pos] = pos]
       /\ freed' = freed \cup {pos} /\ alloc' = alloc /\ input' = input /\ pc' = "merge"
       /\ pos' = nxt /\ epos' = epos /\ enext' = enext /\ item' = item
  BY <1>1, <1>8, <1>9 DEF MergeReplace, Step
<1>11. Strung(L, dn, dp, s, a, u, c)
  <2>1. Strung(Live, next, prev, t, b, s, a) /\ s[0] \in Heads /\ t[0] \in Heads
    BY <1>3, StrungTurned DEF Heads
  <2>2. Strung(Live \ {epos}, DelNext(epos), DelPrev(epos), Shortened(t, b, p + 1), b - 1, s, a)
    BY <1>1, <1>5, <1>7, <2>1, TakenStrung
  <2>3. Strung(L, dn, dp, u, c, s, a)
    BY <1>9, <2>2
  <2>4. QED
    BY <2>3, StrungTurned
<1>12. q \in 1..a /\ n = s[q] /\ a \in Nat
  BY <1>3, <1>7, <1>9 DEF At, Strung, Ring
<1>13. /\ e \in Nodes /\ e \notin L /\ L1 = (L \ {n}) \cup {e}
       /\ f1 = [dn EXCEPT ![e] = dn[n], ![dp[n]] = e, ![n] = n]
  <2>1. Live' = Live \ {pos}
    BY <1>1, <1>8, <1>10, FreeLive
  <2>2. QED
    BY <1>8, <1>9, <1>10, <2>1, NodeFacts
<1>14. g1 \in Links /\ \A m \in L1 : f1[m] \in L1 /\ g1[f1[m]] = m
  BY <1>9, HeapLinkedNext DEF HeapWhole
<1>15. Strung(Live', next', prev', v, a, u, b - 1)
  <2>1. v = Exchanged(s, a, q, e) /\ At(s, a, q, n)
    BY <1>7, <1>9
  <2>2. Strung(L1, f1, g1, v, a, u, c)
    BY <1>11, <1>13, <1>14, <2>1, ReplaceStrung, ZenonT(60)
  <2>3. QED
    BY <1>9, <2>2
<1>16. /\ v[0] = s[0] /\ v[q] = e /\ v[q + 1] = s[q + 1]
       /\ \A k \in 1..a : k # q => v[k] = s[k]
  BY <1>9, <1>12, ExchangedIs
<1>17. item[epos] = Acc[x].base[q]
  <2>1. item[pos] \in ItemType /\ item[epos] \in ItemType
    BY <1>1, <1>8 DEF Types
  <2>2. QED
    BY <1>1, <1>7, <2>1, RenewedIs
<1>18. Changed(s, a, q, v, Acc[x].base[q])
  BY <1>9, <1>10, <1>16, <1>17 DEF Changed
<1>19. Midway(v, a, u, b - 1, x, x + 1, q + 1)'
  <2>1. UNCHANGED <<input, epos, enext>> /\ pos' = nxt
        /\ item'[epos] = item[epos] /\ \A k \in 1..b : item'[t[k]] = item[t[k]]
    BY <1>10
  <2>2. u = Shortened(t, b, Len(Acc[x - 1].rest) + 1)
    BY <1>6, <1>9
  <2>3. QED
    BY <1>1, <1>3, <1>4, <1>5, <1>18, <2>1, <2>2, MidwayOn, ZenonT(60)
<1>20. Says(v, a, u, b - 1)'
  <2>1. x + 1 \in Nat /\ q + 1 \in Nat
    OBVIOUS
  <2>2. QED
    BY <1>10, <1>19, <2>1 DEF Says
<1>21. v[0] = cfg /\ u[0] = ext
  <2>1. Without(t, b, p, u)
    BY <1>7, <1>9 DEF Without, At
  <2>2. Left(t, b, p, u)
    BY <1>7, <2>1, ShortenedIs
  <2>3. QED
    BY <1>3, <1>16, <2>2 DEF Left
<1>22. Stands(v, a, u, b - 1)'
  BY <1>15, <1>20, <1>21 DEF Stands
<1>23. Usable'
  BY <1>1, <1>10, SaidSame DEF Content
<1>24. QED
  BY <1>10, <1>22, <1>23, Zenon DEF Content
-----------------------------------------------------------------------------
(* A list has no more items than there are.                                *)
LEMMA ShortList ==
  ASSUME NEW s, NEW a \in Nat, NEW n \in Nat, \A k \in 1..a : s[k] \in 1..n,
         \A j, k \in 1..a : s[j] = s[k] => j = k
  PROVE  a <= n
<1> SUFFICES ASSUME ~(a <= n) PROVE FALSE
  OBVIOUS
<1> DEFINE f == [k \in 1..a |-> s[k]]
           S == 1..a
           T == 1..n
<1>1. f \in [S -> T]
  OBVIOUS
<1>2. IsFiniteSet(S) /\ Cardinality(S) = a /\ IsFiniteSet(T) /\ Cardinality(T) = n
  <2>1. 1 \in Int /\ a \in Int /\ n \in Int
    OBVIOUS
  <2>2. IsFiniteSet(1..a) /\ Cardinality(1..a) = IF 1 > a THEN 0 ELSE a - 1 + 1
    BY <2>1, FS_Interval
  <2>3. IsFiniteSet(1..n) /\ Cardinality(1..n) = IF 1 > n THEN 0 ELSE n - 1 + 1
    BY <2>1, FS_Interval
  <2>4. (IF 1 > a THEN 0 ELSE a - 1 + 1) = a /\ (IF 1 > n THEN 0 ELSE n - 1 + 1) = n
    BY SMT
  <2>5. QED
    BY <2>2, <2>3, <2>4
<1>3. PICK c, d : c = Cardinality(T) /\ d = Cardinality(S)
  OBVIOUS
<1>4. Cardinality(T) < Cardinality(S)
  BY <1>2, SMT
<1>5. PICK j, k \in S : j # k /\ f[j] = f[k]
  <2> HIDE DEF f, S, T
  <2>1. QED
    BY <1>1, <1>2, <1>4, FS_PigeonHole
<1>6. QED
  BY <1>5

(* The items of the first list, as Emit walks it.                          *)
Walks(h, head, n) ==
  /\ h[0] = next[head]
  /\ \A k \in 1..n : h[k] = IF h[k - 1] = head THEN head ELSE next[h[k - 1]]

LEMMA ListWalks ==
  ASSUME Types, HeapWhole, NEW head \in Live
  PROVE  \E h : Walks(h, head, MaxItems) /\
           LET len == CHOOSE k \in 0..MaxItems : h[k] = head /\ \A l \in 0..(k-1) : h[l] # head
           IN  ListOf(head) = [k \in 1..len |-> item[h[k - 1]]]
<1> DEFINE n == MaxItems
           Built(g) == [k \in 0..n |-> IF k = 0 THEN next[head]
                                       ELSE IF g[k - 1] = head THEN head ELSE next[g[k - 1]]]
           F == [p \in (1..n) \X Live |-> IF p[2] = head THEN head ELSE next[p[2]]]
           start == next[head]
<1>1. n \in Nat /\ \A m \in Live : next[m] \in Live
  BY InputTyped DEF HeapWhole
<1>2. Stepper(F, n, Live)
  BY <1>1 DEF Stepper
<1>3. start \in Live
  BY <1>1
<1> HIDE DEF n, F, start
<1>a. n \in Nat
  BY <1>1
<1>b. PICK f : Unrolled(f, F, n, Live, start)
  BY <1>a, <1>2, <1>3, Recursion, Zenon
<1>4. f \in [0..n -> Live] /\ f[0] = start /\ \A k \in 1..n : f[k] = F[<<k, f[k - 1]>>]
  BY <1>b DEF Unrolled
<1>5. \A k \in 0..n : k # 0 => k \in 1..n /\ k - 1 \in 0..n
  BY <1>a, SMT
<1>6. \A k \in 1..n : k - 1 \in 0..n /\ k \in 0..n /\ k # 0
  BY <1>a, SMT
<1>7. \A k \in 1..n : f[k] = IF f[k - 1] = head THEN head ELSE next[f[k - 1]]
  BY <1>4, <1>6 DEF F
<1>8. f = Built(f)
  <2>1. \A k \in 0..n : f[k] = IF k = 0 THEN next[head]
                               ELSE IF f[k - 1] = head THEN head ELSE next[f[k - 1]]
    BY <1>4, <1>5, <1>7 DEF start
  <2>2. f = [k \in 0..n |-> f[k]]
    BY <1>4
  <2>3. QED
    BY <2>1, <2>2, Zenon
<1>9. PICK h : h = CHOOSE g : g = Built(g)
  OBVIOUS
<1>10. h = Built(h)
  BY <1>8, <1>9, Zenon
<1>11. Walks(h, head, n)
  <2>1. 0 \in 0..n
    BY <1>a, SMT
  <2>2. \A k \in 0..n : h[k] = IF k = 0 THEN next[head]
                               ELSE IF h[k - 1] = head THEN head ELSE next[h[k - 1]]
    BY <1>10, Zenon
  <2>3. QED
    BY <1>6, <2>1, <2>2, Zenon DEF Walks
<1>12. LET len == CHOOSE k \in 0..n : h[k] = head /\ \A l \in 0..(k-1) : h[l] # head
       IN  ListOf(head) = [k \in 1..len |-> item[h[k - 1]]]
  BY <1>9 DEF ListOf, n
<1>13. QED
  BY <1>11, <1>12 DEF n

LEMMA ListIs ==
  ASSUME Types, HeapWhole, NEW s, NEW a, NEW t, NEW b, Strung(Live, next, prev, s, a, t, b),
         s[0] = cfg, t[0] = ext, NEW c \in Seq(ItemType), Shows(s, a, c)
  PROVE  ListOf(cfg) = c
<1>1. /\ a \in Nat /\ s[a + 1] = cfg
      /\ \A k \in 0..a : next[s[k]] = s[k + 1]
      /\ \A j, k \in 0..a : s[j] = s[k] => j = k
  BY DEF Strung, Ring
<1>2. cfg \in Live /\ \A k \in 1..a : s[k] \in Ids /\ s[k] # cfg
  BY ItemsInside DEF Heads
<1>3. MaxItems \in Nat /\ a <= MaxItems
  <2>1. MaxItems \in Nat
    BY InputTyped
  <2>2. \A k \in 1..a : k \in 0..a
    BY <1>1, SMT
  <2>3. PICK n \in Nat : n = MaxItems
    BY <2>1
  <2>4. \A k \in 1..a : s[k] \in 1..n
    BY <1>2, <2>3 DEF Ids
  <2>5. \A j, k \in 1..a : s[j] = s[k] => j = k
    BY <1>1, <2>2
  <2>6. a <= n
    BY <1>1, <2>4, <2>5, ShortList
  <2>7. QED
    BY <2>1, <2>3, <2>6
<1>4. PICK h : Walks(h, cfg, MaxItems) /\
        LET len == CHOOSE k \in 0..MaxItems : h[k] = cfg /\ \A l \in 0..(k-1) : h[l] # cfg
        IN  ListOf(cfg) = [k \in 1..len |-> item[h[k - 1]]]
  BY <1>2, ListWalks
<1> DEFINE T == {k \in 0..a : h[k] = s[k + 1]}
<1>5. \A k \in 0..a : k \in T
  <2>1. 0 \in T
    <3>1. 0 \in 0..a /\ 0 + 1 = 1
      BY <1>1, SMT
    <3>2. h[0] = next[cfg] /\ next[cfg] = s[0 + 1]
      BY <1>1, <1>4, <3>1 DEF Walks
    <3>3. QED
      BY <3>1, <3>2
  <2>2. ASSUME NEW k \in 0..a, k < a, k \in T PROVE k + 1 \in T
    <3>1. /\ k + 1 \in 0..a /\ k + 1 \in 1..a /\ k + 1 \in 1..MaxItems /\ (k + 1) - 1 = k
      BY <1>1, <1>3, <2>2, SMT
    <3>2. h[k + 1] = IF h[k] = cfg THEN cfg ELSE next[h[k]]
      BY <1>4, <3>1 DEF Walks
    <3>3. h[k] = s[k + 1] /\ s[k + 1] # cfg /\ next[s[k + 1]] = s[(k + 1) + 1]
      BY <1>1, <1>2, <2>2, <3>1
    <3>4. QED
      BY <3>1, <3>2, <3>3
  <2> HIDE DEF T
  <2>3. QED
    BY <1>1, <2>1, <2>2, UpTo
<1>6. h[a] = cfg /\ \A l \in 0..a : l # a => h[l] # cfg
  <2>1. a \in 0..a /\ \A l \in 0..a : l # a => l + 1 \in 1..a
    BY <1>1, SMT
  <2>2. h[a] = s[a + 1] /\ \A l \in 0..a : h[l] = s[l + 1]
    BY <1>5, <2>1
  <2>3. \A l \in 0..a : l # a => s[l + 1] # cfg
    BY <1>2, <2>1
  <2>4. QED
    BY <1>1, <2>2, <2>3
<1> DEFINE P(k) == h[k] = cfg /\ \A l \in 0..(k-1) : h[l] # cfg
           len == CHOOSE k \in 0..MaxItems : P(k)
<1>7. len = a
  <2>1. a \in 0..MaxItems /\ \A l \in 0..(a - 1) : l \in 0..a /\ l # a
    BY <1>1, <1>3, SMT
  <2>2. P(a)
    BY <1>6, <2>1
  <2>3. ASSUME NEW k \in 0..MaxItems, P(k) PROVE k = a
    <3>1. a \in 0..(k - 1) \/ k \in 0..a
      BY <1>1, <1>3, SMT
    <3>2. ~(a \in 0..(k - 1))
      BY <1>6, <2>3
    <3>3. QED
      BY <1>6, <2>3, <3>1, <3>2
  <2>4. \A k \in 0..MaxItems : P(k) <=> k = a
    BY <2>2, <2>3, Zenon
  <2> HIDE DEF P
  <2>5. QED
    BY <2>1, <2>4
<1>8. ListOf(cfg) = [k \in 1..a |-> item[h[k - 1]]]
  BY <1>4, <1>7
<1>9. Len(c) = a /\ c = [k \in 1..a |-> c[k]]
  BY DEF Shows
<1>10. \A k \in 1..a : item[h[k - 1]] = c[k]
  <2>1. \A k \in 1..a : k - 1 \in 0..a /\ (k - 1) + 1 = k
    BY <1>1, SMT
  <2>2. QED
    BY <1>5, <2>1 DEF Shows
<1>11. QED
  BY <1>8, <1>9, <1>10, Zenon

LEMMA EmitContent == ASSUME Tame, IInv, IInv', Content, Emit PROVE Content'
<1>1. pc = "emit" /\ input' = input /\ Types
  BY DEF IInv, Emit
<1>2. PICK s, a, t, b : Stands(s, a, t, b)
  BY <1>1 DEF Content
<1>3. /\ s[0] = cfg /\ t[0] = ext /\ Strung(Live, next, prev, s, a, t, b)
      /\ Shows(s, a, Whole)
  BY <1>1, <1>2 DEF Stands, Says
<1>4. PICK c : c = Whole
  OBVIOUS
<1>5. c \in Seq(ItemType)
  BY <1>1, <1>4, WholeIs DEF Follow
<1>6. Shows(s, a, c)
  BY <1>3, <1>4
<1>7. ListOf(cfg) = c
  BY <1>1, <1>3, <1>5, <1>6, HeapLinked, ListIs
<1>8. Whole' = Whole /\ Usable'
  BY <1>1, SaidSame DEF Content
<1>9. pc' = "free" /\ out' = File(Whole)
  <2>1. Len(File(Whole)) < Wrap
    BY DEF Tame, Whole
  <2>2. ListOf(cfg) = Whole
    BY <1>4, <1>7
  <2>3. Len(File(ListOf(cfg))) < Wrap
    BY <2>1, <2>2
  <2>4. QED
    BY <2>2, <2>3, Zenon DEF Emit
<1>10. (out = File(Whole))'
  BY <1>8, <1>9
<1>11. QED
  BY <1>8, <1>9, <1>10 DEF Content

(* What config_lists_free frees is a live item.                            *)
LEMMA FreeGoesOn == ASSUME IInv, FreeItem PROVE pc' = "free"
<1>1. PICK C, r : Known(C, r)
  BY DEF IInv
<1>2. Types /\ next[cfg] # cfg /\ pc = "free"
  BY DEF IInv, FreeItem
<1>3. next[cfg] \in Live /\ next[cfg] \notin Heads
  <2>1. cfg \in Live /\ cfg \in C /\ ext \notin C
    BY <1>1 DEF Known, Rings
  <2>2. next[cfg] \in Live /\ next[cfg] \in C
    BY <1>1, <2>1, Along
  <2>3. QED
    BY <1>2, <2>1, <2>2 DEF Heads
<1>4. next[cfg] \notin freed
  BY <1>3 DEF Live
<1>5. Sound(next[cfg])
  BY <1>1, <1>2, <1>3, TakenOut
<1>6. QED
  BY <1>2, <1>4, <1>5 DEF FreeItem

(* config_lists_free leaves the new contents of the file alone.            *)
LEMMA FreeContent ==
  ASSUME IInv, IInv', Content, FreeSplice \/ FreeItem \/ FreeDone PROVE Content'
<1>1. /\ pc = "free" /\ input' = input /\ out' = out /\ Types
  BY DEF IInv, FreeSplice, FreeItem, FreeDone
<1>2. Whole' = Whole /\ Usable' = Usable /\ (Usable => out = File(Whole))
  BY <1>1, SaidSame DEF Content
<1>3. (Usable => out = File(Whole))'
  BY <1>1, <1>2
<1>4. CASE FreeSplice
  <2>1. pc' = "free"
    BY <1>1, <1>4 DEF FreeSplice
  <2>2. QED
    BY <1>3, <2>1 DEF Content
<1>5. CASE FreeItem
  <2>1. pc' = "free"
    BY <1>5, FreeGoesOn
  <2>2. QED
    BY <1>3, <2>1 DEF Content
<1>6. CASE FreeDone
  <2>1. CASE Usable
    <3>1. pc' = "done"
      BY <1>6, <2>1 DEF FreeDone
    <3>2. QED
      BY <1>2, <1>3, <2>1, <3>1 DEF Content
  <2>2. CASE ~Usable
    <3>1. pc' = "none"
      BY <1>6, <2>2 DEF FreeDone
    <3>2. QED
      BY <1>2, <2>2, <3>1 DEF Content
  <2>3. QED
    BY <2>1, <2>2
<1>7. QED
  BY <1>4, <1>5, <1>6

LEMMA IdleContent == ASSUME Content, UNCHANGED vars PROVE Content'
<1>1. pc' = pc /\ input' = input /\ out' = out
  BY DEF vars
<1>2. Base' = Base /\ Extras' = Extras /\ Acc' = Acc /\ Whole' = Whole /\ Usable' = Usable
  BY <1>1, SaidSame
<1>3. ASSUME NEW s, NEW a, NEW t, NEW b, Stands(s, a, t, b) PROVE Stands(s, a, t, b)'
  <2>1. /\ item' = item /\ line' = line /\ bytes' = bytes
        /\ pos' = pos /\ epos' = epos /\ enext' = enext
        /\ UNCHANGED <<freed, alloc, next, prev>>
    BY DEF vars, heap, cursors
  <2>2. Says(s, a, t, b)'
    <3>1. Says(s, a, t, b)
      BY <1>3 DEF Stands
    <3>2. ASSUME NEW x \in Nat, NEW y \in Nat, NEW q \in Nat, Midway(s, a, t, b, x, y, q)
          PROVE  Midway(s, a, t, b, x, y, q)'
      <4>1. ToCome(t, b, Acc[x - 1].rest, y)'
        BY <1>2, <2>1, <3>2 DEF Midway, ToCome
      <4>2. Renewing(s, a, Acc[x - 1].base, Acc[x].base, q)'
        BY <1>2, <2>1, <3>2 DEF Midway, Renewing
      <4>3. QED
        BY <1>2, <2>1, <3>2, <4>1, <4>2, Zenon DEF Midway
    <3>3. (\E x, y, q \in Nat : Midway(s, a, t, b, x, y, q))
            => \E x, y, q \in Nat : Midway(s, a, t, b, x, y, q)'
      BY <3>2, Zenon
    <3>4. Appending(s, a, t, b) => Appending(s, a, t, b)'
      BY <1>2, <2>1 DEF Appending
    <3>5. QED
      BY <1>1, <1>2, <2>1, <3>1, <3>3, <3>4, Zenon DEF Says, Shows
  <2>3. Strung(Live', next', prev', s, a, t, b)
    BY <1>3, <2>1, StaysStrung DEF Stands
  <2>4. QED
    BY <1>3, <2>2, <2>3 DEF Stands
<1>4. (\E s, a, t, b : Stands(s, a, t, b)) => \E s, a, t, b : Stands(s, a, t, b)'
  BY <1>3, Zenon
<1>5. QED
  BY <1>1, <1>2, <1>4, Zenon DEF Content

(* No item of a tame file is cut short.                                    *)
LEMMA CutContent == ASSUME Tame, Content, ParseCut PROVE FALSE
<1>1. pc = "parse" /\ input.buf = "cut"
  BY DEF ParseCut
<1>2. Usable
  BY <1>1 DEF Content
<1>3. QED
  BY <1>1, <1>2 DEF Tame

LEMMA ContentStep ==
  ASSUME Tame, IInv, IInv', Content, Next \/ UNCHANGED vars PROVE Content'
<1>1. CASE UNCHANGED vars \/ Finished
  BY <1>1, IdleContent DEF Finished
<1>2. CASE LineProcess \/ AddMac \/ ReadFile \/ ParseItem \/ ParseCut
  BY <1>2, LineContent, MacContent, FileContent, ParseContent, CutContent
<1>3. CASE MergeEmpty \/ MergeBegin \/ MergeOther \/ MergeUpdate \/ MergeReplace
  BY <1>3, EmptyContent, BeginContent, OtherContent, UpdateContent, ReplaceContent
<1>4. CASE MergeNext \/ AppendNew \/ MergeDone \/ Emit
  BY <1>4, NextContent, AppendContent, DoneContent, EmitContent
<1>5. CASE FreeSplice \/ FreeItem \/ FreeDone
  BY <1>5, FreeContent
<1>6. QED
  BY <1>1, <1>2, <1>3, <1>4, <1>5 DEF Next

(* The lists say what they should at every step.                           *)
LEMMA AlwaysContent == FilesSpec => [](IInv /\ (Tame => Content))
<1>1. FilesInit => IInv /\ (Tame => Content)
  BY InitIInv, InitContent DEF FilesInit
<1>2. IInv /\ (Tame => Content) /\ [FilesNext]_FilesVars => (IInv /\ (Tame => Content))'
  <2>1. SUFFICES ASSUME IInv, Tame => Content, Next \/ UNCHANGED vars
                 PROVE  IInv' /\ (Tame => Content)'
    BY DEF FilesNext, ConfigStep, FirmwareStep, FilesVars
  <2>2. IInv'
    BY <2>1, LineStep, MacStep, FileStep, ParseStep, CutStep, EmptyStep, BeginStep, OtherStep,
       UpdateStep, ReplaceStep, NextStep, AppendStep, DoneStep, FreeSpliceStep,
       FreeItemStep, FreeDoneStep, IdleStep DEF Next, Finished
  <2>3. input' = input
    BY <2>1 DEF Next, LineProcess, AddMac, ReadFile, ParseItem, ParseCut, MergeEmpty,
       MergeBegin, MergeOther, MergeUpdate, MergeReplace, MergeNext, AppendNew, MergeDone, Emit,
       FreeSplice, FreeItem, FreeDone, Finished, vars
  <2>4. Tame' => Tame
    BY <2>3 DEF Tame, Usable, Base, Extras
  <2>5. (Tame => Content)'
    <3>1. ASSUME Tame' PROVE Content'
      BY <2>1, <2>2, <2>4, <3>1, ContentStep
    <3>2. QED
      BY <3>1
  <2>6. QED
    BY <2>2, <2>5
<1>3. QED
  BY <1>1, <1>2, PTL DEF FilesSpec

(* Of an image as its maker laid it out and tame files (no item cut short, *)
(* no offset twice, not too long together) no step is undefined, and what  *)
(* is downloaded is the first patch for the ROM version, with the version  *)
(* of the image in its last four bytes, and behind it what the file and    *)
(* the extra items say together: each extra item in turn instead of the    *)
(* one with its offset, or over the beginning of its data, the others      *)
(* after them in order; the extra items alone if the file is invalid or    *)
(* what is parsed instead of it is; nothing if there is no file or less is *)
(* read than there is (merge_configs, rtb_read_config,                     *)
(* rtb_get_final_patch).                                                   *)
THEOREM DownloadAlwaysRight == FilesSpec => []Downloaded
<1>1. IInv /\ (Tame => Content) /\ (Fw!Intact => ImageRead) => Downloaded
  <2> SUFFICES ASSUME Tame, Content, Fw!Intact => ImageRead
               PROVE  /\ pc # "crash"
                      /\ Fw!PatchRight(IF Usable THEN File(Merged(Base, Extras)) ELSE << >>)
    BY DEF Downloaded
  <2>0. pc # "crash"
    BY DEF Content
  <2>1. SUFFICES ASSUME NEW want, want = IF Usable THEN File(Merged(Base, Extras)) ELSE << >>
                 PROVE  Fw!PatchRight(want)
    BY <2>0
  <2>2. CASE ~Fw!Intact
    BY <2>2, Zenon DEF Fw!PatchRight
  <2>3. CASE stage = "signature"
    <3>1. stage # "outside" /\ stage # "err" /\ stage # "done"
      BY <2>3
    <3>2. QED
      BY <3>1, Zenon DEF Fw!PatchRight
  <2>4. CASE Fw!Intact /\ stage # "signature"
    <3>1. pc \in {"done", "none"}
      BY <2>4 DEF ImageRead
    <3>2. config_buf = want
      BY <2>1, <3>1 DEF config_buf, Content, Whole
    <3>3. Fw!PatchRight(config_buf)
      BY <2>4 DEF ImageRead
    <3>4. QED
      BY <3>2, <3>3, Zenon
  <2>5. QED
    BY <2>2, <2>3, <2>4
<1>2. QED
  BY <1>1, AlwaysContent, AlwaysRead, PTL
=============================================================================
