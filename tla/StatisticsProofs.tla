-------------------------- MODULE StatisticsProofs --------------------------
(***************************************************************************)
(* What holds of the statistics (module Statistics) for any connections,   *)
(* any number of reads and frames, answers of any length and any units.    *)
(***************************************************************************)
EXTENDS Statistics, FiniteSetTheorems, WellFoundedInduction, TLAPS

(* Main walks over nothing but in its walk: a connection may come and go   *)
(* then, and is not walked over.                                           *)
WalksInTheWalk ==
  /\ main # "walk" => todo = {} /\ at = {}
  /\ \A c, d \in at : c = d

(* Unless main is between the parts of a copy, the copy is whole, and an   *)
(* answer that is half made starts with what it will be compared with.     *)
CopyIsWhole ==
  /\ main # "copy_rest" => sfront = last
  /\ api = "format" => answer.num_bytes = sfront.num_bytes

(* While nothing has raced, what a connection is about to store is one     *)
(* more than what is there still, and main is not adding or clearing it.   *)
StoresAddOne ==
  ~raced => \A c \in Conn :
              sum[c] # -1 => sum[c] = byte_count[c] + 1 /\ c \notin at

Inv == TypeOK /\ WalksInTheWalk /\ CopyIsWhole /\ AnswersAreSnapshots

(* What is added to Inv to count; it needs that there are finitely many    *)
(* connections, Inv does not.                                              *)
Counting == StoresAddOne /\ CountedOnce

-----------------------------------------------------------------------------
(* Sums.  FoldFunctionOnSet is recursive: that it adds up what it is given *)
(* is shown for the set of least cardinality for which it might not.       *)

Total(f, S) == FoldFunctionOnSet(+, 0, f, S)

(* A set of natural numbers has a least element.                           *)
LEMMA LeastElement ==
  ASSUME NEW T, T \subseteq Nat, T # {}
  PROVE  \E x \in T : \A y \in T : x <= y
<1>1. PICK x \in T : \A y \in T : <<y, x>> \notin OpToRel(<, Nat)
  BY NatLessThanWellFounded, WFMin
<1>2. \A y \in T : ~(y < x)
  BY <1>1 DEF OpToRel
<1>. QED  BY <1>2

(* g gives the sum of f over each subset of S, whichever element comes     *)
(* first.                                                                  *)
IsTotal(g, f, S) ==
  /\ g \in [SUBSET S -> Int] /\ g[{}] = 0
  /\ \A s \in SUBSET S : \A x \in s : g[s] = f[x] + g[s \ {x}]

(* There is one.                                                           *)
LEMMA TotalExists ==
  ASSUME NEW S, IsFiniteSet(S), NEW f, \A x \in S : f[x] \in Int
  PROVE  \E g : IsTotal(g, f, S)
<1>. DEFINE T == {n \in Nat : \E s \in SUBSET S :
                   Cardinality(s) = n /\ ~\E g : IsTotal(g, f, s)}
<1>1. ASSUME NEW n \in T, \A m \in T : n <= m PROVE FALSE
  <2>1. PICK s \in SUBSET S : n \in Nat /\ Cardinality(s) = n /\ ~\E g : IsTotal(g, f, s)
    BY <1>1
  <2>2. IsFiniteSet(s)
    BY FS_Subset
  <2>3. CASE s = {}
    <3>. PICK g : g = [t \in SUBSET {} |-> 0]
      OBVIOUS
    <3>1. IsTotal(g, f, {})
      BY DEF IsTotal
    <3>. QED  BY <2>1, <2>3, <3>1
  <2>4. CASE s # {}
    <3>1. PICK y \in s : TRUE
      BY <2>4
    <3>. PICK r : r = s \ {y}
      OBVIOUS
    <3>2. /\ IsFiniteSet(r) /\ Cardinality(r) = n - 1 /\ n - 1 \in Nat
          /\ r \in SUBSET S /\ y \notin r /\ s = r \cup {y}
      <4>1. y \notin r /\ s = r \cup {y} /\ r \in SUBSET S
        BY <3>1
      <4>2. IsFiniteSet(r) /\ Cardinality(r) = Cardinality(s) - 1
        BY <2>2, <3>1, FS_RemoveElement
      <4>3. Cardinality(r) \in Nat
        BY <4>2, FS_CardinalityType
      <4>. QED  BY <2>1, <4>1, <4>2, <4>3
    <3>3. n - 1 \notin T
      BY <1>1, <2>1
    <3>4. PICK g : IsTotal(g, f, r)
      BY <3>2, <3>3
    <3>. PICK h : h = [t \in SUBSET s |-> IF y \in t THEN f[y] + g[t \ {y}] ELSE g[t]]
      OBVIOUS
    <3>5. /\ f[y] \in Int
          /\ \A t \in SUBSET s : /\ t \ {y} \in SUBSET r
                                 /\ y \notin t => t \in SUBSET r
                                 /\ h[t] = IF y \in t THEN f[y] + g[t \ {y}] ELSE g[t]
      BY <3>1, <3>2
    <3>6. h \in [SUBSET s -> Int] /\ h[{}] = 0
      BY <3>4, <3>5 DEF IsTotal
    <3>7. ASSUME NEW t \in SUBSET s, NEW x \in t PROVE h[t] = f[x] + h[t \ {x}]
      <4>0. f[x] \in Int /\ t \ {x} \in SUBSET s
        BY <2>1
      <4>1. CASE y \notin t
        <5>1. t \in SUBSET r /\ h[t] = g[t] /\ h[t \ {x}] = g[t \ {x}]
          BY <3>5, <4>0, <4>1
        <5>. QED  BY <3>4, <5>1 DEF IsTotal
      <4>2. CASE x = y
        BY <3>5, <4>0, <4>2
      <4>3. CASE y \in t /\ x # y
        <5>1. h[t] = f[y] + g[t \ {y}] /\ h[t \ {x}] = f[y] + g[(t \ {x}) \ {y}]
          BY <3>5, <4>0, <4>3
        <5>2. t \ {y} \in SUBSET r /\ x \in t \ {y} /\ (t \ {y}) \ {x} = (t \ {x}) \ {y}
          BY <3>5, <4>3
        <5>3. /\ g[t \ {y}] = f[x] + g[(t \ {x}) \ {y}]
              /\ g[(t \ {x}) \ {y}] \in Int
          <6>1. (t \ {x}) \ {y} \in SUBSET r
            BY <5>2
          <6>2. \A u \in SUBSET r : \A z \in u : g[u] = f[z] + g[u \ {z}]
            BY <3>4 DEF IsTotal
          <6>3. g[t \ {y}] = f[x] + g[(t \ {y}) \ {x}]
            BY <5>2, <6>2
          <6>4. g \in [SUBSET r -> Int]
            BY <3>4 DEF IsTotal
          <6>. QED  BY <5>2, <6>1, <6>3, <6>4
        <5>. QED  BY <3>5, <4>0, <5>1, <5>3
      <4>. QED  BY <4>1, <4>2, <4>3
    <3>8. IsTotal(h, f, s)
      BY <3>6, <3>7 DEF IsTotal
    <3>. QED  BY <2>1, <3>8
  <2>. QED  BY <2>3, <2>4
<1>2. T = {}
  BY <1>1, LeastElement
<1>3. Cardinality(S) \in Nat /\ S \in SUBSET S
  BY FS_CardinalityType
<1>. QED  BY <1>2, <1>3

(* And what it gives is what FoldFunctionOnSet does.                       *)
LEMMA FoldIsTotal ==
  ASSUME NEW S, IsFiniteSet(S), NEW f, NEW g, IsTotal(g, f, S)
  PROVE  Total(f, S) = g[S]
<1>. DEFINE Folds(j) == j = [s \in SUBSET S |->
              IF s = {} THEN 0
              ELSE f[CHOOSE x \in s : TRUE] + j[s \ {CHOOSE x \in s : TRUE}]]
<1>1. Folds(g)
  <2>1. \A s \in SUBSET S : s # {} => (CHOOSE x \in s : TRUE) \in s
    OBVIOUS
  <2>2. \A s \in SUBSET S : g[s] = IF s = {} THEN 0
              ELSE f[CHOOSE x \in s : TRUE] + g[s \ {CHOOSE x \in s : TRUE}]
    BY <2>1 DEF IsTotal
  <2>. QED  BY <2>2 DEF IsTotal
<1>2. ASSUME NEW j, Folds(j) PROVE j[S] = g[S]
  <2>. DEFINE T == {n \in Nat : \E s \in SUBSET S : Cardinality(s) = n /\ j[s] # g[s]}
  <2>1. ASSUME NEW n \in T, \A m \in T : n <= m PROVE FALSE
    <3>1. PICK s \in SUBSET S : n \in Nat /\ Cardinality(s) = n /\ j[s] # g[s]
      BY <2>1
    <3>2. s # {}
      BY <1>1, <1>2, <3>1
    <3>. PICK x : x = CHOOSE y \in s : TRUE
      OBVIOUS
    <3>3. x \in s
      BY <3>2
    <3>4. j[s] = f[x] + j[s \ {x}] /\ g[s] = f[x] + g[s \ {x}]
      BY <1>1, <1>2, <3>2, SMTT(30)
    <3>5. s \ {x} \in SUBSET S /\ Cardinality(s \ {x}) = n - 1 /\ n - 1 \in Nat
      <4>1. IsFiniteSet(s)
        BY FS_Subset
      <4>2. IsFiniteSet(s \ {x}) /\ Cardinality(s \ {x}) = Cardinality(s) - 1
        BY <3>3, <4>1, FS_RemoveElement
      <4>3. Cardinality(s \ {x}) \in Nat
        BY <4>2, FS_CardinalityType
      <4>. QED  BY <3>1, <4>2, <4>3
    <3>6. n - 1 \notin T
      BY <2>1, <3>1
    <3>7. j[s \ {x}] = g[s \ {x}]
      BY <3>5, <3>6
    <3>. QED  BY <3>1, <3>4, <3>7
  <2>2. T = {}
    BY <2>1, LeastElement
  <2>3. Cardinality(S) \in Nat /\ S \in SUBSET S
    BY FS_CardinalityType
  <2>. QED  BY <2>2, <2>3
<1>3. Total(f, S) = (CHOOSE j : Folds(j))[S]
  BY Zenon DEF Total, FoldFunctionOnSet, MapThenFoldSet
<1>4. Folds(CHOOSE j : Folds(j))
  BY <1>1
<1>. QED  BY <1>2, <1>3, <1>4

(* An element may be taken out of the sum.                                 *)
LEMMA FoldRemove ==
  ASSUME NEW S, IsFiniteSet(S), NEW f, \A x \in S : f[x] \in Int, NEW x \in S
  PROVE  /\ Total(f, S) \in Int
         /\ Total(f, S \ {x}) \in Int
         /\ Total(f, S) = f[x] + Total(f, S \ {x})
<1>1. PICK g : IsTotal(g, f, S)
  BY TotalExists
<1>. DEFINE r == S \ {x}
<1>. PICK h : h = [s \in SUBSET r |-> g[s]]
  OBVIOUS
<1>2. IsFiniteSet(r) /\ SUBSET r \subseteq SUBSET S /\ r \in SUBSET r /\ S \in SUBSET S
  BY FS_Subset
<1>3. IsTotal(h, f, r)
  BY <1>1, <1>2 DEF IsTotal
<1>4. /\ Total(f, S) = g[S]
      /\ Total(f, r) = h[r]
  BY <1>1, <1>2, <1>3, FoldIsTotal
<1>5. g[S] = f[x] + g[r] /\ h[r] = g[r] /\ g[S] \in Int /\ g[r] \in Int
  BY <1>1, <1>2 DEF IsTotal
<1>. QED  BY <1>4, <1>5

(* The sum depends on nothing but the values over the set.                 *)
LEMMA FoldSame ==
  ASSUME NEW S, IsFiniteSet(S), NEW f, NEW g, \A x \in S : f[x] \in Int,
         \A x \in S : f[x] = g[x]
  PROVE  Total(f, S) = Total(g, S)
<1>1. PICK t : IsTotal(t, f, S)
  BY TotalExists
<1>2. IsTotal(t, g, S)
  BY <1>1 DEF IsTotal
<1>. QED  BY <1>1, <1>2, FoldIsTotal

-----------------------------------------------------------------------------
(* Units.  The powers of Base are defined by recursion: that they exist is *)
(* shown for the least place to which they might not reach.                *)

Places == 0 .. LastUnit + 1

ArePowers(p, n) == p = [i \in 0 .. n |-> IF i = 0 THEN 1 ELSE Base * p[i - 1]]

LEMMA PowersExist == \A n \in Places : \E p : ArePowers(p, n)
<1>. DEFINE T == {n \in Places : ~\E p : ArePowers(p, n)}
<1>1. ASSUME NEW n \in T, \A m \in T : n <= m PROVE FALSE
  <2>1. n \in Nat /\ n \in Places /\ ~\E p : ArePowers(p, n)
    BY <1>1, BaseAssumption DEF Places
  <2>2. CASE n = 0
    <3>1. PICK q : q = [i \in 0 .. 0 |-> 1]
      OBVIOUS
    <3>2. ArePowers(q, 0)
      BY <3>1 DEF ArePowers
    <3>. QED  BY <2>1, <2>2, <3>2
  <2>3. CASE n # 0
    <3>1. n - 1 \in Places /\ n - 1 \in Nat /\ ~(n <= n - 1)
      BY <2>1, <2>3, BaseAssumption DEF Places
    <3>2. n - 1 \notin T
      BY <1>1, <3>1
    <3>3. PICK p : ArePowers(p, n - 1)
      BY <3>1, <3>2
    <3>4. PICK q : q = [i \in 0 .. n |-> IF i = 0 THEN 1 ELSE Base * p[i - 1]]
      OBVIOUS
    <3>5. ASSUME NEW i \in 0 .. n - 1 PROVE q[i] = p[i]
      <4>1. i \in 0 .. n
        BY <2>1
      <4>2. q[i] = IF i = 0 THEN 1 ELSE Base * p[i - 1]
        BY <3>4, <4>1
      <4>3. p[i] = IF i = 0 THEN 1 ELSE Base * p[i - 1]
        BY <3>3 DEF ArePowers
      <4>. QED  BY <4>2, <4>3
    <3>6. ASSUME NEW i \in 0 .. n PROVE i # 0 => q[i - 1] = p[i - 1]
      BY <2>1, <3>5
    <3>7. ArePowers(q, n)
      BY <3>4, <3>6 DEF ArePowers
    <3>. QED  BY <2>1, <3>7
  <2>. QED  BY <2>2, <2>3
<1>2. T \subseteq Nat
  BY BaseAssumption DEF Places
<1>3. T = {}
  <2>. HIDE DEF T
  <2>. QED  BY <1>1, <1>2, LeastElement
<1>. QED  BY <1>3

LEMMA PowerIs ==
  /\ Power[0] = 1
  /\ \A i \in Places : Power[i] \in Nat \ {0}
  /\ \A i \in 0 .. LastUnit : Power[i + 1] = Base * Power[i]
<1>1. ArePowers(Power, LastUnit + 1)
  <2>1. Power = CHOOSE p : ArePowers(p, LastUnit + 1)
    BY Zenon DEF Power, ArePowers
  <2>2. LastUnit + 1 \in Places
    BY BaseAssumption DEF Places
  <2>. QED  BY <2>1, <2>2, PowersExist
<1>2. \A i \in Places : Power[i] = IF i = 0 THEN 1 ELSE Base * Power[i - 1]
  BY <1>1 DEF ArePowers, Places
<1>3. Power[0] = 1
  BY <1>2, BaseAssumption DEF Places
<1>4. ASSUME NEW i \in 0 .. LastUnit PROVE Power[i + 1] = Base * Power[i]
  <2>1. i + 1 \in Places /\ i + 1 # 0 /\ (i + 1) - 1 = i
    BY BaseAssumption DEF Places
  <2>. QED  BY <1>2, <2>1
<1>. DEFINE T == {i \in Places : Power[i] \notin Nat \ {0}}
<1>5. ASSUME NEW i \in T, \A k \in T : i <= k PROVE FALSE
  <2>1. i \in Places /\ i \in Nat /\ i # 0
    BY <1>3, BaseAssumption DEF Places
  <2>2. i - 1 \in 0 .. LastUnit /\ i - 1 \in Places /\ (i - 1) + 1 = i /\ ~(i <= i - 1)
    BY <2>1, BaseAssumption DEF Places
  <2>3. Power[i - 1] \in Nat \ {0}
    BY <1>5, <2>2
  <2>4. Power[i] = Base * Power[i - 1]
    BY <1>4, <2>2
  <2>5. Power[i] \in Nat \ {0}
    BY <2>3, <2>4, BaseAssumption
  <2>. QED  BY <2>5
<1>6. T = {}
  <2>1. T \subseteq Nat
    BY BaseAssumption DEF Places
  <2>. HIDE DEF T
  <2>. QED  BY <1>5, <2>1, LeastElement
<1>. QED  BY <1>3, <1>4, <1>6

(* Where a loop over the units stops: the first place with P, or the last. *)
LEMMA StopsFirst ==
  ASSUME NEW T, T \subseteq 0 .. LastUnit, LastUnit \in T
  PROVE  Min(T) \in T /\ \A i \in T : Min(T) <= i
<1>1. T \subseteq Nat
  BY BaseAssumption
<1>2. \E x \in T : \A y \in T : x <= y
  BY <1>1, LeastElement
<1>. QED  BY <1>2 DEF Min

LEMMA UnitIs ==
  ASSUME NEW v
  PROVE  /\ Unit(v) \in 0 .. LastUnit
         /\ Unit(v) = LastUnit \/ v \div Power[Unit(v)] <= Base
         /\ \A i \in 0 .. LastUnit : v \div Power[i] <= Base => Unit(v) <= i
<1>. DEFINE T == {i \in 0 .. LastUnit : i = LastUnit \/ v \div Power[i] <= Base}
<1>1. T \subseteq 0 .. LastUnit /\ LastUnit \in T /\ Unit(v) = Min(T)
  BY BaseAssumption DEF Unit
<1>2. Unit(v) \in T /\ \A i \in T : Unit(v) <= i
  <2>. HIDE DEF T
  <2>. QED  BY <1>1, StopsFirst
<1>. QED  BY <1>2

LEMMA DivisionsIs ==
  ASSUME NEW v
  PROVE  /\ Divisions(v) \in 0 .. LastUnit
         /\ Divisions(v) = LastUnit \/ v <= Power[Divisions(v) + 1]
         /\ \A i \in 0 .. LastUnit : i = LastUnit \/ v <= Power[i + 1] => Divisions(v) <= i
<1>. DEFINE T == {i \in 0 .. LastUnit : i = LastUnit \/ v <= Power[i + 1]}
<1>1. T \subseteq 0 .. LastUnit /\ LastUnit \in T /\ Divisions(v) = Min(T)
  BY BaseAssumption DEF Divisions
<1>2. Divisions(v) \in T /\ \A i \in T : Divisions(v) <= i
  <2>. HIDE DEF T
  <2>. QED  BY <1>1, StopsFirst
<1>. QED  BY <1>2

(* What integer division says of a value and B units worth p.              *)
LEMMA Quotient ==
  ASSUME NEW v \in Nat, NEW p \in Nat \ {0}, NEW B \in Nat
  PROVE  /\ v <= B * p => v \div p <= B
         /\ v > B * p => v \div p >= B
         /\ v < (B + 1) * p <=> v \div p <= B
<1>1. PICK q \in Nat : q = v \div p
  OBVIOUS
<1>2. q * p <= v /\ v < q * p + p
  BY <1>1
<1>3. v <= B * p => q <= B
  BY <1>2
<1>4. v > B * p => q >= B
  BY <1>2
<1>5. v < (B + 1) * p => q <= B
  BY <1>2
<1>6. q <= B => v < (B + 1) * p
  BY <1>2
<1>. QED  BY <1>1, <1>3, <1>4, <1>5, <1>6

(* The scaled number is divided as often as its unit says, or once more if *)
(* it exceeds Base of the unit by a part of one.                           *)
LEMMA UnitOrOneMore ==
  ASSUME NEW v \in Nat
  PROVE  \/ Divisions(v) = Unit(v)
         \/ \E i \in 1 .. LastUnit - 1 :
              /\ v \div Power[i] = Base /\ v # Power[i + 1]
              /\ Divisions(v) = i + 1 /\ Unit(v) = i
<1>1. PICK u \in 0 .. LastUnit, d \in 0 .. LastUnit : u = Unit(v) /\ d = Divisions(v)
  BY UnitIs, DivisionsIs
<1>2. /\ u = LastUnit \/ v \div Power[u] <= Base
      /\ \A i \in 0 .. LastUnit : v \div Power[i] <= Base => u <= i
  BY <1>1, UnitIs
<1>3. /\ d = LastUnit \/ v <= Power[d + 1]
      /\ \A i \in 0 .. LastUnit : i = LastUnit \/ v <= Power[i + 1] => d <= i
  BY <1>1, DivisionsIs
<1>4. \A i \in 0 .. LastUnit :
        /\ Power[i] \in Nat \ {0} /\ Power[i + 1] = Base * Power[i]
        /\ v <= Power[i + 1] => v \div Power[i] <= Base
        /\ v > Power[i + 1] => v \div Power[i] >= Base
  <2>1. ASSUME NEW i \in 0 .. LastUnit PROVE i \in Places
    BY BaseAssumption DEF Places
  <2>2. Base \in Nat
    BY BaseAssumption
  <2>. QED  BY <2>1, <2>2, PowerIs, Quotient, SMTT(30)
<1>5. u <= d
  BY <1>2, <1>3, <1>4
<1>6. CASE u # d
  <2>1. u \in 0 .. LastUnit - 1 /\ u + 1 \in 0 .. LastUnit /\ u < d
    BY <1>5, <1>6, BaseAssumption
  <2>2. v \div Power[u] <= Base
    BY <1>2, <2>1, BaseAssumption
  <2>3. ~(v <= Power[u + 1]) /\ Power[u + 1] \in Nat
    BY <1>3, <1>4, <2>1, BaseAssumption
  <2>4. v > Power[u + 1] /\ v # Power[u + 1]
    BY <2>3
  <2>5. v \div Power[u] = Base
    <3>1. v \div Power[u] >= Base /\ v \div Power[u] \in Int
      BY <1>4, <2>4
    <3>. QED  BY <2>2, <3>1, BaseAssumption
  <2>6. u # 0
    <3>1. ASSUME u = 0 PROVE FALSE
      <4>1. Power[u] = 1 /\ Power[u + 1] = Base * 1
        BY <1>4, <2>1, <3>1, PowerIs
      <4>2. v \div 1 = v
        OBVIOUS
      <4>. QED  BY <2>4, <2>5, <4>1, <4>2, BaseAssumption
    <3>. QED  BY <3>1
  <2>7. v <= Power[u + 2]
    <3>1. PICK p \in Nat \ {0} : p = Power[u]
      BY <1>4
    <3>2. v < (Base + 1) * p
      BY <2>2, <3>1, Quotient, BaseAssumption
    <3>3. Power[u + 2] = Base * (Base * p)
      <4>1. (u + 1) + 1 = u + 2
        BY <2>1
      <4>. QED  BY <1>4, <2>1, <3>1, <4>1
    <3>4. Base + 1 <= Base * Base /\ Base * Base \in Nat /\ Base + 1 \in Nat
      BY BaseAssumption
    <3>5. (Base + 1) * p <= (Base * Base) * p
      BY <3>4
    <3>6. (Base * Base) * p = Base * (Base * p)
      BY BaseAssumption
    <3>7. (Base + 1) * p \in Nat /\ (Base * Base) * p \in Nat
      BY BaseAssumption
    <3>. QED  BY <3>2, <3>3, <3>5, <3>6, <3>7
  <2>8. d <= u + 1
    <3>1. (u + 1) + 1 = u + 2
      BY <2>1
    <3>. QED  BY <1>3, <2>1, <2>7, <3>1
  <2>9. d = u + 1 /\ u \in 1 .. LastUnit - 1
    BY <2>1, <2>6, <2>8, BaseAssumption
  <2>. QED  BY <1>1, <2>4, <2>5, <2>9
<1>. QED  BY <1>1, <1>6

-----------------------------------------------------------------------------
(* A structure with one number replaced is a structure still.              *)
LEMMA CountsExcept ==
  ASSUME NEW s \in Counts, NEW n \in Nat
  PROVE  /\ [s EXCEPT !.num_bytes = n] \in Counts
         /\ [s EXCEPT !.num_bytes = n].num_bytes = n
         /\ [s EXCEPT !.num_frames = n] \in Counts
  BY DEF Counts

LEMMA InitInv == Init => Inv
<1>1. ASSUME Init PROVE Zero \in Counts
  BY DEF Zero, Counts
<1>2. ASSUME Init PROVE byte_count \in [Conn -> Nat] /\ sum \in [Conn -> Nat \cup {-1}]
  BY <1>2 DEF Init
<1>3. ASSUME Init PROVE TypeOK
  <2>1. 0 \in 0 .. Parts
    BY PartsAssumption
  <2>2. {exit, room, fits, raced, killed} \subseteq BOOLEAN
    BY <1>3 DEF Init
  <2>. QED  BY <1>1, <1>2, <1>3, <2>1, <2>2 DEF Init, TypeOK
<1>. QED  BY <1>3 DEF Init, Inv, WalksInTheWalk, CopyIsWhole, AnswersAreSnapshots

-----------------------------------------------------------------------------
(* The connections                                                         *)

LEMMA ConnectInv ==
  ASSUME Inv, NEW c \in Conn, Connect(c) \/ LoadCount(c) \/ StoreCount(c) \/ Disconnect(c)
  PROVE  Inv'
<1>. USE DEF mainVars, apiVars, peerVars, shared, apiSide, Inv
<1>1. /\ WalksInTheWalk' /\ CopyIsWhole' /\ AnswersAreSnapshots'
      /\ UNCHANGED <<main, stats, exit, sfront, lock, last, api, answer, left,
                     client, room, fits, killed, todo, at>>
  BY DEF Connect, LoadCount, StoreCount, Disconnect, WalksInTheWalk, CopyIsWhole,
         AnswersAreSnapshots
<1>2. byte_count[c] \in Nat /\ sum[c] \in Nat \cup {-1}
  BY DEF TypeOK
<1>3. raced' \in BOOLEAN
  <2>1. \/ raced' = raced \/ raced' = (raced \/ c \in at)
    BY DEF Connect, LoadCount, StoreCount, Disconnect
  <2>2. raced \in BOOLEAN
    BY DEF TypeOK
  <2>. QED  BY <2>1, <2>2, Zenon
<1>4. /\ byte_count' \in [Conn -> Nat] /\ sum' \in [Conn -> Nat \cup {-1}]
      /\ received' \in Nat /\ missed' \in Nat
  <2>1. CASE Connect(c)
    BY <2>1 DEF Connect, TypeOK
  <2>2. CASE LoadCount(c)
    BY <2>2, <1>2 DEF LoadCount, TypeOK
  <2>3. CASE StoreCount(c)
    BY <2>3, <1>2 DEF StoreCount, TypeOK
  <2>4. CASE Disconnect(c)
    BY <2>4, <1>2 DEF Disconnect, TypeOK
  <2>. QED  BY <2>1, <2>2, <2>3, <2>4
<1>5. conns' \subseteq Conn /\ todo' \subseteq conns' /\ at' \subseteq conns'
  BY DEF Connect, LoadCount, StoreCount, Disconnect, TypeOK, WalksInTheWalk
<1>6. TypeOK'
  BY <1>1, <1>3, <1>4, <1>5 DEF TypeOK
<1>. QED  BY <1>1, <1>6

-----------------------------------------------------------------------------
(* Main                                                                    *)

LEMMA MainInv ==
  ASSUME Inv, MainStep \/ BeginFree
  PROVE  Inv'
<1>. USE DEF connVars, apiVars, peerVars, shared, apiSide, Inv, WalksInTheWalk,
             CopyIsWhole, AnswersAreSnapshots, TypeOK, At
<1>1. CASE BeginWalk
  BY <1>1 DEF BeginWalk
<1>2. CASE AddCount
  <2>1. PICK c \in todo :
          /\ at' = {c} /\ todo' = todo \ {c}
          /\ stats' = [stats EXCEPT !.num_bytes = stats.num_bytes + byte_count[c]]
          /\ raced' = (raced \/ sum[c] # -1)
    BY <1>2 DEF AddCount
  <2>2. stats.num_bytes + byte_count[c] \in Nat
    BY DEF Counts
  <2>3. stats' \in Counts
    BY <2>1, <2>2, CountsExcept
  <2>4. raced' \in BOOLEAN
    BY <2>1, Zenon
  <2>. QED  BY <1>2, <2>1, <2>3, <2>4 DEF AddCount
<1>3. CASE ClearCount
  <2>1. raced' \in BOOLEAN
    <3>1. raced' = (raced \/ \E c \in at : sum[c] # -1) /\ raced \in BOOLEAN
      BY <1>3 DEF ClearCount
    <3>. QED  BY <3>1, Zenon
  <2>2. byte_count' \in [Conn -> Nat]
    BY <1>3 DEF ClearCount
  <2>. QED  BY <1>3, <2>1, <2>2 DEF ClearCount
<1>4. CASE EndWalk
  BY <1>4 DEF EndWalk
<1>5. CASE LockStats
  BY <1>5 DEF LockStats
<1>6. CASE CopyFirst
  <2>1. stats.num_bytes \in Nat
    BY DEF Counts
  <2>2. sfront' \in Counts
    BY <1>6, <2>1, CountsExcept DEF CopyFirst
  <2>. QED  BY <1>6, <2>2 DEF CopyFirst
<1>7. CASE CopyRest
  <2>1. stats.num_frames + 1 \in Nat
    BY DEF Counts
  <2>2. stats' \in Counts
    BY <1>7, <2>1, CountsExcept DEF CopyRest
  <2>. QED  BY <1>7, <2>2 DEF CopyRest
<1>8. CASE Join
  BY <1>8 DEF Join
<1>9. CASE BeginFree
  BY <1>9 DEF BeginFree
<1>. QED  BY <1>1, <1>2, <1>3, <1>4, <1>5, <1>6, <1>7, <1>8, <1>9 DEF MainStep

-----------------------------------------------------------------------------
(* api_thread and its clients                                              *)

LEMMA ApiInv ==
  ASSUME Inv, ApiStep \/ AcceptFails \/ Peer
  PROVE  Inv'
<1>. USE DEF connVars, mainVars, apiVars, peerVars, shared, apiSide, Inv,
             WalksInTheWalk, CopyIsWhole, AnswersAreSnapshots, TypeOK, ApiAt
<1>0. Zero \in Counts
  BY DEF Zero, Counts
<1>1. CASE TestExit
  BY <1>1 DEF TestExit
<1>2. CASE Accept
  BY <1>2 DEF Accept
<1>3. CASE AcceptFails
  BY <1>3 DEF AcceptFails
<1>4. CASE Cancelled
  <2>1. left' \in 0 .. Parts /\ api' = "ended" /\ lock # "api"
    BY <1>4, PartsAssumption DEF Cancelled, CancelledIn, Forget
  <2>. QED  BY <1>0, <1>4, <2>1 DEF Cancelled, CancelledIn, Forget
<1>5. CASE Format
  <2>1. sfront.num_bytes \in Nat
    BY DEF Counts
  <2>2. answer' \in Counts /\ answer'.num_bytes = sfront.num_bytes
    BY <1>5, <2>1, CountsExcept DEF Format, FormatFirst
  <2>. QED  BY <1>5, <2>2 DEF Format, FormatFirst
<1>6. CASE FormatRest
  (* main is not copying, as api_thread holds the lock *)
  <2>1. sfront = last /\ answer.num_bytes = sfront.num_bytes
    BY <1>6 DEF FormatRest, FormatThen
  <2>2. [sfront EXCEPT !.num_bytes = answer.num_bytes] = sfront
    BY <2>1 DEF Counts
  <2>3. answer' = last /\ fits' = TRUE
    <3>1. answer' = last /\ fits' = (answer' = last)
      BY <1>6, <2>1, <2>2 DEF FormatRest, FormatThen
    <3>. QED  BY <3>1
  <2>. QED  BY <1>6, <2>3, PartsAssumption DEF FormatRest, FormatThen
<1>7. CASE Write
  <2>1. left' \in 0 .. Parts
    BY <1>7, PartsAssumption DEF Write
  <2>2. room' \in BOOLEAN /\ killed' \in BOOLEAN
    BY <1>7 DEF Write
  <2>. QED  BY <1>7, <2>1, <2>2 DEF Write
<1>8. CASE CloseClient
  BY <1>0, <1>8, PartsAssumption DEF CloseClient, Forget
<1>9. CASE Peer
  BY <1>9 DEF Peer
<1>. QED  BY <1>1, <1>2, <1>3, <1>4, <1>5, <1>6, <1>7, <1>8, <1>9 DEF ApiStep

-----------------------------------------------------------------------------
LEMMA Invariance == Spec => []Inv
<1>1. Inv /\ [Next]_vars => Inv'
  <2>. SUFFICES ASSUME Inv, [Next]_vars PROVE Inv'
    OBVIOUS
  <2>1. CASE MainStep \/ BeginFree
    BY <2>1, MainInv
  <2>2. CASE ApiStep \/ AcceptFails \/ Peer
    BY <2>2, ApiInv
  <2>3. ASSUME NEW c \in Conn,
               Connect(c) \/ LoadCount(c) \/ StoreCount(c) \/ Disconnect(c)
        PROVE  Inv'
    BY <2>3, ConnectInv
  <2>4. CASE UNCHANGED vars
    BY <2>4 DEF vars, connVars, mainVars, apiVars, peerVars, shared, apiSide, Inv,
         WalksInTheWalk, CopyIsWhole, AnswersAreSnapshots, TypeOK
  <2>. QED  BY <2>1, <2>2, <2>3, <2>4 DEF Next
<1>. QED  BY InitInv, <1>1, PTL DEF Spec

-----------------------------------------------------------------------------
(* Counting                                                                *)

(* What is in the counts main is not clearing, and the stores to come.     *)
Uncollected == Total(byte_count, Conn \ at)
AboutToStore(f) == {c \in Conn : f[c] # -1}
Pending == AboutToStore(sum)

(* CountedOnce, in these words, before and after a step.                   *)
LEMMA Counted ==
  /\ CountedOnce <=>
       (~raced => stats.num_bytes + Uncollected + missed + Cardinality(Pending)
                    = received)
  /\ CountedOnce' <=>
       (~raced' => stats'.num_bytes + Uncollected' + missed' + Cardinality(Pending')
                     = received')
  /\ Uncollected' = Total(byte_count', Conn \ at')
  /\ Pending' = AboutToStore(sum')
<1>1. CountedOnce <=>
       (~raced => stats.num_bytes + Uncollected + missed + Cardinality(Pending)
                    = received)
  BY Zenon DEF CountedOnce, Uncollected, Pending, AboutToStore, Total
<1>2. CountedOnce' <=>
       (~raced' => stats'.num_bytes + Uncollected' + missed' + Cardinality(Pending')
                     = received')
  BY Zenon DEF CountedOnce, Uncollected, Pending, AboutToStore, Total
<1>3. Uncollected' = Total(byte_count', Conn \ at')
  BY Zenon DEF Uncollected
<1>4. Pending' = AboutToStore(sum')
  BY Zenon DEF Pending
<1>. QED  BY <1>1, <1>2, <1>3, <1>4

LEMMA InitCounting == Init => Counting
<1>. SUFFICES ASSUME Init PROVE Counting
  OBVIOUS
<1>. USE ConnAssumption
<1>. PICK g : g = [s \in SUBSET Conn |-> 0]
  OBVIOUS
<1>1. IsTotal(g, byte_count, Conn)
  BY DEF Init, IsTotal
<1>2. Total(byte_count, Conn) = 0
  BY <1>1, FoldIsTotal
<1>3. Conn \ at = Conn /\ Pending = {}
  BY DEF Init, Pending, AboutToStore
<1>4. CountedOnce
  <2>1. Uncollected = 0 /\ Cardinality(Pending) = 0
    BY <1>2, <1>3, FS_EmptySet DEF Uncollected
  <2>2. stats.num_bytes = 0 /\ missed = 0 /\ received = 0
    BY DEF Init, Zero
  <2>. QED  BY <2>1, <2>2, Counted
<1>. QED  BY <1>4 DEF Init, Counting, StoresAddOne

(* One load before the store to come, or the store: Pending has one more   *)
(* element, or one less.                                                   *)
LEMMA PendingChanges ==
  ASSUME NEW f \in [Conn -> Nat \cup {-1}], NEW c \in Conn, f[c] = -1,
         NEW n \in Nat, NEW g, g = [f EXCEPT ![c] = n]
  PROVE  Cardinality(AboutToStore(g)) = Cardinality(AboutToStore(f)) + 1
<1>1. IsFiniteSet(AboutToStore(f))
  BY ConnAssumption, FS_Subset DEF AboutToStore
<1>2. c \notin AboutToStore(f) /\ AboutToStore(g) = AboutToStore(f) \cup {c}
  BY DEF AboutToStore
<1>. QED  BY <1>1, <1>2, FS_AddElement

(* A change of one count changes the sum by as much.                       *)
LEMMA UncollectedChanges ==
  ASSUME byte_count \in [Conn -> Nat], NEW c \in Conn \ at, NEW n \in Nat,
         byte_count' = [byte_count EXCEPT ![c] = n], at' = at
  PROVE  Uncollected' = Uncollected - byte_count[c] + n
<1>. PICK f : f = byte_count
  OBVIOUS
<1>. PICK g : g = byte_count'
  OBVIOUS
<1>. PICK S : S = Conn \ at
  OBVIOUS
<1>0. S \subseteq Conn /\ c \in S
  OBVIOUS
<1>1. IsFiniteSet(S) /\ IsFiniteSet(S \ {c})
  BY <1>0, ConnAssumption, FS_Subset
<1>2. /\ \A x \in S : f[x] \in Int /\ g[x] \in Int
      /\ \A x \in S \ {c} : f[x] = g[x]
      /\ g[c] = n
  BY <1>0
<1>3. Total(f, S \ {c}) = Total(g, S \ {c})
  BY <1>1, <1>2, FoldSame
<1>4. /\ Total(f, S) = f[c] + Total(f, S \ {c})
      /\ Total(f, S \ {c}) \in Int
  BY <1>0, <1>1, <1>2, FoldRemove
<1>5. Total(g, S) = g[c] + Total(g, S \ {c})
  BY <1>0, <1>1, <1>2, FoldRemove
<1>6. f[c] \in Int
  BY <1>0, <1>2
<1>7. Total(g, S) = Total(f, S) - f[c] + n
  BY <1>2, <1>3, <1>4, <1>5, <1>6
<1>. QED  BY <1>7, Counted DEF Uncollected

LEMMA CountsAreNumbers ==
  ASSUME Inv
  PROVE  /\ stats.num_bytes \in Nat /\ missed \in Nat /\ received \in Nat
         /\ Uncollected \in Int /\ Cardinality(Pending) \in Nat
         /\ byte_count \in [Conn -> Nat] /\ sum \in [Conn -> Nat \cup {-1}]
<1>1. IsFiniteSet(Conn \ at) /\ IsFiniteSet(Pending)
  BY ConnAssumption, FS_Subset DEF Pending, AboutToStore
<1>2. Cardinality(Pending) \in Nat
  BY <1>1, FS_CardinalityType
<1>3. byte_count \in [Conn -> Nat] /\ sum \in [Conn -> Nat \cup {-1}]
  BY DEF Inv, TypeOK
<1>4. Uncollected \in Int
  <2>1. PICK g : IsTotal(g, byte_count, Conn \ at)
    BY <1>1, <1>3, TotalExists
  <2>2. g[Conn \ at] \in Int
    BY <2>1 DEF IsTotal
  <2>. QED  BY <1>1, <2>1, <2>2, FoldIsTotal DEF Uncollected
<1>5. stats.num_bytes \in Nat
  BY DEF Inv, TypeOK, Counts
<1>. QED  BY <1>2, <1>3, <1>4, <1>5 DEF Inv, TypeOK

LEMMA ConnectCounting ==
  ASSUME Inv, Counting, NEW c \in Conn,
         Connect(c) \/ LoadCount(c) \/ StoreCount(c) \/ Disconnect(c)
  PROVE  Counting'
<1>. USE DEF mainVars, shared, apiSide
<1>0. at' = at /\ stats' = stats /\ (~raced' => ~raced)
  <2>1. at' = at /\ stats' = stats
    BY DEF Connect, LoadCount, StoreCount, Disconnect
  <2>2. raced' = raced \/ raced' = (raced \/ c \in at)
    BY DEF Connect, LoadCount, StoreCount, Disconnect
  <2>3. ~raced' => ~raced
    BY <2>2, Zenon
  <2>. QED  BY <2>1, <2>3
<1>. SUFFICES ASSUME ~raced' PROVE Counting'
  BY Counted DEF Counting, StoresAddOne
<1>1. /\ stats.num_bytes + Uncollected + missed + Cardinality(Pending) = received
      /\ \A d \in Conn : sum[d] # -1 => sum[d] = byte_count[d] + 1 /\ d \notin at
  BY <1>0, Counted DEF Counting, StoresAddOne, Pending
<1>. USE CountsAreNumbers
<1>2. byte_count[c] \in Nat /\ sum[c] \in Nat \cup {-1}
  OBVIOUS
<1>3. CASE Connect(c)
  BY <1>0, <1>1, <1>3, Counted DEF Connect, Counting, StoresAddOne, Uncollected, Pending
<1>4. CASE LoadCount(c)
  <2>1. /\ received' = received + 1 /\ missed' = missed /\ byte_count' = byte_count
        /\ sum[c] = -1 /\ sum' = [sum EXCEPT ![c] = byte_count[c] + 1] /\ c \notin at
    BY <1>4 DEF LoadCount
  <2>2. Cardinality(Pending') = Cardinality(Pending) + 1 /\ Uncollected' = Uncollected
    <3>1. sum \in [Conn -> Nat \cup {-1}] /\ byte_count[c] + 1 \in Nat
      BY <1>2
    <3>2. Cardinality(AboutToStore(sum')) = Cardinality(AboutToStore(sum)) + 1
      BY <2>1, <3>1, PendingChanges, ZenonT(60)
    <3>3. Uncollected' = Uncollected
      BY <1>0, <2>1, Counted DEF Uncollected
    <3>. QED  BY <3>2, <3>3, Counted DEF Pending
  <2>3. stats.num_bytes + Uncollected' + missed' + Cardinality(Pending') = received'
    BY <1>1, <2>1, <2>2
  <2>4. StoresAddOne'
    BY <1>0, <1>1, <1>2, <2>1 DEF StoresAddOne
  <2>. QED  BY <1>0, <2>3, <2>4, Counted DEF Counting
<1>5. CASE StoreCount(c)
  <2>1. /\ received' = received /\ missed' = missed
        /\ sum[c] = byte_count[c] + 1 /\ c \in Conn \ at
        /\ byte_count' = [byte_count EXCEPT ![c] = byte_count[c] + 1]
        /\ sum' = [sum EXCEPT ![c] = -1]
    BY <1>1, <1>5 DEF StoreCount
  <2>2. Uncollected' = Uncollected - byte_count[c] + (byte_count[c] + 1)
    <3>1. byte_count \in [Conn -> Nat] /\ byte_count[c] + 1 \in Nat
      BY <1>2
    <3>. QED  BY <1>0, <2>1, <3>1, UncollectedChanges
  <2>3. Cardinality(Pending) = Cardinality(Pending') + 1
    <3>1. /\ sum' \in [Conn -> Nat \cup {-1}] /\ sum'[c] = -1
          /\ sum = [sum' EXCEPT ![c] = byte_count[c] + 1]
      BY <2>1
    <3>2. byte_count[c] + 1 \in Nat
      BY <1>2
    <3>3. Cardinality(AboutToStore(sum)) = Cardinality(AboutToStore(sum')) + 1
      BY <3>1, <3>2, PendingChanges, ZenonT(60)
    <3>. QED  BY <3>3, Counted DEF Pending
  <2>4. Cardinality(Pending') \in Nat
    <3>1. IsFiniteSet(Pending')
      BY ConnAssumption, FS_Subset DEF Pending, AboutToStore
    <3>. QED  BY <3>1, FS_CardinalityType
  <2>5. stats.num_bytes + Uncollected' + missed' + Cardinality(Pending') = received'
    BY <1>1, <1>2, <2>1, <2>2, <2>3, <2>4
  <2>6. StoresAddOne'
    BY <1>0, <1>1, <1>2, <2>1 DEF StoresAddOne
  <2>. QED  BY <1>0, <2>5, <2>6, Counted DEF Counting
<1>6. CASE Disconnect(c)
  <2>1. /\ received' = received /\ missed' = missed + byte_count[c]
        /\ byte_count' = [byte_count EXCEPT ![c] = 0]
        /\ sum' = sum /\ sum[c] = -1 /\ c \in Conn \ at
    BY <1>6 DEF Disconnect, Inv, WalksInTheWalk
  <2>2. Uncollected' = Uncollected - byte_count[c] + 0 /\ Pending' = Pending
    <3>1. byte_count \in [Conn -> Nat] /\ 0 \in Nat
      OBVIOUS
    <3>2. Uncollected' = Uncollected - byte_count[c] + 0
      BY <1>0, <2>1, <3>1, UncollectedChanges
    <3>. QED  BY <2>1, <3>2, Counted DEF Pending
  <2>3. stats.num_bytes + Uncollected' + missed' + Cardinality(Pending') = received'
    BY <1>1, <1>2, <2>1, <2>2
  <2>4. StoresAddOne'
    BY <1>0, <1>1, <2>1 DEF StoresAddOne
  <2>. QED  BY <1>0, <2>3, <2>4, Counted DEF Counting
<1>. QED  BY <1>3, <1>4, <1>5, <1>6

(* Main adds a count and clears it: in between it is in neither sum.       *)
LEMMA MainCounting ==
  ASSUME Inv, Counting, AddCount \/ ClearCount
  PROVE  Counting'
<1>. USE DEF connVars, shared, apiSide
<1>0. /\ ~raced' => ~raced
      /\ sum' = sum /\ received' = received /\ missed' = missed
  BY DEF AddCount, ClearCount
<1>. SUFFICES ASSUME ~raced' PROVE Counting'
  BY Counted DEF Counting, StoresAddOne
<1>1. /\ stats.num_bytes + Uncollected + missed + Cardinality(Pending) = received
      /\ \A d \in Conn : sum[d] # -1 => sum[d] = byte_count[d] + 1 /\ d \notin at
      /\ Pending' = Pending
  BY <1>0, Counted DEF Counting, StoresAddOne, Pending
<1>. USE CountsAreNumbers
<1>2. CASE AddCount
  <2>1. PICK c \in todo :
          /\ at = {} /\ at' = {c} /\ sum[c] = -1 /\ byte_count' = byte_count
          /\ stats' = [stats EXCEPT !.num_bytes = stats.num_bytes + byte_count[c]]
    BY <1>2 DEF AddCount
  <2>2. c \in Conn /\ byte_count[c] \in Nat
    BY DEF Inv, TypeOK
  <2>3. stats'.num_bytes = stats.num_bytes + byte_count[c]
    BY <2>1 DEF Inv, TypeOK, Counts
  <2>4. Uncollected = byte_count[c] + Uncollected' /\ Uncollected' \in Int
    <3>1. /\ Uncollected = Total(byte_count, Conn)
          /\ Uncollected' = Total(byte_count, Conn \ {c})
      <4>1. Conn \ at = Conn
        BY <2>1
      <4>. QED  BY <2>1, <4>1 DEF Uncollected
    <3>2. \A x \in Conn : byte_count[x] \in Int
      OBVIOUS
    <3>. QED  BY <2>2, <3>1, <3>2, ConnAssumption, FoldRemove
  <2>5. stats'.num_bytes + Uncollected' + missed' + Cardinality(Pending') = received'
    BY <1>0, <1>1, <2>2, <2>3, <2>4
  <2>6. StoresAddOne'
    BY <1>0, <1>1, <2>1 DEF StoresAddOne
  <2>. QED  BY <2>5, <2>6, Counted DEF Counting
<1>3. CASE ClearCount
  <2>1. PICK c \in at : TRUE
    BY <1>3 DEF ClearCount
  <2>2. c \in Conn /\ at = {c} /\ byte_count[c] \in Nat
    BY <2>1 DEF Inv, TypeOK, WalksInTheWalk
  <2>3. at' = {} /\ stats' = stats /\ byte_count' = [byte_count EXCEPT ![c] = 0]
    BY <1>3, <2>2 DEF ClearCount
  <2>4. Uncollected' = Uncollected
    <3>. PICK f : f = byte_count'
      OBVIOUS
    <3>1. /\ f \in [Conn -> Nat] /\ f[c] = 0
          /\ \A x \in Conn \ {c} : f[x] = byte_count[x]
      BY <2>2, <2>3
    <3>2. /\ \A x \in Conn : f[x] \in Int
          /\ \A x \in Conn \ {c} : f[x] \in Int
          /\ IsFiniteSet(Conn \ {c})
      BY <3>1, ConnAssumption, FS_Subset
    <3>3. Total(f, Conn \ {c})
            = Total(byte_count, Conn \ {c})
      BY <3>1, <3>2, FoldSame
    <3>4. /\ Total(f, Conn)
               = f[c] + Total(f, Conn \ {c})
          /\ Total(f, Conn \ {c}) \in Int
      BY <2>2, <3>2, ConnAssumption, FoldRemove
    <3>5. /\ Uncollected = Total(byte_count, Conn \ {c})
          /\ Uncollected' = Total(f, Conn)
      <4>1. Conn \ at' = Conn
        BY <2>3
      <4>. QED  BY <2>2, <4>1 DEF Uncollected
    <3>. QED  BY <3>1, <3>3, <3>4, <3>5
  <2>5. stats'.num_bytes + Uncollected' + missed' + Cardinality(Pending') = received'
    BY <1>0, <1>1, <2>3, <2>4
  <2>6. StoresAddOne'
    BY <1>0, <1>1, <2>2, <2>3 DEF StoresAddOne
  <2>. QED  BY <2>5, <2>6, Counted DEF Counting
<1>. QED  BY <1>2, <1>3

(* No other step changes what is counted.                                  *)
LEMMA OthersCounting ==
  ASSUME Inv, Counting,
         \/ UNCHANGED vars
         \/ BeginWalk \/ EndWalk \/ LockStats \/ CopyFirst \/ CopyRest \/ Join
         \/ BeginFree \/ ApiStep \/ AcceptFails \/ Peer
  PROVE  Counting'
<1>1. /\ UNCHANGED <<connVars, at, raced>>
      /\ stats' = stats \/ CopyRest
  BY DEF vars, mainVars, apiVars, peerVars, shared, apiSide, BeginWalk, EndWalk,
         LockStats, CopyFirst, CopyRest, Join, BeginFree, ApiStep, TestExit,
         Accept, Cancelled, CancelledIn, Format, FormatFirst, FormatRest,
         FormatThen, Write, CloseClient, AcceptFails, Peer
<1>2. stats'.num_bytes = stats.num_bytes
  <2>1. CASE CopyRest
    BY <2>1 DEF CopyRest, Inv, TypeOK, Counts
  <2>. QED  BY <1>1, <2>1
<1>3. Uncollected' = Uncollected /\ Pending' = Pending
  BY <1>1, Counted DEF connVars, Uncollected, Pending
<1>. QED  BY <1>1, <1>2, <1>3, Counted DEF connVars, Counting, StoresAddOne

LEMMA CountingInvariance == Spec => []Counting
<1>1. Inv /\ Counting /\ [Next]_vars => Counting'
  BY ConnectCounting, MainCounting, OthersCounting DEF Next, MainStep
<1>. QED  BY InitCounting, Invariance, <1>1, PTL DEF Spec

-----------------------------------------------------------------------------
(* The variables keep their types, only connections that are there are     *)
(* walked over, and whoever reads or copies the statistics of the frontend *)
(* holds stats_lock, and nobody else does.                                 *)
THEOREM StatisticsTypeOK == Spec => []TypeOK
<1>1. Inv => TypeOK
  BY DEF Inv
<1>. QED  BY <1>1, Invariance, PTL

(* A client is told what main had copied last, after one frame: never a    *)
(* mixture of two frames.                                                  *)
THEOREM StatisticsAnswersAreSnapshots == Spec => []AnswersAreSnapshots
<1>1. Inv => AnswersAreSnapshots
  BY DEF Inv
<1>. QED  BY <1>1, Invariance, PTL

(* Every byte is in main's total once, or in a count, or about to be       *)
(* stored, or its connection ended before main came by; unless a count was *)
(* changed while main added and cleared it.                                *)
THEOREM StatisticsCountedOnce == Spec => []CountedOnce
<1>1. Counting => CountedOnce
  BY DEF Counting
<1>. QED  BY <1>1, CountingInvariance, PTL

(* In the line that main draws, the traffic is divided as often as its     *)
(* unit says, but for a number that exceeds Base units by a part of one,   *)
(* which is divided once more.                                             *)
THEOREM StatisticsUnitFitsValue == Spec => []UnitFitsValue
<1>1. ASSUME Inv PROVE UnitFitsValue
  <2>. SUFFICES ASSUME NEW size \in 1 .. MaxSize, NEW v, v = size * stats.num_bytes
                PROVE  \/ Divisions(v) = Unit(v)
                       \/ \E i \in 1 .. LastUnit - 1 :
                            /\ v \div Power[i] = Base /\ v # Power[i + 1]
                            /\ Divisions(v) = i + 1 /\ Unit(v) = i
    BY Zenon DEF UnitFitsValue
  <2>1. stats.num_bytes \in Nat /\ size \in Nat
    BY <1>1 DEF Inv, TypeOK, Counts
  <2>2. v \in Nat
    BY <2>1
  <2>. QED  BY <2>2, UnitOrOneMore
<1>. QED  BY <1>1, Invariance, PTL
=============================================================================
