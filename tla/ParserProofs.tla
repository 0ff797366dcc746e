---------------------------- MODULE ParserProofs ----------------------------
(***************************************************************************)
(* For every text a client may send, and however read(2) cuts it: the      *)
(* parser executes what the text means when it is there as a whole.        *)
(*                                                                         *)
(* The lemmas say when what has been received of a text is enough: what a  *)
(* scan finds in a part s of t is what it finds in t (IsCut).              *)
(***************************************************************************)
EXTENDS Parser, SequenceTheorems, WellFoundedInduction, TLAPS

LEMMA LeastElement ==
  ASSUME NEW T, T \subseteq Nat, T # {}
  PROVE  \E x \in T : \A y \in T : x <= y
  <1>1. PICK x \in T : \A y \in T : <<y, x>> \notin OpToRel(<, Nat)
    BY NatLessThanWellFounded, WFMin
  <1>2. \A y \in T : ~(y < x)
    BY <1>1 DEF OpToRel
  <1> QED
    BY <1>2

(* s is the part of t that has been received. *)
IsCut(s, t) == /\ s \in Seq(Byte) /\ t \in Seq(Byte) /\ Len(s) <= Len(t)
               /\ \A k \in 1 .. Len(s) : s[k] = t[k]

LEMMA Lengths ==
  ASSUME NEW s \in Seq(Byte)
  PROVE  Len(s) \in Nat /\ \A k \in 1 .. Len(s) : s[k] \in Byte
  BY LenProperties, ElementOfSeq

-----------------------------------------------------------------------------
(* White space and tokens *)

SkipsTo(s, p, q) == /\ q \in p .. Len(s) + 1
                    /\ \A k \in p .. q - 1 : s[k] \in WhiteSpace
                    /\ q <= Len(s) => s[q] \notin WhiteSpace

LEMMA SkipIsOne ==
  ASSUME NEW s \in Seq(Byte), NEW p \in 1 .. Len(s) + 1
  PROVE  SkipsTo(s, p, SkipWhiteSpace(s, p))
  <1>1. Len(s) \in Nat
    BY Lengths
  <1> DEFINE T == {q \in p .. Len(s) + 1 : q <= Len(s) => s[q] \notin WhiteSpace}
  <1>2. Len(s) + 1 \in T /\ T \subseteq Nat
    BY <1>1
  <1>3. PICK q \in T : \A k \in T : q <= k
    <2> HIDE DEF T
    <2> QED
      BY <1>2, LeastElement
  <1>4. \A k \in p .. q - 1 : s[k] \in WhiteSpace
    BY <1>1, <1>3
  <1>5. \E r \in p .. Len(s) + 1 : /\ \A k \in p .. r - 1 : s[k] \in WhiteSpace
                                   /\ r <= Len(s) => s[r] \notin WhiteSpace
    BY <1>3, <1>4
  <1> QED
    BY <1>5, Zenon DEF SkipsTo, SkipWhiteSpace

LEMMA SkipIsUnique ==
  ASSUME NEW s \in Seq(Byte), NEW p \in 1 .. Len(s) + 1,
         NEW q, SkipsTo(s, p, q)
  PROVE  SkipWhiteSpace(s, p) = q
  <1>1. Len(s) \in Nat
    BY Lengths
  <1> PICK r : r = SkipWhiteSpace(s, p)
    OBVIOUS
  <1>2. SkipsTo(s, p, r)
    BY SkipIsOne
  <1>3. ~(q < r) /\ ~(r < q)
    BY <1>1, <1>2 DEF SkipsTo
  <1> QED
    BY <1>1, <1>2, <1>3 DEF SkipsTo

(* A scan that stops inside s stops there in t, too. *)
LEMMA SkipCut ==
  ASSUME NEW s, NEW t, IsCut(s, t), NEW p \in 1 .. Len(s) + 1
  PROVE  /\ SkipsTo(s, p, SkipWhiteSpace(s, p)) /\ SkipsTo(t, p, SkipWhiteSpace(t, p))
         /\ SkipWhiteSpace(s, p) <= Len(s) => SkipWhiteSpace(t, p) = SkipWhiteSpace(s, p)
         /\ SkipWhiteSpace(s, p) <= SkipWhiteSpace(t, p)
         /\ SkipWhiteSpace(t, p) <= Len(s) + 1 => SkipWhiteSpace(t, p) = SkipWhiteSpace(s, p)
  <1>1. /\ s \in Seq(Byte) /\ t \in Seq(Byte) /\ Len(s) \in Nat /\ Len(t) \in Nat
        /\ Len(s) <= Len(t) /\ \A k \in 1 .. Len(s) : s[k] = t[k]
    BY Lengths DEF IsCut
  <1>2. p \in 1 .. Len(t) + 1
    BY <1>1
  <1> PICK q, r : q = SkipWhiteSpace(s, p) /\ r = SkipWhiteSpace(t, p)
    OBVIOUS
  <1>3. SkipsTo(s, p, q) /\ SkipsTo(t, p, r)
    BY <1>1, <1>2, SkipIsOne
  <1>4. ASSUME q <= Len(s) PROVE r = q
    <2>1. q \in p .. Len(t) + 1 /\ s[q] = t[q] /\ t[q] \notin WhiteSpace
      BY <1>1, <1>3, <1>4 DEF SkipsTo
    <2>2. \A k \in p .. q - 1 : s[k] = t[k] /\ s[k] \in WhiteSpace
      BY <1>1, <1>3, <1>4 DEF SkipsTo
    <2>3. SkipsTo(t, p, q)
      BY <2>1, <2>2 DEF SkipsTo
    <2> QED
      BY <1>1, <1>2, <2>3, SkipIsUnique
  <1>5. ~(r < q)
    BY <1>1, <1>3, <1>4 DEF SkipsTo
  <1>6. q \in Int /\ r \in Int /\ q <= Len(s) + 1
    BY <1>1, <1>3 DEF SkipsTo
  <1> QED
    BY <1>1, <1>3, <1>4, <1>5, <1>6

(* What net_next_whitespace says of the token at p. *)
IsToken(s, p, n) ==
  \/ /\ n \in 0 .. Threshold /\ p + n <= Len(s) /\ s[p + n] \in WhiteSpace
     /\ \A k \in p .. p + n - 1 : s[k] \notin WhiteSpace
  \/ /\ n = Garbage /\ p + Threshold <= Len(s)
     /\ \A k \in p .. p + Threshold : s[k] \notin WhiteSpace
  \/ /\ n = Missing /\ Len(s) < p + Threshold
     /\ \A k \in p .. Len(s) : s[k] \notin WhiteSpace

LEMMA TokenIsOne ==
  ASSUME NEW s \in Seq(Byte), NEW p \in 1 .. Len(s) + 1
  PROVE  IsToken(s, p, TokenLength(s, p))
  <1>1. Len(s) \in Nat /\ Threshold \in Nat /\ p \in Nat
    BY Lengths, NumberAssumption
  <1> PICK W : W = WhiteSpaceFrom(s, p)
    OBVIOUS
  <1>2. \A k : k \in W <=> k \in p .. Len(s) /\ s[k] \in WhiteSpace
    BY DEF WhiteSpaceFrom
  <1>3. CASE W = {}
    BY <1>1, <1>2, <1>3 DEF TokenLength, IsToken, Garbage, Missing
  <1>4. CASE W # {}
    <2>1. W \subseteq Nat
      BY <1>1, <1>2
    <2>2. \E x \in W : \A y \in W : x <= y
      BY <1>4, <2>1, LeastElement
    <2> PICK m : m = Min(W)
      OBVIOUS
    <2>3. m \in W /\ \A y \in W : m <= y
      BY <2>2 DEF Min
    <2>4. \A k \in p .. m - 1 : s[k] \notin WhiteSpace
      BY <1>1, <1>2, <2>3
    <2>5. m \in p .. Len(s) /\ s[m] \in WhiteSpace
      BY <1>2, <2>3
    <2>6. CASE m - p <= Threshold
      <3>1. TokenLength(s, p) = m - p
        BY <1>4, <2>6 DEF TokenLength
      <3>2. m - p \in 0 .. Threshold /\ p + (m - p) = m
        BY <1>1, <2>5, <2>6
      <3> QED
        BY <1>1, <2>4, <2>5, <3>1, <3>2, SMTT(30) DEF IsToken
    <2>7. CASE ~(m - p <= Threshold)
      <3>1. TokenLength(s, p) = Garbage
        BY <1>1, <2>5, <2>7 DEF TokenLength
      <3>2. p + Threshold <= Len(s) /\ \A k \in p .. p + Threshold : k \in p .. m - 1
        BY <1>1, <2>5, <2>7
      <3> QED
        BY <2>4, <3>1, <3>2 DEF IsToken
    <2> QED
      BY <2>6, <2>7
  <1> QED
    BY <1>3, <1>4

LEMMA TokenIsUnique ==
  ASSUME NEW s \in Seq(Byte), NEW p \in 1 .. Len(s) + 1,
         NEW m, IsToken(s, p, m)
  PROVE  TokenLength(s, p) = m
  <1>1. Len(s) \in Nat /\ Threshold \in Nat /\ p \in Nat
    BY Lengths, NumberAssumption
  <1> PICK n : n = TokenLength(s, p)
    OBVIOUS
  <1>2. IsToken(s, p, n)
    BY TokenIsOne
  <1> QED
    BY <1>1, <1>2 DEF IsToken, Garbage, Missing

(* A token that ends in s, or is too long there, does or is so in t.       *)
LEMMA TokenCut ==
  ASSUME NEW s, NEW t, IsCut(s, t), NEW p \in 1 .. Len(s) + 1
  PROVE  /\ IsToken(s, p, TokenLength(s, p)) /\ IsToken(t, p, TokenLength(t, p))
         /\ TokenLength(s, p) # Missing => TokenLength(t, p) = TokenLength(s, p)
         /\ TokenLength(t, p) >= 0 /\ p + TokenLength(t, p) <= Len(s)
              => TokenLength(t, p) = TokenLength(s, p)
  <1>1. /\ s \in Seq(Byte) /\ t \in Seq(Byte) /\ Len(s) \in Nat /\ Len(t) \in Nat
        /\ Len(s) <= Len(t) /\ \A k \in 1 .. Len(s) : s[k] = t[k]
        /\ Threshold \in Nat
    BY Lengths, NumberAssumption DEF IsCut
  <1>2. p \in 1 .. Len(t) + 1
    BY <1>1
  <1> PICK m, n : m = TokenLength(s, p) /\ n = TokenLength(t, p)
    OBVIOUS
  <1>3. IsToken(s, p, m) /\ IsToken(t, p, n)
    BY <1>1, <1>2, TokenIsOne
  <1>4. ASSUME m # Missing PROVE n = m
    <2>1. CASE m = Garbage /\ p + Threshold <= Len(s)
               /\ \A k \in p .. p + Threshold : s[k] \notin WhiteSpace
      <3>1. p + Threshold <= Len(t) /\ \A k \in p .. p + Threshold : s[k] = t[k]
        BY <1>1, <2>1
      <3>2. IsToken(t, p, m)
        BY <2>1, <3>1 DEF IsToken
      <3> QED
        BY <1>1, <1>2, <3>2, TokenIsUnique
    <2>2. CASE /\ m \in 0 .. Threshold /\ p + m <= Len(s) /\ s[p + m] \in WhiteSpace
               /\ \A k \in p .. p + m - 1 : s[k] \notin WhiteSpace
      <3>1. /\ p + m <= Len(t) /\ s[p + m] = t[p + m]
            /\ \A k \in p .. p + m - 1 : s[k] = t[k]
        BY <1>1, <2>2, SMTT(30)
      <3>2. IsToken(t, p, m)
        BY <2>2, <3>1 DEF IsToken
      <3> QED
        BY <1>1, <1>2, <3>2, TokenIsUnique
    <2> QED
      BY <1>3, <1>4, <2>1, <2>2 DEF IsToken
  <1>5. ASSUME n >= 0, p + n <= Len(s) PROVE n = m
    <2>1. /\ n \in 0 .. Threshold /\ t[p + n] \in WhiteSpace
          /\ \A k \in p .. p + n - 1 : t[k] \notin WhiteSpace
      BY <1>3, <1>5 DEF IsToken, Garbage, Missing
    <2>2. s[p + n] = t[p + n] /\ \A k \in p .. p + n - 1 : s[k] = t[k]
      BY <1>1, <1>5, <2>1, SMTT(30)
    <2>3. IsToken(s, p, n)
      BY <1>5, <2>1, <2>2 DEF IsToken
    <2> QED
      BY <1>1, <2>3, TokenIsUnique
  <1> QED
    BY <1>3, <1>4, <1>5

(* An argument that is complete in s is the same one in t.                 *)
LEMMA ArgCut ==
  ASSUME NEW s, NEW t, IsCut(s, t), NEW p \in 1 .. Len(s) + 1
  PROVE  /\ HasArg(s, p) => /\ HasArg(t, p)
                            /\ ArgAt(s, p) \in p + 1 .. Len(s)
                            /\ ArgEnd(s, p) \in ArgAt(s, p) .. Len(s)
                            /\ s[ArgEnd(s, p)] \in WhiteSpace
                            /\ ArgAt(t, p) = ArgAt(s, p) /\ ArgEnd(t, p) = ArgEnd(s, p)
         /\ HasArg(t, p) /\ ArgEnd(t, p) <= Len(s) => HasArg(s, p)
  <1>1. /\ s \in Seq(Byte) /\ t \in Seq(Byte) /\ Len(s) \in Nat /\ Len(t) \in Nat
        /\ Len(s) <= Len(t) /\ Threshold \in Nat /\ p \in Nat
    BY Lengths, NumberAssumption DEF IsCut
  <1> PICK a, b : a = SkipWhiteSpace(s, p) /\ b = SkipWhiteSpace(t, p)
    OBVIOUS
  <1> PICK m, n : m = TokenLength(s, a) /\ n = TokenLength(t, b)
    OBVIOUS
  <1>2. /\ SkipsTo(s, p, a) /\ SkipsTo(t, p, b)
        /\ (a <= Len(s) => b = a) /\ a <= b /\ (b <= Len(s) + 1 => b = a)
    BY SkipCut
  <1>3. a \in 1 .. Len(s) + 1 /\ a \in p .. Len(s) + 1 /\ b \in p .. Len(t) + 1
    BY <1>1, <1>2 DEF SkipsTo
  <1>4. /\ HasArg(s, p) <=> a # p /\ m >= 0
        /\ HasArg(t, p) <=> b # p /\ n >= 0
        /\ ArgAt(s, p) = a /\ ArgEnd(s, p) = a + m
        /\ ArgAt(t, p) = b /\ ArgEnd(t, p) = b + n
    BY DEF HasArg, ArgAt, ArgEnd
  <1>5. ASSUME HasArg(s, p)
        PROVE  /\ HasArg(t, p) /\ a \in p + 1 .. Len(s) /\ a + m \in a .. Len(s)
               /\ s[a + m] \in WhiteSpace /\ b = a /\ n = m
    <2>1. IsToken(s, a, m) /\ m >= 0 /\ a # p
      BY <1>1, <1>3, <1>4, <1>5, TokenIsOne
    <2>2. m \in Nat /\ a + m <= Len(s) /\ s[a + m] \in WhiteSpace
      BY <1>1, <2>1 DEF IsToken, Garbage, Missing
    <2>3. b = a /\ a \in p + 1 .. Len(s) /\ a + m \in a .. Len(s)
      BY <1>1, <1>2, <1>3, <2>1, <2>2, SMTT(30)
    <2>4. n = m
      BY <1>3, <2>1, <2>3, TokenCut DEF Missing
    <2> QED
      BY <1>4, <2>1, <2>2, <2>3, <2>4
  <1>6. ASSUME HasArg(t, p), b + n <= Len(s) PROVE HasArg(s, p)
    <2>1. b \in 1 .. Len(t) + 1 /\ n >= 0
      BY <1>1, <1>3, <1>4, <1>6
    <2>2. IsToken(t, b, n)
      BY <1>1, <2>1, TokenIsOne
    <2>3. n \in Nat
      BY <1>1, <2>1, <2>2 DEF IsToken, Garbage, Missing
    <2>4. b = a
      BY <1>1, <1>2, <1>3, <1>6, <2>3
    <2>5. m = n
      BY <1>3, <1>6, <2>1, <2>4, TokenCut
    <2> QED
      BY <1>4, <1>6, <2>1, <2>4, <2>5
  <1> QED
    BY <1>4, <1>5, <1>6

-----------------------------------------------------------------------------
(* Numbers *)

(* val holds what has been read of s from p on.                            *)
Reads(val, s, p, q, radix, digit) ==
  val = [k \in p - 1 .. q - 1 |->
           IF k < p THEN 0 ELSE (val[k - 1] * radix + digit[s[k]]) % Word]

LEMMA Remainder ==
  ASSUME NEW i \in Int
  PROVE  i % Word \in Coordinate /\ i % Channel \in 0 .. Channel - 1
  BY NumberAssumption DEF Coordinate

LEMMA ReadsExists ==
  ASSUME NEW s \in Seq(Byte), NEW p \in Nat \ {0}, NEW q \in p .. Len(s) + 1,
         NEW radix \in Int, NEW digit \in [Byte -> Int]
  PROVE  \E val \in [p - 1 .. q - 1 -> Coordinate] : Reads(val, s, p, q, radix, digit)
  <1>1. Len(s) \in Nat /\ \A k \in 1 .. Len(s) : digit[s[k]] \in Int
    BY Lengths
  <1> DEFINE Some(n) == \E val \in [p - 1 .. n - 1 -> Coordinate] :
                          Reads(val, s, p, n, radix, digit)
             T == {n \in p .. q : ~Some(n)}
  <1>2. ASSUME NEW n \in T, \A m \in T : n <= m PROVE FALSE
    <2>1. n \in Int /\ p <= n /\ n <= q /\ ~Some(n)
      BY <1>1
    <2>2. CASE n = p
      <3> PICK val : val = [k \in p - 1 .. p - 1 |-> 0]
        OBVIOUS
      <3>1. 0 \in Coordinate
        BY NumberAssumption DEF Coordinate
      <3>2. val \in [p - 1 .. p - 1 -> Coordinate]
        BY <3>1
      <3>3. Reads(val, s, p, p, radix, digit)
        BY DEF Reads
      <3> QED
        BY <2>1, <2>2, <3>2, <3>3
    <2>3. CASE n # p
      <3>1. n - 1 \in p .. q /\ n - 1 \notin T /\ n - 1 \in 1 .. Len(s)
        BY <1>1, <1>2, <2>1, <2>3
      <3>2. PICK f \in [p - 1 .. n - 2 -> Coordinate] : Reads(f, s, p, n - 1, radix, digit)
        <4>1. (n - 1) - 1 = n - 2
          BY <2>1
        <4> QED
          BY <3>1, <4>1
      <3>3. n - 2 \in p - 1 .. n - 2 /\ f[n - 2] \in Int /\ digit[s[n - 1]] \in Int
        BY <1>1, <2>1, <2>3, <3>1 DEF Coordinate
      <3> PICK c : c = (f[n - 2] * radix + digit[s[n - 1]]) % Word
        OBVIOUS
      <3>4. c \in Coordinate
        <4>1. f[n - 2] * radix + digit[s[n - 1]] \in Int
          BY <3>3
        <4> QED
          BY <4>1, Remainder
      <3> PICK val : val = [k \in p - 1 .. n - 1 |-> IF k = n - 1 THEN c ELSE f[k]]
        OBVIOUS
      <3>5. val \in [p - 1 .. n - 1 -> Coordinate]
        <4>1. \A k \in p - 1 .. n - 1 : k # n - 1 => k \in p - 1 .. n - 2
          BY <2>1
        <4> QED
          BY <3>4, <4>1
      <3>6. \A k \in p - 1 .. n - 2 :
              f[k] = IF k < p THEN 0 ELSE (f[k - 1] * radix + digit[s[k]]) % Word
        <4>1. (n - 1) - 1 = n - 2
          BY <2>1
        <4> QED
          BY <3>2, <4>1 DEF Reads
      <3>7. ASSUME NEW k \in p - 1 .. n - 1
            PROVE  val[k] = IF k < p THEN 0 ELSE (val[k - 1] * radix + digit[s[k]]) % Word
        <4>1. CASE k = n - 1
          <5>1. ~(k < p) /\ k - 1 = n - 2 /\ k - 1 \in p - 1 .. n - 1 /\ k - 1 # n - 1
            BY <2>1, <2>3, <4>1
          <5>2. val[k - 1] = f[n - 2] /\ val[k] = c
            BY <4>1, <5>1
          <5> QED
            BY <4>1, <5>1, <5>2
        <4>2. CASE k # n - 1
          <5>1. k \in p - 1 .. n - 2 /\ val[k] = f[k]
            BY <2>1, <4>2
          <5>2. CASE k < p
            BY <3>6, <5>1, <5>2
          <5>3. CASE ~(k < p)
            <6>1. val[k - 1] = f[k - 1]
              BY <2>1, <4>2, <5>3
            <6> QED
              BY <3>6, <5>1, <5>3, <6>1
          <5> QED
            BY <5>2, <5>3
        <4> QED
          BY <4>1, <4>2
      <3>8. Reads(val, s, p, n, radix, digit)
        BY <3>7 DEF Reads
      <3> QED
        BY <2>1, <3>5, <3>8
    <2> QED
      BY <2>2, <2>3
  <1>3. T = {}
    <2>1. T \subseteq Nat
      BY <1>1
    <2> HIDE DEF T
    <2> QED
      BY <1>2, <2>1, LeastElement
  <1>4. q \in p .. q
    BY <1>1
  <1> QED
    BY <1>3, <1>4

LEMMA ReadsIsUnique ==
  ASSUME NEW s, NEW p \in Nat \ {0}, NEW q \in Nat, p <= q, NEW radix, NEW digit,
         NEW u, NEW v, Reads(u, s, p, q, radix, digit), Reads(v, s, p, q, radix, digit)
  PROVE  u[q - 1] = v[q - 1]
  <1> DEFINE T == {k \in p - 1 .. q - 1 : u[k] # v[k]}
  <1>1. ASSUME NEW n \in T, \A m \in T : n <= m PROVE FALSE
    <2>1. /\ n \in p - 1 .. q - 1
          /\ u[n] = IF n < p THEN 0 ELSE (u[n - 1] * radix + digit[s[n]]) % Word
          /\ v[n] = IF n < p THEN 0 ELSE (v[n - 1] * radix + digit[s[n]]) % Word
      <3>1. n \in p - 1 .. q - 1
        OBVIOUS
      <3> QED
        BY <3>1 DEF Reads
    <2>2. ~(n < p)
      BY <2>1
    <2>3. n - 1 \in p - 1 .. q - 1 /\ n - 1 \notin T
      BY <1>1, <2>1, <2>2
    <2>4. u[n - 1] = v[n - 1]
      BY <2>3
    <2> QED
      BY <2>1, <2>4
  <1>2. T = {}
    <2>1. T \subseteq Nat
      OBVIOUS
    <2> HIDE DEF T
    <2> QED
      BY <1>1, <2>1, LeastElement
  <1>3. q - 1 \in p - 1 .. q - 1
    OBVIOUS
  <1> QED
    BY <1>2, <1>3

IsNumber(n, s, p, q, radix, digit) ==
  \E val \in [p - 1 .. q - 1 -> Coordinate] :
    Reads(val, s, p, q, radix, digit) /\ n = val[q - 1]

LEMMA NumberIsRead ==
  ASSUME NEW s \in Seq(Byte), NEW p \in Nat \ {0}, NEW q \in p .. Len(s) + 1,
         NEW radix \in Int, NEW digit \in [Byte -> Int]
  PROVE  IsNumber(Number(s, p, q, radix, digit), s, p, q, radix, digit)
  <1>1. PICK val \in [p - 1 .. q - 1 -> Coordinate] : Reads(val, s, p, q, radix, digit)
    BY ReadsExists
  <1> DEFINE chosen == CHOOSE v : Reads(v, s, p, q, radix, digit)
  <1>2. Reads(chosen, s, p, q, radix, digit)
    BY <1>1
  <1>3. Number(s, p, q, radix, digit) = chosen[q - 1]
    BY Zenon DEF Number, Reads
  <1>4. q \in Nat /\ p <= q
    BY Lengths
  <1>5. chosen[q - 1] = val[q - 1]
    BY <1>1, <1>2, <1>4, ReadsIsUnique
  <1> QED
    BY <1>1, <1>3, <1>5 DEF IsNumber

(* A number is one of 32 bits, and depends on nothing but its digits.      *)
LEMMA NumberCut ==
  ASSUME NEW s, NEW t, IsCut(s, t),
         NEW p \in Nat \ {0}, NEW q \in p .. Len(s) + 1,
         NEW radix \in Int, NEW digit \in [Byte -> Int]
  PROVE  /\ Number(s, p, q, radix, digit) \in Coordinate
         /\ Number(t, p, q, radix, digit) = Number(s, p, q, radix, digit)
  <1>1. /\ s \in Seq(Byte) /\ t \in Seq(Byte) /\ Len(s) \in Nat /\ Len(t) \in Nat
        /\ Len(s) <= Len(t) /\ \A k \in 1 .. Len(s) : s[k] = t[k]
    BY Lengths DEF IsCut
  <1>2. PICK u \in [p - 1 .. q - 1 -> Coordinate] :
          Reads(u, s, p, q, radix, digit) /\ Number(s, p, q, radix, digit) = u[q - 1]
    <2>1. IsNumber(Number(s, p, q, radix, digit), s, p, q, radix, digit)
      BY <1>1, NumberIsRead
    <2> QED
      BY <2>1 DEF IsNumber
  <1>3. q \in p .. Len(t) + 1 /\ q \in Nat /\ p <= q /\ q - 1 \in p - 1 .. q - 1
    BY <1>1
  <1>4. PICK v \in [p - 1 .. q - 1 -> Coordinate] :
          Reads(v, t, p, q, radix, digit) /\ Number(t, p, q, radix, digit) = v[q - 1]
    <2>1. IsNumber(Number(t, p, q, radix, digit), t, p, q, radix, digit)
      BY <1>1, <1>3, NumberIsRead
    <2> QED
      BY <2>1 DEF IsNumber
  <1>5. Reads(v, s, p, q, radix, digit)
    <2>1. \A k \in p - 1 .. q - 1 : ~(k < p) => s[k] = t[k]
      BY <1>1
    <2>2. ASSUME NEW k \in p - 1 .. q - 1
          PROVE  v[k] = IF k < p THEN 0 ELSE (v[k - 1] * radix + digit[s[k]]) % Word
      <3>1. v[k] = IF k < p THEN 0 ELSE (v[k - 1] * radix + digit[t[k]]) % Word
        BY <1>4 DEF Reads
      <3> QED
        BY <2>1, <3>1
    <2> QED
      BY <2>2 DEF Reads
  <1>6. u[q - 1] = v[q - 1]
    BY <1>2, <1>3, <1>5, ReadsIsUnique
  <1> QED
    BY <1>2, <1>3, <1>4, <1>6

LEMMA Quotient ==
  ASSUME NEW i \in Coordinate
  PROVE  i \div Channel \in Coordinate
  BY NumberAssumption DEF Coordinate

LEMMA PixelCut ==
  ASSUME NEW s, NEW t, IsCut(s, t), NEW p \in Nat \ {0}, NEW q \in p .. Len(s) + 1
  PROVE  /\ Pixel(s, p, q) \in [bgr : Coordinate, alpha : 0 .. Channel - 1]
         /\ Pixel(t, p, q) = Pixel(s, p, q)
  <1> PICK hex : hex = Number(s, p, q, 16, HexDigit)
    OBVIOUS
  <1>1. hex \in Coordinate /\ Number(t, p, q, 16, HexDigit) = hex
    BY NumberCut, DigitAssumption
  <1>2. /\ hex \div Channel \in Coordinate /\ hex % Channel \in 0 .. Channel - 1
        /\ hex * Channel \in Int /\ Channel - 1 \in 0 .. Channel - 1
    <2>1. hex \in Int
      BY <1>1 DEF Coordinate
    <2>2. Channel \in Nat \ {0}
      BY NumberAssumption
    <2>3. Channel - 1 \in 0 .. Channel - 1
      BY <2>2
    <2>4. hex * Channel \in Int
      BY <2>1, <2>2
    <2>5. hex \div Channel \in Coordinate
      BY <1>1, Quotient
    <2>6. hex % Channel \in 0 .. Channel - 1
      BY <2>1, Remainder
    <2> QED
      BY <2>3, <2>4, <2>5, <2>6
  <1>3. ((hex * Channel) % Word) \div Channel \in Coordinate
    BY <1>2, Quotient, Remainder
  <1>4. Pixel(s, p, q) = IF q - p > ColorDigits
          THEN [bgr |-> hex \div Channel, alpha |-> hex % Channel]
          ELSE [bgr |-> ((hex * Channel) % Word) \div Channel, alpha |-> Channel - 1]
    BY DEF Pixel
  <1>5. Pixel(t, p, q) = Pixel(s, p, q)
    BY <1>1, <1>4 DEF Pixel
  <1> QED
    BY <1>2, <1>3, <1>4, <1>5

-----------------------------------------------------------------------------
(* The first command *)

LEMMA IsCutItself == ASSUME NEW t \in Seq(Byte) PROVE IsCut(t, t)
  BY Lengths DEF IsCut

LEMMA DecimalCut ==
  ASSUME NEW s, NEW t, IsCut(s, t), NEW p \in 1 .. Len(s) + 1, HasArg(s, p)
  PROVE  Decimal(s, p) \in Coordinate /\ Decimal(t, p) = Decimal(s, p)
  <1> PICK a, e : a = ArgAt(s, p) /\ e = ArgEnd(s, p)
    OBVIOUS
  <1>1. /\ a \in p + 1 .. Len(s) /\ e \in a .. Len(s)
        /\ ArgAt(t, p) = a /\ ArgEnd(t, p) = e
    BY ArgCut
  <1>2. a \in Nat \ {0} /\ e \in a .. Len(s) + 1
    <2>1. Len(s) \in Nat
      BY Lengths DEF IsCut
    <2> QED
      BY <1>1, <2>1
  <1>3. /\ Number(s, a, e, 10, Digit) \in Coordinate
        /\ Number(t, a, e, 10, Digit) = Number(s, a, e, 10, Digit)
    BY <1>2, NumberCut, DigitAssumption
  <1> QED
    BY <1>1, <1>3 DEF Decimal

(* Two arguments that are complete in s are the same ones in t.            *)
LEMMA XYCut ==
  ASSUME NEW s, NEW t, IsCut(s, t), NEW p \in 1 .. Len(s) + 1
  PROVE  /\ HasXY(s, p) => /\ HasXY(t, p)
                           /\ XYEnd(s, p) \in p + 1 .. Len(s)
                           /\ s[XYEnd(s, p)] \in WhiteSpace
                           /\ XYEnd(t, p) = XYEnd(s, p)
                           /\ XY(s, p) \in Point /\ XY(t, p) = XY(s, p)
         /\ HasXY(t, p) /\ XYEnd(t, p) <= Len(s) => HasXY(s, p)
  <1>1. /\ s \in Seq(Byte) /\ t \in Seq(Byte) /\ Len(s) \in Nat /\ Len(t) \in Nat
        /\ Len(s) <= Len(t)
    BY Lengths DEF IsCut
  <1>2. ASSUME HasXY(s, p)
        PROVE  /\ HasXY(t, p) /\ XYEnd(s, p) \in p + 1 .. Len(s)
               /\ s[XYEnd(s, p)] \in WhiteSpace /\ XYEnd(t, p) = XYEnd(s, p)
               /\ XY(s, p) \in Point /\ XY(t, p) = XY(s, p)
    <2> PICK e : e = ArgEnd(s, p)
      OBVIOUS
    <2>1. HasArg(s, p) /\ HasArg(s, e)
      BY <1>2 DEF HasXY
    <2>2. /\ HasArg(t, p) /\ ArgEnd(t, p) = e
          /\ ArgAt(s, p) \in p + 1 .. Len(s) /\ e \in ArgAt(s, p) .. Len(s)
      BY <2>1, ArgCut
    <2>3. e \in 1 .. Len(s) + 1 /\ e > p
      BY <1>1, <2>2
    <2>4. /\ HasArg(t, e) /\ ArgEnd(t, e) = ArgEnd(s, e)
          /\ ArgAt(s, e) \in e + 1 .. Len(s) /\ ArgEnd(s, e) \in ArgAt(s, e) .. Len(s)
          /\ s[ArgEnd(s, e)] \in WhiteSpace
      BY <2>1, <2>3, ArgCut
    <2>5. /\ Decimal(s, p) \in Coordinate /\ Decimal(t, p) = Decimal(s, p)
          /\ Decimal(s, e) \in Coordinate /\ Decimal(t, e) = Decimal(s, e)
      BY <2>1, <2>3, DecimalCut
    <2>6. HasXY(t, p) /\ XYEnd(t, p) = XYEnd(s, p) /\ XYEnd(s, p) = ArgEnd(s, e)
      BY <2>2, <2>4 DEF HasXY, XYEnd
    <2>7. ArgEnd(s, e) \in p + 1 .. Len(s)
      BY <1>1, <2>3, <2>4
    <2>8. XY(s, p) \in Point /\ XY(t, p) = XY(s, p)
      BY <2>2, <2>5 DEF XY, Point
    <2> QED
      BY <2>4, <2>6, <2>7, <2>8
  <1>3. ASSUME HasXY(t, p), XYEnd(t, p) <= Len(s) PROVE HasXY(s, p)
    <2> PICK e, f : e = ArgEnd(t, p) /\ f = ArgEnd(t, e)
      OBVIOUS
    <2>1. HasArg(t, p) /\ HasArg(t, e) /\ f <= Len(s)
      BY <1>3 DEF HasXY, XYEnd
    <2>2. IsCut(t, t) /\ p \in 1 .. Len(t) + 1
      BY <1>1, IsCutItself
    <2>3. ArgAt(t, p) \in p + 1 .. Len(t) /\ e \in ArgAt(t, p) .. Len(t)
      BY <2>1, <2>2, ArgCut
    <2>4. e \in 1 .. Len(t) + 1 /\ e \in Int
      BY <1>1, <2>3
    <2>5. ArgAt(t, e) \in e + 1 .. Len(t) /\ f \in ArgAt(t, e) .. Len(t)
      BY <2>1, <2>2, <2>4, ArgCut
    <2>6. e <= Len(s) /\ e \in 1 .. Len(s) + 1
      BY <1>1, <2>1, <2>4, <2>5
    <2>7. HasArg(s, p)
      BY <2>1, <2>6, ArgCut
    <2>8. ArgEnd(s, p) = e
      BY <2>7, ArgCut
    <2>9. HasArg(s, e)
      BY <2>1, <2>6, ArgCut
    <2> QED
      BY <2>7, <2>8, <2>9 DEF HasXY
  <1> QED
    BY <1>2, <1>3

Verbs == {PX, SIZE, OFFSET}

LEMMA VerbFacts ==
  ASSUME NEW verb \in Verbs
  PROVE  /\ verb \in Seq(Byte) /\ Len(verb) \in Nat \ {0} /\ Len(verb) <= Threshold
         /\ \A k \in 1 .. Len(verb) : verb[k] \in Byte /\ verb[k] \notin WhiteSpace
  <1>1. verb \in Seq(Byte \ WhiteSpace) /\ Len(verb) \in 1 .. Threshold
    BY VerbAssumption DEF Verbs
  <1>2. verb \in Seq(Byte)
    BY <1>1, SeqMonotonic
  <1>3. \A k \in 1 .. Len(verb) : verb[k] \in Byte \ WhiteSpace
    BY <1>1, ElementOfSeq
  <1> QED
    BY <1>1, <1>2, <1>3

LEMMA BeginsIs ==
  ASSUME NEW s \in Seq(Byte), NEW verb \in Verbs
  PROVE  /\ Begins(verb, s) <=> /\ Len(verb) <= Len(s)
                                /\ \A k \in 1 .. Len(verb) : s[k] = verb[k]
         /\ Begins(verb, s) => After(verb) \in 2 .. Len(s) + 1 /\ s # << >>
  <1>1. /\ verb \in Seq(Byte) /\ Len(verb) \in Nat \ {0}
        /\ Len(s) \in Nat /\ \A k \in 1 .. Len(s) : s[k] \in Byte
    BY VerbFacts, Lengths
  <1>2. ASSUME Len(verb) <= Len(s)
        PROVE  SubSeq(s, 1, Len(verb)) = verb <=> \A k \in 1 .. Len(verb) : s[k] = verb[k]
    <2> PICK n, u : n = Len(verb) /\ u = SubSeq(s, 1, n)
      OBVIOUS
    <2>1. \A i \in 1 .. n : s[i] \in Byte
      BY <1>1, <1>2
    <2>2. /\ u \in Seq(Byte) /\ Len(u) = IF 1 <= n THEN n - 1 + 1 ELSE 0
          /\ \A i \in 1 .. n - 1 + 1 : u[i] = s[1 + i - 1]
      BY <1>1, <2>1, SubSeqProperties
    <2>3. Len(u) = n /\ \A i \in 1 .. n : u[i] = s[i]
      BY <1>1, <2>2
    <2>4. ASSUME \A k \in 1 .. n : s[k] = verb[k] PROVE u = verb
      BY <1>1, <2>2, <2>3, <2>4, SeqEqual
    <2> QED
      BY <2>3, <2>4
  <1>3. s = << >> => Len(s) = 0
    BY EmptySeq
  <1> QED
    BY <1>1, <1>2, <1>3 DEF Begins, After

LEMMA BeginsCut ==
  ASSUME NEW s, NEW t, IsCut(s, t), NEW verb \in Verbs
  PROVE  /\ Begins(verb, s) => Begins(verb, t)
         /\ Begins(verb, t) /\ Len(verb) <= Len(s) => Begins(verb, s)
  <1>1. /\ s \in Seq(Byte) /\ t \in Seq(Byte) /\ Len(s) \in Nat /\ Len(t) \in Nat
        /\ Len(s) <= Len(t) /\ \A k \in 1 .. Len(s) : s[k] = t[k]
        /\ Len(verb) \in Nat
    BY Lengths, VerbFacts DEF IsCut
  <1>2. ASSUME Len(verb) <= Len(s)
        PROVE  \A k \in 1 .. Len(verb) : s[k] = t[k]
    BY <1>1, <1>2
  <1> QED
    BY <1>1, <1>2, BeginsIs

LEMMA OneVerb ==
  ASSUME NEW s \in Seq(Byte), NEW v \in Verbs, NEW w \in Verbs, v # w
  PROVE  ~(Begins(v, s) /\ Begins(w, s))
  <1>1. 1 \in 1 .. Len(v) /\ 1 \in 1 .. Len(w)
    BY VerbFacts
  <1>2. v[1] # w[1]
    BY VerbAssumption DEF Verbs
  <1> QED
    BY <1>1, <1>2, BeginsIs

LEMMA UnknownIs ==
  ASSUME NEW s
  PROVE  Unknown(s) <=> \A verb \in Verbs : ~Begins(verb, s)
  BY DEF Unknown, Verbs

(* A word that is no verb in s, and ends there or is too long, is none.    *)
LEMMA UnknownCut ==
  ASSUME NEW s, NEW t, IsCut(s, t)
  PROVE  /\ Unknown(s) /\ TokenLength(s, 1) # Missing => Unknown(t)
         /\ Unknown(t) => Unknown(s)
  <1>1. /\ s \in Seq(Byte) /\ t \in Seq(Byte) /\ Len(s) \in Nat /\ Len(t) \in Nat
        /\ Len(s) <= Len(t) /\ \A k \in 1 .. Len(s) : s[k] = t[k]
        /\ 1 \in 1 .. Len(s) + 1 /\ Threshold \in Nat
    BY Lengths, NumberAssumption DEF IsCut
  <1>2. ASSUME Unknown(s), TokenLength(s, 1) # Missing,
               NEW verb \in Verbs, Begins(verb, t)
        PROVE  FALSE
    <2>1. ~Begins(verb, s)
      BY <1>2, UnknownIs
    <2>2. /\ Len(verb) \in Nat /\ Len(verb) <= Threshold
          /\ \A k \in 1 .. Len(verb) : verb[k] \notin WhiteSpace
      BY VerbFacts
    <2>3. Len(s) < Len(verb)
      BY <1>1, <1>2, <2>1, <2>2, BeginsCut
    <2>4. \A k \in 1 .. Len(verb) : t[k] \notin WhiteSpace
      BY <1>1, <1>2, <2>2, BeginsIs
    <2>5. \A k \in 1 .. Len(s) : s[k] \notin WhiteSpace
      BY <1>1, <2>2, <2>3, <2>4
    <2> PICK n : n = TokenLength(s, 1)
      OBVIOUS
    <2>6. IsToken(s, 1, n) /\ n # Missing
      BY <1>1, <1>2, TokenIsOne
    <2> QED
      BY <1>1, <2>2, <2>3, <2>5, <2>6 DEF IsToken
  <1>3. Unknown(t) => Unknown(s)
    BY BeginsCut, UnknownIs
  <1> QED
    BY <1>2, <1>3, UnknownIs

(* White space that begins with a newline is newlines.                     *)
LEMMA OnlyNewLines ==
  ASSUME NEW t \in Seq(Byte), IsLines(t), NEW p \in 1 .. Len(t), t[p] \in NewLine,
         NEW q \in p + 1 .. Len(t) + 1, \A k \in p .. q - 1 : t[k] \in WhiteSpace
  PROVE  t[q - 1] \in NewLine
  <1>1. Len(t) \in Nat
    BY Lengths
  <1> DEFINE T == {k \in p .. q - 1 : t[k] \notin NewLine}
  <1>2. ASSUME NEW k \in T, \A m \in T : k <= m PROVE FALSE
    <2>1. k \in p .. q - 1 /\ t[k] \notin NewLine /\ k # p
      OBVIOUS
    <2>2. k - 1 \in p .. q - 1 /\ k - 1 \notin T
      BY <1>1, <1>2, <2>1
    <2>3. t[k - 1] \in NewLine /\ k - 1 \in 1 .. Len(t) - 1 /\ (k - 1) + 1 = k
      BY <1>1, <2>1, <2>2
    <2>4. t[k] \notin Blank
      <3>1. t[(k - 1) + 1] \notin Blank
        BY <2>3 DEF IsLines
      <3> QED
        BY <2>3, <3>1
    <2>5. t[k] \in WhiteSpace
      BY <2>1
    <2> QED
      BY <2>1, <2>4, <2>5 DEF WhiteSpace
  <1>3. T = {}
    <2>1. T \subseteq Nat
      BY <1>1
    <2> HIDE DEF T
    <2> QED
      BY <1>2, <2>1, LeastElement
  <1>4. q - 1 \in p .. q - 1
    BY <1>1
  <1> QED
    BY <1>3, <1>4

(* What stands behind PX x y in s stands there in t.  The newline that     *)
(* asks for a pixel does so whatever comes next: no line begins with a     *)
(* blank.                                                                  *)
LEMMA ColorCut ==
  ASSUME NEW s, NEW t, IsCut(s, t), IsLines(t) \/ s = t,
         Begins(PX, s), HasXY(s, After(PX))
  PROVE  /\ AsksForPixel(s) => AsksForPixel(t)
         /\ ~AsksForPixel(s) /\ HasColor(s) =>
              /\ ~AsksForPixel(t) /\ HasColor(t)
              /\ ColorAt(t) = ColorAt(s) /\ ColorEnd(t) = ColorEnd(s)
              /\ ColorAt(s) \in XYEnd(s, After(PX)) + 1 .. Len(s)
              /\ ColorEnd(s) \in ColorAt(s) .. Len(s) /\ s[ColorEnd(s)] \in WhiteSpace
         /\ AsksForPixel(t) /\ SkipWhiteSpace(t, XYEnd(t, After(PX))) <= Len(s) + 1
              => AsksForPixel(s)
         /\ HasColor(t) /\ ColorEnd(t) <= Len(s) => HasColor(s)
  <1>1. /\ s \in Seq(Byte) /\ t \in Seq(Byte) /\ Len(s) \in Nat /\ Len(t) \in Nat
        /\ Len(s) <= Len(t) /\ \A k \in 1 .. Len(s) : s[k] = t[k] /\ Threshold \in Nat
    BY Lengths, NumberAssumption DEF IsCut
  <1> PICK p : p = After(PX)
    OBVIOUS
  <1>2. p \in 2 .. Len(s) + 1 /\ p \in 1 .. Len(s) + 1
    <2>1. PX \in Verbs
      BY DEF Verbs
    <2>2. p \in 2 .. Len(s) + 1
      BY <1>1, <2>1, BeginsIs
    <2> QED
      BY <1>1, <2>2
  <1> PICK e : e = XYEnd(s, p)
    OBVIOUS
  <1>3. e \in p + 1 .. Len(s) /\ s[e] \in WhiteSpace /\ XYEnd(t, p) = e
    BY <1>2, XYCut
  <1> PICK a, b : a = SkipWhiteSpace(s, e) /\ b = SkipWhiteSpace(t, e)
    OBVIOUS
  <1> PICK m, n : m = TokenLength(s, a) /\ n = TokenLength(t, b)
    OBVIOUS
  <1>4. /\ AsksForPixel(s) <=> s[a - 1] \in NewLine
        /\ AsksForPixel(t) <=> t[b - 1] \in NewLine
        /\ ColorAt(s) = a /\ ColorEnd(s) = a + m /\ (HasColor(s) <=> m >= 0)
        /\ ColorAt(t) = b /\ ColorEnd(t) = b + n /\ (HasColor(t) <=> n >= 0)
    BY <1>3 DEF AsksForPixel, ColorAt, ColorEnd, HasColor
  <1>5. e \in 1 .. Len(s) + 1
    BY <1>1, <1>2, <1>3
  <1>6. /\ SkipsTo(s, e, a) /\ SkipsTo(t, e, b)
        /\ (a <= Len(s) => b = a) /\ a <= b /\ (b <= Len(s) + 1 => b = a)
    BY <1>5, SkipCut
  <1>7. a \in e .. Len(s) + 1 /\ b \in e .. Len(t) + 1 /\ a # e
    BY <1>1, <1>3, <1>6 DEF SkipsTo
  <1>8. /\ a \in e + 1 .. Len(s) + 1 /\ a - 1 \in 1 .. Len(s) /\ b \in e + 1 .. Len(t) + 1
        /\ a \in 1 .. Len(s) + 1 /\ b \in 1 .. Len(t) + 1 /\ s[a - 1] = t[a - 1]
    BY <1>1, <1>5, <1>6, <1>7, SMTT(30)
  <1>9. ASSUME s[a - 1] \in NewLine PROVE t[b - 1] \in NewLine
    <2>1. t[a - 1] \in NewLine /\ a - 1 \in 1 .. Len(t) /\ b \in (a - 1) + 1 .. Len(t) + 1
      BY <1>1, <1>6, <1>8, <1>9
    <2>2. \A k \in a - 1 .. b - 1 : t[k] \in WhiteSpace
      <3>1. \A k \in a - 1 .. b - 1 : k \in e .. b - 1
        BY <1>1, <1>5, <1>8, SMTT(30)
      <3>2. \A k \in e .. b - 1 : t[k] \in WhiteSpace
        BY <1>6 DEF SkipsTo
      <3> QED
        BY <3>1, <3>2
    <2>3. CASE IsLines(t)
      BY <1>1, <2>1, <2>2, <2>3, OnlyNewLines
    <2>4. CASE s = t
      <3>1. a = b
        BY <2>4
      <3> QED
        BY <2>1, <3>1
    <2> QED
      BY <2>3, <2>4
  <1>10. ASSUME m >= 0, s[a - 1] \notin NewLine
         PROVE  /\ b = a /\ n = m /\ t[b - 1] \notin NewLine
                /\ a \in e + 1 .. Len(s) /\ a + m \in a .. Len(s) /\ s[a + m] \in WhiteSpace
    <2>1. IsToken(s, a, m)
      BY <1>1, <1>8, TokenIsOne
    <2>2. m \in Nat /\ a + m <= Len(s) /\ s[a + m] \in WhiteSpace
      BY <1>1, <1>10, <2>1 DEF IsToken, Garbage, Missing
    <2>3. b = a /\ a \in e + 1 .. Len(s) /\ a + m \in a .. Len(s)
      BY <1>1, <1>6, <1>8, <2>2, SMTT(30)
    <2>4. n = m
      BY <1>8, <1>10, <2>3, TokenCut DEF Missing
    <2> QED
      BY <1>8, <1>10, <2>2, <2>3, <2>4
  <1>11. ASSUME t[b - 1] \in NewLine, b <= Len(s) + 1 PROVE s[a - 1] \in NewLine
    BY <1>6, <1>8, <1>11
  <1>12. ASSUME n >= 0, b + n <= Len(s) PROVE m >= 0
    <2>1. IsToken(t, b, n)
      BY <1>1, <1>8, TokenIsOne
    <2>2. n \in Nat
      BY <1>1, <1>12, <2>1 DEF IsToken, Garbage, Missing
    <2>3. b = a
      BY <1>1, <1>6, <1>8, <1>12, <2>2
    <2> QED
      BY <1>8, <1>12, <2>3, TokenCut
  <1> QED
    BY <1>3, <1>4, <1>9, <1>10, <1>11, <1>12

LEMMA FirstPX ==
  ASSUME NEW s \in Seq(Byte), Begins(PX, s)
  PROVE  /\ ~Begins(SIZE, s) /\ ~Begins(OFFSET, s) /\ ~Unknown(s)
         /\ Complete(s) <=> HasXY(s, After(PX)) /\ (AsksForPixel(s) \/ HasColor(s))
  <1>1. ~Begins(SIZE, s) /\ ~Begins(OFFSET, s)
    BY VerbAssumption, OneVerb DEF Verbs
  <1>2. ~Unknown(s)
    BY DEF Unknown
  <1> QED
    BY <1>1, <1>2 DEF Complete, LacksArgument

LEMMA FirstSIZE ==
  ASSUME NEW s \in Seq(Byte), Begins(SIZE, s)
  PROVE  ~Begins(PX, s) /\ ~Begins(OFFSET, s) /\ ~Unknown(s) /\ Complete(s)
  <1>1. ~Begins(PX, s) /\ ~Begins(OFFSET, s)
    BY VerbAssumption, OneVerb DEF Verbs
  <1> QED
    BY <1>1 DEF Complete, Unknown

LEMMA FirstOFFSET ==
  ASSUME NEW s \in Seq(Byte), Begins(OFFSET, s)
  PROVE  /\ ~Begins(PX, s) /\ ~Begins(SIZE, s) /\ ~Unknown(s)
         /\ Complete(s) <=> HasXY(s, After(OFFSET))
  <1>1. ~Begins(PX, s) /\ ~Begins(SIZE, s)
    BY VerbAssumption, OneVerb DEF Verbs
  <1> QED
    BY <1>1 DEF Complete, Unknown

LEMMA FirstUnknown ==
  ASSUME NEW s, Unknown(s)
  PROVE  /\ ~Begins(PX, s) /\ ~Begins(SIZE, s) /\ ~Begins(OFFSET, s)
         /\ Complete(s) <=> s # << >> /\ TokenLength(s, 1) >= 0
  BY DEF Complete, Unknown

LEMMA CommandTypes ==
  ASSUME NEW at \in Point,
         NEW pix \in [bgr : Coordinate, alpha : 0 .. Channel - 1]
  PROVE  /\ Get(at) \in Command /\ Set(at, pix) \in Command /\ Offset(at) \in Command
         /\ [op |-> "size"] \in Command
  BY DEF Point, Command, Get, Set, Offset

LEMMA MovedType ==
  ASSUME NEW xy \in Point, NEW o \in Point
  PROVE  Moved(xy, o) \in Point
  <1>1. xy.x + o.x \in Int /\ xy.y + o.y \in Int
    BY DEF Point, Coordinate
  <1>2. (xy.x + o.x) % Word \in Coordinate /\ (xy.y + o.y) % Word \in Coordinate
    BY <1>1, Remainder
  <1> QED
    BY <1>2 DEF Moved, Point

(* The first commands of s and t are executed alike and end at e.          *)
SameFirst(s, t, e) ==
  /\ Complete(t) /\ FirstEnd(s) = e /\ FirstEnd(t) = e
  /\ e \in 1 .. Len(s) + 1 /\ SkipWhiteSpace(s, e) > 1
  /\ \A o \in Point : /\ Executed(s, o) \in Seq(Command) /\ Executed(t, o) = Executed(s, o)
                      /\ OffsetBehind(s, o) \in Point /\ OffsetBehind(t, o) = OffsetBehind(s, o)

LEMMA FirstCutPX ==
  ASSUME NEW s, NEW t, IsCut(s, t), IsLines(t) \/ s = t,
         Begins(PX, s), Complete(s)
  PROVE  SameFirst(s, t, FirstEnd(s))
  <1>1. /\ s \in Seq(Byte) /\ t \in Seq(Byte) /\ Len(s) \in Nat /\ PX \in Verbs
    BY Lengths DEF IsCut, Verbs
  <1>2. Begins(PX, t)
    BY <1>1, BeginsCut
  <1>3. ~Begins(OFFSET, s) /\ ~Begins(OFFSET, t)
    BY <1>1, <1>2, FirstPX
  <1> PICK p : p = After(PX)
    OBVIOUS
  <1>4. p \in 2 .. Len(s) + 1 /\ p \in 1 .. Len(s) + 1
    <2>1. p \in 2 .. Len(s) + 1
      BY <1>1, BeginsIs
    <2> QED
      BY <1>1, <2>1
  <1>5. HasXY(s, p) /\ (AsksForPixel(s) \/ HasColor(s))
    BY <1>1, FirstPX
  <1> PICK e, xy : e = XYEnd(s, p) /\ xy = XY(s, p)
    OBVIOUS
  <1>6. /\ HasXY(t, p) /\ XYEnd(t, p) = e /\ e \in p + 1 .. Len(s)
        /\ xy \in Point /\ XY(t, p) = xy
    BY <1>4, <1>5, XYCut
  <1>7. ASSUME AsksForPixel(s) PROVE AsksForPixel(t)
    BY <1>5, <1>7, ColorCut
  <1>8. ASSUME ~AsksForPixel(s)
        PROVE  /\ ~AsksForPixel(t) /\ HasColor(t)
               /\ ColorAt(t) = ColorAt(s) /\ ColorEnd(t) = ColorEnd(s)
               /\ ColorAt(s) \in e + 1 .. Len(s)
               /\ ColorEnd(s) \in ColorAt(s) .. Len(s)
    BY <1>5, <1>8, ColorCut
  <1>9. Complete(t)
    BY <1>1, <1>2, <1>5, <1>6, <1>7, <1>8, FirstPX
  <1> PICK f : f = FirstEnd(s)
    OBVIOUS
  <1>10. f = IF AsksForPixel(s) THEN e ELSE ColorEnd(s)
    BY DEF FirstEnd
  <1>11. FirstEnd(t) = f
    BY <1>2, <1>6, <1>7, <1>8, <1>10 DEF FirstEnd
  <1>12. f \in 1 .. Len(s) + 1 /\ f > 1
    BY <1>1, <1>4, <1>6, <1>8, <1>10
  <1>13. SkipWhiteSpace(s, f) > 1
    BY <1>1, <1>12, SkipIsOne DEF SkipsTo
  <1>14. ASSUME ~AsksForPixel(s)
         PROVE  /\ Pixel(s, ColorAt(s), ColorEnd(s)) \in [bgr : Coordinate, alpha : 0 .. Channel - 1]
                /\ Pixel(t, ColorAt(t), ColorEnd(t)) = Pixel(s, ColorAt(s), ColorEnd(s))
    <2> PICK a, c : a = ColorAt(s) /\ c = ColorEnd(s)
      OBVIOUS
    <2>1. a \in e + 1 .. Len(s) /\ c \in a .. Len(s) /\ ColorAt(t) = a /\ ColorEnd(t) = c
      BY <1>8, <1>14
    <2>2. a \in Nat \ {0} /\ c \in a .. Len(s) + 1
      BY <1>1, <1>4, <1>6, <2>1, SMTT(30)
    <2> QED
      BY <2>1, <2>2, PixelCut
  <1>15. ASSUME NEW o \in Point
         PROVE  Executed(s, o) \in Seq(Command) /\ Executed(t, o) = Executed(s, o)
    <2> PICK at : at = Moved(xy, o)
      OBVIOUS
    <2>1. at \in Point
      BY <1>6, MovedType
    <2>2. Executed(s, o) = IF ~OnScreen(at) THEN << >>
                           ELSE IF AsksForPixel(s) THEN << Get(at) >>
                           ELSE << Set(at, Pixel(s, ColorAt(s), ColorEnd(s))) >>
      BY DEF Executed
    <2>3. Executed(t, o) = IF ~OnScreen(at) THEN << >>
                           ELSE IF AsksForPixel(t) THEN << Get(at) >>
                           ELSE << Set(at, Pixel(t, ColorAt(t), ColorEnd(t))) >>
      BY <1>2, <1>6 DEF Executed
    <2>4. Executed(t, o) = Executed(s, o)
      BY <1>7, <1>8, <1>14, <2>2, <2>3
    <2>5. CASE ~OnScreen(at)
      <3>1. Executed(s, o) = << >>
        BY <2>2, <2>5
      <3> QED
        BY <2>4, <3>1
    <2>6. CASE OnScreen(at) /\ AsksForPixel(s)
      <3>1. Executed(s, o) = << Get(at) >> /\ Get(at) \in Command
        BY <2>1, <2>2, <2>6 DEF Point, Command, Get
      <3> QED
        BY <2>4, <3>1
    <2>7. CASE OnScreen(at) /\ ~AsksForPixel(s)
      <3> PICK pix : pix = Pixel(s, ColorAt(s), ColorEnd(s))
        OBVIOUS
      <3>1. pix \in [bgr : Coordinate, alpha : 0 .. Channel - 1]
        BY <1>14, <2>7
      <3>2. Executed(s, o) = << Set(at, pix) >> /\ Set(at, pix) \in Command
        BY <2>1, <2>2, <2>7, <3>1, CommandTypes
      <3> QED
        BY <2>4, <3>2
    <2> QED
      BY <2>5, <2>6, <2>7
  <1>16. \A o \in Point : OffsetBehind(s, o) = o /\ OffsetBehind(t, o) = o
    BY <1>3 DEF OffsetBehind
  <1> QED
    BY <1>9, <1>11, <1>12, <1>13, <1>15, <1>16 DEF SameFirst

LEMMA FirstCutSIZE ==
  ASSUME NEW s, NEW t, IsCut(s, t), Begins(SIZE, s)
  PROVE  SameFirst(s, t, FirstEnd(s))
  <1>1. /\ s \in Seq(Byte) /\ t \in Seq(Byte) /\ Len(s) \in Nat /\ SIZE \in Verbs
    BY Lengths DEF IsCut, Verbs
  <1>2. Begins(SIZE, t)
    BY <1>1, BeginsCut
  <1>3. /\ ~Begins(PX, s) /\ ~Begins(OFFSET, s) /\ ~Begins(PX, t) /\ ~Begins(OFFSET, t)
        /\ Complete(t)
    BY <1>1, <1>2, FirstSIZE
  <1> PICK f : f = After(SIZE)
    OBVIOUS
  <1>4. FirstEnd(s) = f /\ FirstEnd(t) = f
    BY <1>2, <1>3 DEF FirstEnd
  <1>5. f \in 2 .. Len(s) + 1
    BY <1>1, BeginsIs
  <1>6. f \in 1 .. Len(s) + 1 /\ f > 1
    BY <1>1, <1>5
  <1>7. SkipWhiteSpace(s, f) > 1
    BY <1>1, <1>6, SkipIsOne DEF SkipsTo
  <1>8. ASSUME NEW o \in Point
        PROVE  Executed(s, o) \in Seq(Command) /\ Executed(t, o) = Executed(s, o)
    <2>1. Executed(s, o) = << [op |-> "size"] >> /\ Executed(t, o) = << [op |-> "size"] >>
      BY <1>2, <1>3 DEF Executed
    <2>2. [op |-> "size"] \in Command
      BY DEF Command
    <2> QED
      BY <2>1, <2>2
  <1>9. \A o \in Point : OffsetBehind(s, o) = o /\ OffsetBehind(t, o) = o
    BY <1>3 DEF OffsetBehind
  <1> QED
    BY <1>3, <1>4, <1>6, <1>7, <1>8, <1>9 DEF SameFirst

LEMMA FirstCutOFFSET ==
  ASSUME NEW s, NEW t, IsCut(s, t), Begins(OFFSET, s), Complete(s)
  PROVE  SameFirst(s, t, FirstEnd(s))
  <1>1. /\ s \in Seq(Byte) /\ t \in Seq(Byte) /\ Len(s) \in Nat /\ OFFSET \in Verbs
    BY Lengths DEF IsCut, Verbs
  <1>2. Begins(OFFSET, t)
    BY <1>1, BeginsCut
  <1>3. ~Begins(PX, s) /\ ~Begins(SIZE, s) /\ ~Begins(PX, t) /\ ~Begins(SIZE, t)
    BY <1>1, <1>2, FirstOFFSET
  <1> PICK p : p = After(OFFSET)
    OBVIOUS
  <1>4. p \in 2 .. Len(s) + 1 /\ p \in 1 .. Len(s) + 1
    <2>1. p \in 2 .. Len(s) + 1
      BY <1>1, BeginsIs
    <2> QED
      BY <1>1, <2>1
  <1>5. HasXY(s, p)
    BY <1>1, FirstOFFSET
  <1> PICK e, xy : e = XYEnd(s, p) /\ xy = XY(s, p)
    OBVIOUS
  <1>6. /\ HasXY(t, p) /\ XYEnd(t, p) = e /\ e \in p + 1 .. Len(s)
        /\ xy \in Point /\ XY(t, p) = xy
    BY <1>4, <1>5, XYCut
  <1>7. Complete(t)
    BY <1>1, <1>2, <1>6, FirstOFFSET
  <1>8. FirstEnd(s) = e /\ FirstEnd(t) = e
    BY <1>2, <1>3, <1>6 DEF FirstEnd
  <1>9. e \in 1 .. Len(s) + 1 /\ e > 1
    BY <1>1, <1>4, <1>6
  <1>10. SkipWhiteSpace(s, e) > 1
    BY <1>1, <1>9, SkipIsOne DEF SkipsTo
  <1>11. ASSUME NEW o \in Point
         PROVE  Executed(s, o) \in Seq(Command) /\ Executed(t, o) = Executed(s, o)
    <2>1. Executed(s, o) = << Offset(xy) >> /\ Executed(t, o) = << Offset(xy) >>
      BY <1>2, <1>3, <1>6 DEF Executed
    <2>2. Offset(xy) \in Command
      BY <1>6 DEF Point, Command, Offset
    <2> QED
      BY <2>1, <2>2
  <1>12. \A o \in Point : OffsetBehind(s, o) = xy /\ OffsetBehind(t, o) = xy
    BY <1>2, <1>6 DEF OffsetBehind
  <1> QED
    BY <1>6, <1>7, <1>8, <1>9, <1>10, <1>11, <1>12 DEF SameFirst

LEMMA FirstCutUnknown ==
  ASSUME NEW s, NEW t, IsCut(s, t), Unknown(s), Complete(s)
  PROVE  SameFirst(s, t, FirstEnd(s))
  <1>1. /\ s \in Seq(Byte) /\ t \in Seq(Byte) /\ Len(s) \in Nat /\ Len(t) \in Nat
        /\ Len(s) <= Len(t) /\ 1 \in 1 .. Len(s) + 1 /\ Threshold \in Nat
    BY Lengths, NumberAssumption DEF IsCut
  <1> PICK n : n = TokenLength(s, 1)
    OBVIOUS
  <1>2. s # << >> /\ n >= 0
    BY FirstUnknown
  <1>3. IsToken(s, 1, n)
    BY <1>1, TokenIsOne
  <1>4. n \in Nat /\ 1 + n <= Len(s) /\ s[1 + n] \in WhiteSpace
    BY <1>1, <1>2, <1>3 DEF IsToken, Garbage, Missing
  <1>5. TokenLength(t, 1) = n
    BY <1>1, <1>2, TokenCut DEF Missing
  <1>6. Unknown(t)
    BY <1>2, UnknownCut DEF Missing
  <1>7. t # << >>
    BY <1>1, <1>4, EmptySeq
  <1>8. /\ ~Begins(PX, s) /\ ~Begins(SIZE, s) /\ ~Begins(OFFSET, s)
        /\ ~Begins(PX, t) /\ ~Begins(SIZE, t) /\ ~Begins(OFFSET, t)
        /\ Complete(t)
    BY <1>2, <1>5, <1>6, <1>7, FirstUnknown
  <1>9. FirstEnd(s) = 1 + n /\ FirstEnd(t) = 1 + n
    BY <1>5, <1>8 DEF FirstEnd
  <1>10. 1 + n \in 1 .. Len(s) + 1
    BY <1>1, <1>4
  <1>11. SkipWhiteSpace(s, 1 + n) > 1
    <2> PICK q : q = SkipWhiteSpace(s, 1 + n)
      OBVIOUS
    <2>1. SkipsTo(s, 1 + n, q)
      BY <1>1, <1>10, SkipIsOne
    <2>2. q # 1 + n /\ q \in 1 + n .. Len(s) + 1
      BY <1>4, <2>1 DEF SkipsTo
    <2> QED
      BY <1>4, <2>2
  <1>12. \A o \in Point : Executed(s, o) = << >> /\ Executed(t, o) = << >>
    BY <1>8 DEF Executed
  <1>13. \A o \in Point : OffsetBehind(s, o) = o /\ OffsetBehind(t, o) = o
    BY <1>8 DEF OffsetBehind
  <1>14. << >> \in Seq(Command)
    OBVIOUS
  <1> QED
    BY <1>8, <1>9, <1>10, <1>11, <1>12, <1>13, <1>14 DEF SameFirst

(* A command that is complete in s is the same one in t.                   *)
LEMMA FirstCut ==
  ASSUME NEW s, NEW t, IsCut(s, t), IsLines(t) \/ s = t,
         Complete(s)
  PROVE  SameFirst(s, t, FirstEnd(s))
  <1>1. Begins(PX, s) \/ Begins(SIZE, s) \/ Begins(OFFSET, s) \/ Unknown(s)
    BY DEF Complete
  <1> QED
    BY <1>1, FirstCutPX, FirstCutSIZE, FirstCutOFFSET, FirstCutUnknown

(* A word that is too long in s is in t, and nothing behind it is read.    *)
LEMMA GarbageCut ==
  ASSUME NEW s, NEW t, IsCut(s, t), Unknown(s), TokenLength(s, 1) = Garbage
  PROVE  ~Complete(t)
  <1>1. 1 \in 1 .. Len(s) + 1
    BY Lengths DEF IsCut
  <1>2. TokenLength(t, 1) = Garbage
    BY <1>1, TokenCut DEF Garbage, Missing
  <1>3. Unknown(t)
    BY UnknownCut DEF Garbage, Missing
  <1> QED
    BY <1>2, <1>3, FirstUnknown DEF Garbage

(* A command of t is complete in s if s holds the white space behind it.   *)
LEMMA CompleteBack ==
  ASSUME NEW s, NEW t, IsCut(s, t), IsLines(t), Complete(t),
         SkipWhiteSpace(t, FirstEnd(t)) <= Len(s) + 1
  PROVE  Complete(s)
  <1>1. /\ s \in Seq(Byte) /\ t \in Seq(Byte) /\ Len(s) \in Nat /\ Len(t) \in Nat
        /\ Len(s) <= Len(t) /\ IsCut(t, t) /\ Threshold \in Nat
        /\ PX \in Verbs /\ SIZE \in Verbs /\ OFFSET \in Verbs
    BY Lengths, IsCutItself, NumberAssumption DEF IsCut, Verbs
  <1> PICK f, q : f = FirstEnd(t) /\ q = SkipWhiteSpace(t, f)
    OBVIOUS
  <1>2. f \in 1 .. Len(t) + 1 /\ q > 1 /\ q <= Len(s) + 1
    BY <1>1, FirstCut DEF SameFirst
  <1>3. SkipsTo(t, f, q)
    BY <1>1, <1>2, SkipIsOne
  <1>4. /\ q \in f .. Len(t) + 1 /\ f <= Len(s) + 1
        /\ f <= Len(t) /\ t[f] \in WhiteSpace => f <= Len(s)
    BY <1>1, <1>2, <1>3 DEF SkipsTo
  <1>5. s # << >>
    <2>1. q \in Int /\ Len(s) # 0
      BY <1>1, <1>2, <1>4
    <2> QED
      BY <2>1, EmptySeq
  <1>6. CASE Begins(PX, t)
    <2> PICK p : p = After(PX)
      OBVIOUS
    <2>1. p \in 2 .. Len(t) + 1 /\ p = Len(PX) + 1 /\ Len(PX) \in Nat
      BY <1>1, <1>6, BeginsIs, VerbFacts DEF After
    <2>2. HasXY(t, p) /\ (AsksForPixel(t) \/ HasColor(t))
      BY <1>1, <1>6, FirstPX
    <2> PICK e : e = XYEnd(t, p)
      OBVIOUS
    <2>3. p \in 1 .. Len(t) + 1
      BY <1>1, <2>1
    <2>4. e \in p + 1 .. Len(t) /\ t[e] \in WhiteSpace
      BY <1>1, <2>2, <2>3, XYCut
    <2>5. f = IF AsksForPixel(t) THEN e ELSE ColorEnd(t)
      BY <1>6 DEF FirstEnd
    <2>6. ASSUME ~AsksForPixel(t)
          PROVE  /\ ColorAt(t) \in e + 1 .. Len(t) /\ ColorEnd(t) \in ColorAt(t) .. Len(t)
                 /\ t[ColorEnd(t)] \in WhiteSpace
      BY <1>1, <1>6, <2>2, <2>6, ColorCut
    <2>7. f \in e .. Len(t) /\ t[f] \in WhiteSpace
      <3>1. CASE AsksForPixel(t)
        BY <2>1, <2>4, <2>5, <3>1
      <3>2. CASE ~AsksForPixel(t)
        <4>1. f = ColorEnd(t)
          BY <2>5, <3>2
        <4> QED
          BY <1>1, <2>1, <2>4, <2>6, <3>2, <4>1
      <3> QED
        BY <3>1, <3>2
    <2>8. f <= Len(s) /\ e <= Len(s) /\ Len(PX) <= Len(s) /\ p \in 1 .. Len(s) + 1
      BY <1>1, <1>4, <2>1, <2>4, <2>7
    <2>9. Begins(PX, s)
      BY <1>1, <1>6, <2>8, BeginsCut
    <2>10. HasXY(s, p)
      BY <2>2, <2>8, XYCut
    <2>11. AsksForPixel(s) \/ HasColor(s)
      <3>1. CASE AsksForPixel(t)
        <4>1. f = e
          BY <2>5, <3>1
        <4>2. SkipWhiteSpace(t, XYEnd(t, After(PX))) <= Len(s) + 1
          BY <1>2, <4>1
        <4> QED
          BY <2>9, <2>10, <3>1, <4>2, ColorCut
      <3>2. CASE ~AsksForPixel(t)
        <4>1. HasColor(t) /\ ColorEnd(t) <= Len(s)
          BY <2>2, <2>5, <2>8, <3>2
        <4> QED
          BY <2>9, <2>10, <4>1, ColorCut
      <3> QED
        BY <3>1, <3>2
    <2> QED
      BY <1>1, <2>9, <2>10, <2>11, FirstPX
  <1>7. CASE Begins(SIZE, t)
    <2>1. f = Len(SIZE) + 1 /\ Len(SIZE) \in Nat
      BY <1>1, <1>7, FirstSIZE, VerbFacts DEF FirstEnd, After
    <2>2. Len(SIZE) <= Len(s)
      BY <1>1, <1>4, <2>1
    <2>3. Begins(SIZE, s)
      BY <1>1, <1>7, <2>2, BeginsCut
    <2> QED
      BY <2>3 DEF Complete
  <1>8. CASE Begins(OFFSET, t)
    <2> PICK p : p = After(OFFSET)
      OBVIOUS
    <2>1. p \in 2 .. Len(t) + 1 /\ p = Len(OFFSET) + 1 /\ Len(OFFSET) \in Nat
      BY <1>1, <1>8, BeginsIs, VerbFacts DEF After
    <2>2. HasXY(t, p) /\ ~Begins(PX, t) /\ ~Begins(SIZE, t)
      BY <1>1, <1>8, FirstOFFSET
    <2>3. f = XYEnd(t, p)
      BY <1>8, <2>2 DEF FirstEnd
    <2>4. p \in 1 .. Len(t) + 1
      BY <1>1, <2>1
    <2>5. f \in p + 1 .. Len(t) /\ t[f] \in WhiteSpace
      BY <1>1, <2>2, <2>3, <2>4, XYCut
    <2>6. f <= Len(s) /\ Len(OFFSET) <= Len(s) /\ p \in 1 .. Len(s) + 1
      BY <1>1, <1>4, <2>1, <2>5
    <2>7. Begins(OFFSET, s)
      BY <1>1, <1>8, <2>6, BeginsCut
    <2>8. HasXY(s, p)
      BY <2>2, <2>3, <2>6, XYCut
    <2> QED
      BY <1>1, <2>7, <2>8, FirstOFFSET
  <1>9. CASE Unknown(t)
    <2> PICK n : n = TokenLength(t, 1)
      OBVIOUS
    <2>1. /\ n >= 0 /\ ~Begins(PX, t) /\ ~Begins(SIZE, t) /\ ~Begins(OFFSET, t)
      BY <1>9, FirstUnknown
    <2>2. f = 1 + n
      BY <2>1 DEF FirstEnd
    <2>3. 1 \in 1 .. Len(t) + 1 /\ 1 \in 1 .. Len(s) + 1
      BY <1>1
    <2>4. IsToken(t, 1, n)
      BY <1>1, <2>3, TokenIsOne
    <2>5. 1 + n <= Len(t) /\ t[1 + n] \in WhiteSpace
      BY <2>1, <2>4 DEF IsToken, Garbage, Missing
    <2>6. 1 + n <= Len(s)
      BY <1>4, <2>2, <2>5
    <2>7. TokenLength(s, 1) = n
      BY <2>1, <2>3, <2>6, TokenCut
    <2>8. Unknown(s)
      BY <1>9, UnknownCut
    <2> QED
      BY <1>5, <2>1, <2>7, <2>8, FirstUnknown
  <1>10. Begins(PX, t) \/ Begins(SIZE, t) \/ Begins(OFFSET, t) \/ Unknown(t)
    BY DEF Complete
  <1> QED
    BY <1>6, <1>7, <1>8, <1>9, <1>10

-----------------------------------------------------------------------------
(* What a text means *)

Meant == [done : Seq(Command), good : BOOLEAN]

LEMMA SuffixIs ==
  ASSUME NEW text \in Seq(Byte), NEW k \in 0 .. Len(text)
  PROVE  /\ Suffix(text, k) \in Seq(Byte) /\ Len(Suffix(text, k)) = k
         /\ \A i \in 1 .. k : Suffix(text, k)[i] = text[Len(text) - k + i]
         /\ IsLines(text) => IsLines(Suffix(text, k))
  <1> PICK n, m : n = Len(text) /\ m = n - k + 1
    OBVIOUS
  <1>1. n \in Nat /\ k \in Nat /\ k <= n /\ m \in Int /\ m >= 1
    BY Lengths
  <1>2. \A i \in m .. n : text[i] \in Byte
    BY <1>1, Lengths
  <1> PICK s : s = Suffix(text, k)
    OBVIOUS
  <1>3. s = SubSeq(text, m, n)
    BY DEF Suffix
  <1>4. /\ s \in Seq(Byte) /\ Len(s) = IF m <= n THEN n - m + 1 ELSE 0
        /\ \A i \in 1 .. n - m + 1 : s[i] = text[m + i - 1]
    BY <1>1, <1>2, <1>3, SubSeqProperties
  <1>5. Len(s) = k /\ n - m + 1 = k /\ \A i \in 1 .. k : m + i - 1 = n - k + i
    BY <1>1, <1>4
  <1>6. \A i \in 1 .. k : s[i] = text[n - k + i]
    BY <1>4, <1>5
  <1>7. ASSUME IsLines(text) PROVE IsLines(s)
    <2>1. ASSUME NEW i \in 1 .. Len(s) - 1, s[i] \in NewLine PROVE s[i + 1] \notin Blank
      <3>1. /\ i \in 1 .. k /\ i + 1 \in 1 .. k /\ n - k + i \in 1 .. n - 1
            /\ n - k + (i + 1) = (n - k + i) + 1
        BY <1>1, <1>5
      <3>2. s[i] = text[n - k + i] /\ s[i + 1] = text[(n - k + i) + 1]
        BY <1>6, <3>1
      <3> QED
        BY <1>7, <2>1, <3>1, <3>2 DEF IsLines
    <2> QED
      BY <2>1 DEF IsLines
  <1> QED
    BY <1>4, <1>5, <1>6, <1>7

LEMMA RestIs ==
  ASSUME NEW s \in Seq(Byte), NEW q \in 1 .. Len(s) + 1
  PROVE  /\ SubSeq(s, q, Len(s)) \in Seq(Byte)
         /\ Len(SubSeq(s, q, Len(s))) = Len(s) - q + 1
  <1>1. Len(s) \in Nat /\ q \in Int /\ \A i \in q .. Len(s) : s[i] \in Byte
    BY Lengths
  <1>2. /\ SubSeq(s, q, Len(s)) \in Seq(Byte)
        /\ Len(SubSeq(s, q, Len(s))) = IF q <= Len(s) THEN Len(s) - q + 1 ELSE 0
    BY <1>1, SubSeqProperties
  <1> QED
    BY <1>1, <1>2

(* The loop goes on behind a complete command, with fewer bytes.           *)
LEMMA BehindIs ==
  ASSUME NEW s \in Seq(Byte), Complete(s)
  PROVE  /\ FirstEnd(s) \in 1 .. Len(s) + 1
         /\ SkipWhiteSpace(s, FirstEnd(s)) \in 2 .. Len(s) + 1
         /\ Len(Behind(s)) = Len(s) + 1 - SkipWhiteSpace(s, FirstEnd(s))
         /\ Len(Behind(s)) \in 0 .. Len(s) - 1 /\ Behind(s) \in Seq(Byte)
         /\ \A o \in Point : OffsetBehind(s, o) \in Point /\ Executed(s, o) \in Seq(Command)
  <1> PICK f, q : f = FirstEnd(s) /\ q = SkipWhiteSpace(s, f)
    OBVIOUS
  <1>1. /\ f \in 1 .. Len(s) + 1 /\ q > 1
        /\ \A o \in Point : OffsetBehind(s, o) \in Point /\ Executed(s, o) \in Seq(Command)
    <2>1. SameFirst(s, s, f)
      BY IsCutItself, FirstCut
    <2> QED
      BY <2>1 DEF SameFirst
  <1>2. SkipsTo(s, f, q)
    BY <1>1, SkipIsOne
  <1>3. Len(s) \in Nat /\ q \in 2 .. Len(s) + 1 /\ q \in 1 .. Len(s) + 1
    <2>1. Len(s) \in Nat
      BY Lengths
    <2> QED
      BY <1>1, <1>2, <2>1 DEF SkipsTo
  <1>4. Behind(s) = SubSeq(s, q, Len(s))
    BY DEF Behind
  <1>5. Behind(s) \in Seq(Byte) /\ Len(Behind(s)) = Len(s) - q + 1
    BY <1>3, <1>4, RestIs
  <1> QED
    BY <1>1, <1>3, <1>5

(* What Meanings says of one suffix, given what it says of shorter ones.   *)
MeansOf(means, text, k, o) ==
  LET s    == Suffix(text, k)
      next == means[Len(Behind(s))][OffsetBehind(s, o)]
  IN  IF Complete(s)
      THEN [done |-> Executed(s, o) \o next.done,
            good |-> next.good /\ Len(s) - Len(Behind(s)) <= Capacity]
      ELSE [done |-> << >>, good |-> s = << >>]

Means(means, text, n) ==
  means = [k \in 0 .. n |-> [o \in Point |-> MeansOf(means, text, k, o)]]

LEMMA MeansOfType ==
  ASSUME NEW text \in Seq(Byte), IsLines(text), NEW k \in 0 .. Len(text),
         NEW o \in Point, NEW f, \A j \in 0 .. k - 1 : f[j] \in [Point -> Meant]
  PROVE  MeansOf(f, text, k, o) \in Meant
  <1> PICK s : s = Suffix(text, k)
    OBVIOUS
  <1>1. s \in Seq(Byte) /\ Len(s) = k /\ IsLines(s)
    BY SuffixIs
  <1>2. CASE Complete(s)
    <2> PICK j, p : j = Len(Behind(s)) /\ p = OffsetBehind(s, o)
      OBVIOUS
    <2>1. j \in 0 .. k - 1 /\ p \in Point /\ Executed(s, o) \in Seq(Command)
      BY <1>1, <1>2, BehindIs
    <2> PICK next : next = f[j][p]
      OBVIOUS
    <2>2. next \in Meant
      BY <2>1
    <2> PICK fits : fits = (next.good /\ Len(s) - Len(Behind(s)) <= Capacity)
      OBVIOUS
    <2>3. fits \in BOOLEAN
      BY Zenon
    <2>4. MeansOf(f, text, k, o) = [done |-> Executed(s, o) \o next.done, good |-> fits]
      BY <1>2, Zenon DEF MeansOf
    <2>5. next.done \in Seq(Command)
      BY <2>2 DEF Meant
    <2>6. Executed(s, o) \o next.done \in Seq(Command)
      BY <2>1, <2>5, ConcatProperties
    <2> QED
      BY <2>3, <2>4, <2>6 DEF Meant
  <1>3. CASE ~Complete(s)
    <2> PICK empty : empty = (s = << >>)
      OBVIOUS
    <2>1. empty \in BOOLEAN
      BY Zenon
    <2>2. MeansOf(f, text, k, o) = [done |-> << >>, good |-> empty]
      BY <1>3, Zenon DEF MeansOf
    <2> QED
      BY <2>1, <2>2 DEF Meant
  <1> QED
    BY <1>2, <1>3

LEMMA MeansOfSame ==
  ASSUME NEW text \in Seq(Byte), IsLines(text), NEW k \in 0 .. Len(text),
         NEW o \in Point, NEW f, NEW g, \A j \in 0 .. k - 1 : f[j] = g[j]
  PROVE  MeansOf(f, text, k, o) = MeansOf(g, text, k, o)
  <1> PICK s : s = Suffix(text, k)
    OBVIOUS
  <1>1. s \in Seq(Byte) /\ Len(s) = k /\ IsLines(s)
    BY SuffixIs
  <1>2. Complete(s) => Len(Behind(s)) \in 0 .. k - 1
    BY <1>1, BehindIs
  <1>3. Complete(s) => f[Len(Behind(s))] = g[Len(Behind(s))]
    BY <1>2
  <1> QED
    BY <1>3, Zenon DEF MeansOf

LEMMA MeansGrows ==
  ASSUME NEW text \in Seq(Byte), IsLines(text), NEW m \in Nat, m <= Len(text),
         NEW g, m > 0 => Means(g, text, m - 1)
  PROVE  \E f : Means(f, text, m)
  <1>1. Len(text) \in Nat
    BY Lengths
  <1> PICK f : f = [k \in 0 .. m |-> [o \in Point |-> MeansOf(g, text, k, o)]]
    OBVIOUS
  <1>2. \A k \in 0 .. m : f[k] = [o \in Point |-> MeansOf(g, text, k, o)]
    OBVIOUS
  <1>3. ASSUME NEW k \in 0 .. m - 1 PROVE f[k] = g[k]
    <2>1. m > 0 /\ k \in 0 .. m
      OBVIOUS
    <2>2. g = [j \in 0 .. m - 1 |-> [o \in Point |-> MeansOf(g, text, j, o)]]
      BY <2>1 DEF Means
    <2>3. g[k] = [o \in Point |-> MeansOf(g, text, k, o)]
      BY <2>2, Zenon
    <2> QED
      BY <1>2, <2>1, <2>3
  <1>4. ASSUME NEW k \in 0 .. m, NEW o \in Point
        PROVE  MeansOf(g, text, k, o) = MeansOf(f, text, k, o)
    <2>1. k \in 0 .. Len(text) /\ \A j \in 0 .. k - 1 : j \in 0 .. m - 1
      BY <1>1
    <2>2. \A j \in 0 .. k - 1 : g[j] = f[j]
      BY <1>3, <2>1
    <2>3. text \in Seq(Byte) /\ IsLines(text) /\ o \in Point
      OBVIOUS
    <2> QED
      BY <2>1, <2>2, <2>3, MeansOfSame
  <1>5. f = [k \in 0 .. m |-> [o \in Point |-> MeansOf(f, text, k, o)]]
    BY <1>4
  <1> QED
    BY <1>5 DEF Means

LEMMA MeansExists ==
  ASSUME NEW text \in Seq(Byte), IsLines(text), NEW n \in 0 .. Len(text)
  PROVE  \E f : Means(f, text, n)
  <1>1. Len(text) \in Nat
    BY Lengths
  <1> DEFINE T == {m \in 0 .. n : ~\E f : Means(f, text, m)}
  <1>2. ASSUME NEW m \in T, \A j \in T : m <= j PROVE FALSE
    <2>1. /\ m \in 0 .. n /\ m \in 0 .. Len(text) /\ m \in Nat /\ m <= Len(text)
          /\ ~\E f : Means(f, text, m)
      BY <1>1
    <2>2. \E g : m > 0 => Means(g, text, m - 1)
      <3>1. CASE m = 0
        BY <3>1
      <3>2. CASE m > 0
        <4>1. m - 1 \in 0 .. n /\ m - 1 \notin T
          BY <1>2, <2>1, <3>2
        <4> QED
          BY <3>2, <4>1
      <3> QED
        BY <2>1, <3>1, <3>2
    <2> QED
      BY <2>1, <2>2, MeansGrows
  <1>3. T = {}
    <2>1. T \subseteq Nat
      OBVIOUS
    <2> HIDE DEF T
    <2> QED
      BY <1>2, <2>1, LeastElement
  <1>4. n \in 0 .. n
    BY <1>1
  <1> QED
    BY <1>3, <1>4

LEMMA MeaningsIs ==
  ASSUME NEW text \in Seq(Byte), IsLines(text)
  PROVE  \A k \in 0 .. Len(text) :
           /\ Meanings(text)[k] \in [Point -> Meant]
           /\ \A o \in Point : Meanings(text)[k][o] = MeansOf(Meanings(text), text, k, o)
  <1>1. Len(text) \in Nat /\ Len(text) \in 0 .. Len(text)
    BY Lengths
  <1> PICK f : f = Meanings(text)
    OBVIOUS
  <1>2. f = CHOOSE means : Means(means, text, Len(text))
    BY Zenon DEF Meanings, Means, MeansOf
  <1>3. Means(f, text, Len(text))
    BY <1>1, <1>2, MeansExists
  <1>4. ASSUME NEW k \in 0 .. Len(text)
        PROVE  f[k] = [o \in Point |-> MeansOf(f, text, k, o)]
    <2>1. f = [j \in 0 .. Len(text) |-> [o \in Point |-> MeansOf(f, text, j, o)]]
      BY <1>3 DEF Means
    <2> QED
      BY <2>1, Zenon
  <1> DEFINE T == {k \in 0 .. Len(text) : f[k] \notin [Point -> Meant]}
  <1>5. ASSUME NEW k \in T, \A j \in T : k <= j PROVE FALSE
    <2>1. k \in 0 .. Len(text) /\ f[k] \notin [Point -> Meant]
      OBVIOUS
    <2>2. \A j \in 0 .. k - 1 : j \in 0 .. Len(text) /\ ~(k <= j)
      BY <1>1, <2>1
    <2>3. \A j \in 0 .. k - 1 : f[j] \in [Point -> Meant]
      BY <1>5, <2>2
    <2>4. \A o \in Point : MeansOf(f, text, k, o) \in Meant
      BY <2>1, <2>3, MeansOfType
    <2>5. f[k] = [o \in Point |-> MeansOf(f, text, k, o)]
      BY <1>4, <2>1
    <2> QED
      BY <2>1, <2>4, <2>5
  <1>6. T = {}
    <2>1. T \subseteq Nat
      BY <1>1
    <2> HIDE DEF T
    <2> QED
      BY <1>5, <2>1, LeastElement
  <1> QED
    BY <1>4, <1>6

(* First cmds, then what next means.                                       *)
Before(cmds, next) == cmds \o next.done

LEMMA MeaningIfComplete ==
  ASSUME NEW text \in Seq(Byte), IsLines(text), NEW k \in 0 .. Len(text), NEW o \in Point,
         NEW s, s = Suffix(text, k), Complete(s),
         NEW next, next = Meanings(text)[Len(Behind(s))][OffsetBehind(s, o)]
  PROVE  /\ Meanings(text)[k][o].done = Before(Executed(s, o), next)
         /\ Meanings(text)[k][o].good <=> next.good /\ Len(s) - Len(Behind(s)) <= Capacity
  <1> PICK fits : fits = (next.good /\ Len(s) - Len(Behind(s)) <= Capacity)
    OBVIOUS
  <1> PICK here, all : here = Meanings(text)[k][o] /\ all = Before(Executed(s, o), next)
    OBVIOUS
  <1>1. here = MeansOf(Meanings(text), text, k, o)
    BY MeaningsIs
  <1>2. here = [done |-> all, good |-> fits]
    BY <1>1, Zenon DEF MeansOf, Before
  <1>3. here.done = all /\ here.good = fits
    BY <1>2
  <1> QED
    BY <1>3, Zenon

LEMMA MeaningIfIncomplete ==
  ASSUME NEW text \in Seq(Byte), IsLines(text), NEW k \in 0 .. Len(text), NEW o \in Point,
         ~Complete(Suffix(text, k))
  PROVE  /\ Meanings(text)[k][o].done = << >>
         /\ Meanings(text)[k][o].good <=> Suffix(text, k) = << >>
  <1> PICK empty : empty = (Suffix(text, k) = << >>)
    OBVIOUS
  <1> PICK here : here = Meanings(text)[k][o]
    OBVIOUS
  <1>1. here = MeansOf(Meanings(text), text, k, o)
    BY MeaningsIs
  <1>2. here = [done |-> << >>, good |-> empty]
    BY <1>1, Zenon DEF MeansOf
  <1>3. here.done = << >> /\ here.good = empty
    BY <1>2
  <1> QED
    BY <1>3, Zenon

(* White space in front of a text means nothing.                           *)
LEMMA LeadingWhiteSpace ==
  ASSUME NEW text \in Seq(Byte), IsLines(text), NEW k \in 1 .. Len(text), NEW o \in Point,
         NEW s, s = Suffix(text, k),
         NEW q \in 2 .. k + 1, SkipsTo(s, 1, q),
         NEW next, next = Meanings(text)[k + 1 - q][o]
  PROVE  /\ Meanings(text)[k][o].done = next.done
         /\ Meanings(text)[k][o].good <=> next.good /\ q - 1 <= Capacity
  <1>1. k \in 0 .. Len(text) /\ k \in Nat /\ q \in Nat /\ Len(text) \in Nat
    BY Lengths
  <1>2. s \in Seq(Byte) /\ Len(s) = k /\ IsLines(s)
    BY <1>1, SuffixIs
  <1>3. s[1] \in WhiteSpace
    BY <1>1 DEF SkipsTo
  <1>4. Unknown(s)
    <2>1. ASSUME NEW verb \in Verbs, Begins(verb, s) PROVE FALSE
      <3>1. 1 \in 1 .. Len(verb)
        BY VerbFacts
      <3>2. s[1] = verb[1] /\ verb[1] \notin WhiteSpace
        BY <1>2, <2>1, <3>1, BeginsIs, VerbFacts
      <3> QED
        BY <1>3, <3>2
    <2> QED
      BY <2>1, UnknownIs
  <1>5. TokenLength(s, 1) = 0
    <2>1. IsToken(s, 1, 0)
      BY <1>1, <1>2, <1>3, NumberAssumption DEF IsToken
    <2> QED
      BY <1>1, <1>2, <2>1, TokenIsUnique
  <1>6. s # << >>
    BY <1>1, <1>2, EmptySeq
  <1>7. /\ Complete(s) /\ ~Begins(PX, s) /\ ~Begins(SIZE, s) /\ ~Begins(OFFSET, s)
    BY <1>4, <1>5, <1>6, FirstUnknown
  <1>8. FirstEnd(s) = 1
    BY <1>5, <1>7 DEF FirstEnd
  <1>9. SkipWhiteSpace(s, 1) = q
    BY <1>1, <1>2, SkipIsUnique
  <1>10. Len(Behind(s)) = k + 1 - q
    BY <1>2, <1>7, <1>8, <1>9, BehindIs
  <1>11. Executed(s, o) = << >> /\ OffsetBehind(s, o) = o
    BY <1>7 DEF Executed, OffsetBehind
  <1>12. k + 1 - q \in 0 .. Len(text)
    BY <1>1
  <1>13. next.done \in Seq(Command)
    <2>1. next \in Meant
      BY <1>12, MeaningsIs
    <2> QED
      BY <2>1 DEF Meant
  <1>14. next = Meanings(text)[Len(Behind(s))][OffsetBehind(s, o)]
    BY <1>10, <1>11
  <1>15. /\ Meanings(text)[k][o].done = Before(Executed(s, o), next)
         /\ Meanings(text)[k][o].good <=> next.good /\ Len(s) - Len(Behind(s)) <= Capacity
    <2>1. /\ text \in Seq(Byte) /\ IsLines(text) /\ k \in 0 .. Len(text) /\ o \in Point
          /\ s = Suffix(text, k) /\ Complete(s)
      BY <1>1, <1>7
    <2> QED
      BY <1>14, <2>1, MeaningIfComplete, Zenon
  <1>16. << >> \o next.done = next.done
    BY <1>13, ConcatEmptySeq
  <1>17. Len(s) - Len(Behind(s)) = q - 1
    BY <1>1, <1>2, <1>10
  <1>18. Before(Executed(s, o), next) = next.done
    BY <1>11, <1>16 DEF Before
  <1> QED
    BY <1>15, <1>17, <1>18

(* If t goes on with white space where s ends, the rest u of t begins with *)
(* it.                                                                     *)
LEMMA RestBegins ==
  ASSUME NEW n \in Nat, NEW k \in Nat, n < k, NEW f \in 1 .. n + 1, NEW r \in n + 2 .. k + 1,
         NEW t \in Seq(Byte), Len(t) = k, SkipsTo(t, f, r),
         NEW u \in Seq(Byte), Len(u) = k - n, \A i \in 1 .. k - n : u[i] = t[n + i]
  PROVE  SkipsTo(u, 1, r - n)
  <1>1. ASSUME NEW i \in 1 .. r - n - 1 PROVE u[i] \in WhiteSpace
    <2>1. i \in 1 .. k - n /\ n + i \in f .. r - 1
      OBVIOUS
    <2>2. t[n + i] \in WhiteSpace
      BY <2>1 DEF SkipsTo
    <2> QED
      BY <2>1, <2>2
  <1>2. ASSUME r - n <= k - n PROVE u[r - n] \notin WhiteSpace
    <2>1. r - n \in 1 .. k - n /\ n + (r - n) = r /\ r <= k
      BY <1>2
    <2>2. t[r] \notin WhiteSpace
      BY <2>1 DEF SkipsTo
    <2> QED
      BY <2>1, <2>2
  <1>3. r - n \in 1 .. (k - n) + 1
    OBVIOUS
  <1> QED
    BY <1>1, <1>2, <1>3 DEF SkipsTo

SameDone(m, n) == m.done = n.done

(* So the parser may skip it now, or when it comes: n bytes of the last k  *)
(* have been received, and the first command ends in them, at f.           *)
LEMMA WhiteSpaceMayWait ==
  ASSUME NEW text \in Seq(Byte), IsLines(text), NEW k \in 1 .. Len(text), NEW p \in Point,
         NEW n \in Nat, n < k, NEW f \in Nat, 1 <= f, f <= n + 1,
         NEW r \in Nat, n + 1 < r, r <= k + 1, SkipsTo(Suffix(text, k), f, r),
         NEW last, last = Meanings(text)[k + 1 - r][p]
  PROVE  /\ SameDone(Meanings(text)[k - n][p], last)
         /\ last.good /\ r - 1 <= Capacity => Meanings(text)[k - n][p].good
  <1>1. Len(text) \in Nat /\ k \in 0 .. Len(text) /\ k \in Nat
    BY Lengths
  <1>2. PICK t : t = Suffix(text, k)
    OBVIOUS
  <1>3. PICK rest : rest = k - n
    OBVIOUS
  <1>4. PICK u : u = Suffix(text, rest)
    OBVIOUS
  <1>5. PICK d : d = r - n
    OBVIOUS
  <1>6. /\ t \in Seq(Byte) /\ Len(t) = k /\ \A i \in 1 .. k : t[i] = text[Len(text) - k + i]
    BY <1>1, <1>2, SuffixIs
  <1>7. rest \in 1 .. Len(text) /\ rest \in 0 .. Len(text)
    BY <1>1, <1>3
  <1>8. /\ u \in Seq(Byte) /\ Len(u) = rest
        /\ \A i \in 1 .. rest : u[i] = text[Len(text) - rest + i]
    BY <1>4, <1>7, SuffixIs
  <1>9. ASSUME NEW i \in 1 .. k - n PROVE u[i] = t[n + i]
    <2>1. /\ i \in 1 .. rest /\ n + i \in 1 .. k
          /\ Len(text) - k + (n + i) = Len(text) - rest + i
      BY <1>1, <1>3
    <2>2. u[i] = text[Len(text) - rest + i]
      BY <1>8, <2>1
    <2>3. t[n + i] = text[Len(text) - k + (n + i)]
      BY <1>6, <2>1
    <2> QED
      BY <2>1, <2>2, <2>3
  <1>10. SkipsTo(u, 1, d)
    <2>1. SkipsTo(t, f, r)
      BY <1>2
    <2>2. Len(u) = k - n
      BY <1>3, <1>8
    <2>3. f \in 1 .. n + 1 /\ r \in n + 2 .. k + 1
      BY <1>1
    <2>4. SkipsTo(u, 1, r - n)
      BY <1>1, <1>6, <1>8, <1>9, <2>1, <2>2, <2>3, RestBegins
    <2> QED
      BY <1>5, <2>4
  <1>11. d \in 2 .. rest + 1 /\ rest + 1 - d = k + 1 - r
    BY <1>1, <1>3, <1>5
  <1>12. last = Meanings(text)[rest + 1 - d][p]
    BY <1>11
  <1>13. /\ Meanings(text)[rest][p].done = last.done
         /\ Meanings(text)[rest][p].good <=> last.good /\ d - 1 <= Capacity
    BY <1>4, <1>7, <1>10, <1>11, <1>12, LeadingWhiteSpace
  <1>14. r - 1 <= Capacity => d - 1 <= Capacity
    <2>1. Capacity \in Int
      BY NumberAssumption
    <2> QED
      BY <1>1, <1>5, <2>1
  <1>15. SameDone(Meanings(text)[rest][p], last)
    BY <1>13 DEF SameDone
  <1> QED
    BY <1>3, <1>13, <1>14, <1>15

(* What executing the first command of s does to what is still to come:    *)
(* s is the part in the ring of the last k bytes of the text.              *)
Leaves(text, k, o, s, rest, p) ==
  /\ rest \in 0 .. Len(text) /\ rest = k - Len(s) + Len(Behind(s)) /\ p = OffsetBehind(s, o)
  /\ Meanings(text)[k][o].done = Before(Executed(s, o), Meanings(text)[rest][p])
  /\ Meanings(text)[k][o].good => Meanings(text)[rest][p].good

LEMMA Consumed ==
  ASSUME NEW text \in Seq(Byte), IsLines(text), NEW k \in 0 .. Len(text), NEW o \in Point,
         NEW s, IsCut(s, Suffix(text, k)), Complete(s)
  PROVE  \E rest, p : Leaves(text, k, o, s, rest, p)
  <1>1. PICK t : t = Suffix(text, k)
    OBVIOUS
  <1>2. PICK n : n = Len(s)
    OBVIOUS
  <1>3. t \in Seq(Byte) /\ Len(t) = k /\ IsLines(t)
    BY <1>1, SuffixIs
  <1>4. IsCut(s, t)
    BY <1>1
  <1>5. s \in Seq(Byte) /\ n \in Nat /\ n <= k /\ k \in Nat /\ Len(text) \in Nat
    BY <1>2, <1>3, <1>4, Lengths DEF IsCut
  <1>6. PICK f : f = FirstEnd(s)
    OBVIOUS
  <1>p. PICK p : p = OffsetBehind(s, o)
    OBVIOUS
  <1>rest. PICK rest : rest = k - Len(s) + Len(Behind(s))
    OBVIOUS
  <1>7. /\ Complete(t) /\ FirstEnd(t) = f /\ f \in 1 .. n + 1 /\ SkipWhiteSpace(s, f) > 1
        /\ Executed(t, o) = Executed(s, o) /\ p \in Point /\ OffsetBehind(t, o) = p
    <2>1. SameFirst(s, t, f)
      BY <1>3, <1>4, <1>6, FirstCut
    <2> QED
      BY <1>2, <1>p, <2>1 DEF SameFirst
  <1>8. PICK q : q = SkipWhiteSpace(s, f)
    OBVIOUS
  <1>9. PICK r : r = SkipWhiteSpace(t, f)
    OBVIOUS
  <1>10. /\ SkipsTo(s, f, q) /\ SkipsTo(t, f, r)
         /\ (q <= n => r = q) /\ q <= r /\ (r <= n + 1 => r = q)
    BY <1>2, <1>4, <1>7, <1>8, <1>9, SkipCut
  <1>11. q \in Nat /\ r \in Nat /\ q > 1 /\ q <= n + 1 /\ r <= k + 1
    <2>1. q \in f .. n + 1 /\ r \in f .. k + 1 /\ q > 1
      BY <1>2, <1>3, <1>7, <1>8, <1>10 DEF SkipsTo
    <2>2. f \in Nat
      BY <1>5, <1>7
    <2> QED
      BY <1>5, <2>1, <2>2
  <1>12. Len(Behind(s)) = n - q + 1
    <2>1. q \in 1 .. Len(s) + 1
      BY <1>2, <1>5, <1>11
    <2> QED
      BY <1>2, <1>5, <1>6, <1>8, <2>1, RestIs DEF Behind
  <1>13. Len(Behind(t)) = k + 1 - r
    BY <1>3, <1>7, <1>9, BehindIs
  <1>14. rest = k + 1 - q /\ rest \in 0 .. Len(text)
    BY <1>2, <1>5, <1>11, <1>12, <1>rest
  <1>15. PICK last : last = Meanings(text)[k + 1 - r][p]
    OBVIOUS
  <1>16. /\ Meanings(text)[k][o].done = Before(Executed(s, o), last)
         /\ Meanings(text)[k][o].good => last.good /\ r - 1 <= Capacity
    <2>1. last = Meanings(text)[Len(Behind(t))][OffsetBehind(t, o)]
      BY <1>7, <1>13, <1>15
    <2>2. /\ Meanings(text)[k][o].done = Before(Executed(t, o), last)
          /\ Meanings(text)[k][o].good <=> last.good /\ Len(t) - Len(Behind(t)) <= Capacity
      <3>1. /\ text \in Seq(Byte) /\ IsLines(text) /\ k \in 0 .. Len(text) /\ o \in Point
            /\ t = Suffix(text, k) /\ Complete(t)
        BY <1>1, <1>7
      <3> QED
        BY <2>1, <3>1, MeaningIfComplete
    <2>3. Len(t) - Len(Behind(t)) = r - 1
      BY <1>3, <1>5, <1>11, <1>13
    <2> QED
      BY <1>7, <2>2, <2>3
  <1>17. ASSUME r = q
         PROVE  /\ Meanings(text)[k][o].done = Before(Executed(s, o), Meanings(text)[rest][p])
                /\ Meanings(text)[k][o].good => Meanings(text)[rest][p].good
    BY <1>14, <1>15, <1>16, <1>17
  <1>18. ASSUME r # q
         PROVE  /\ Meanings(text)[k][o].done = Before(Executed(s, o), Meanings(text)[rest][p])
                /\ Meanings(text)[k][o].good => Meanings(text)[rest][p].good
    <2>1. q = n + 1 /\ n < k /\ rest = k - n /\ r \in n + 2 .. k + 1 /\ k \in 1 .. Len(text)
      <3>1. q = n + 1 /\ r > n + 1
        BY <1>5, <1>10, <1>11, <1>18
      <3> QED
        BY <1>5, <1>11, <1>14, <3>1
    <2>2. SkipsTo(Suffix(text, k), f, r)
      BY <1>1, <1>10
    <2>3. /\ SameDone(Meanings(text)[k - n][p], last)
          /\ last.good /\ r - 1 <= Capacity => Meanings(text)[k - n][p].good
      <3>1. n \in Nat /\ n < k /\ f \in Nat /\ 1 <= f /\ f <= n + 1 /\ p \in Point
        BY <1>5, <1>7, <2>1
      <3>2. /\ text \in Seq(Byte) /\ IsLines(text) /\ k \in 1 .. Len(text)
            /\ r \in Nat /\ n + 1 < r /\ r <= k + 1
        BY <1>5, <1>11, <2>1
      <3> QED
        BY <1>15, <2>2, <3>1, <3>2, WhiteSpaceMayWait
    <2>4. Before(Executed(s, o), last) = Before(Executed(s, o), Meanings(text)[k - n][p])
      BY <2>3 DEF Before, SameDone
    <2> QED
      BY <1>14, <1>16, <2>1, <2>3, <2>4
  <1>19. /\ Meanings(text)[k][o].done = Before(Executed(s, o), Meanings(text)[rest][p])
         /\ Meanings(text)[k][o].good => Meanings(text)[rest][p].good
    BY <1>17, <1>18
  <1> QED
    BY <1>14, <1>19, <1>p, <1>rest DEF Leaves

-----------------------------------------------------------------------------
(* On track: the ring holds the part u of what is not parsed of the text,  *)
(* r bytes of which have been received, and when d has been executed, what *)
(* is not parsed means the rest of what the text means.                    *)

NotParsed(text, r, u) == Len(text) - r + Len(u)

OnTrack(text, r, u, o, d) ==
  /\ NotParsed(text, r, u) \in 0 .. Len(text)
  /\ IsCut(u, Suffix(text, NotParsed(text, r, u)))
  /\ Before(d, Meanings(text)[NotParsed(text, r, u)][o]) = Meaning(text).done

Good(text, r, u, o) == Meanings(text)[NotParsed(text, r, u)][o].good

LEMMA NothingIsIncomplete == ~Complete(<< >>)
  <1>1. << >> \in Seq(Byte)
    OBVIOUS
  <1>2. \A verb \in Verbs : ~Begins(verb, << >>)
    BY <1>1, BeginsIs
  <1>3. Unknown(<< >>)
    BY <1>2, UnknownIs
  <1> QED
    BY <1>3, FirstUnknown

LEMMA NoOffsetIs == NoOffset \in Point
  BY NumberAssumption DEF NoOffset, Point, Coordinate

LEMMA OnTrackAtFirst ==
  ASSUME NEW text \in Seq(Byte), IsLines(text)
  PROVE  /\ OnTrack(text, 0, << >>, NoOffset, << >>)
         /\ Meaning(text).good => Good(text, 0, << >>, NoOffset)
  <1>1. PICK n : n = Len(text)
    OBVIOUS
  <1>2. n \in Nat /\ n \in 0 .. n
    BY <1>1, Lengths
  <1>3. Len(<< >>) = 0 /\ << >> \in Seq(Byte)
    OBVIOUS
  <1>4. NotParsed(text, 0, << >>) = n
    BY <1>1, <1>2, <1>3 DEF NotParsed
  <1>5. NoOffset \in Point
    BY NoOffsetIs
  <1>6. PICK next : next = Meanings(text)[n][NoOffset]
    OBVIOUS
  <1>7. next \in Meant
    BY <1>1, <1>2, <1>5, <1>6, MeaningsIs
  <1>8. Meaning(text) = next
    BY <1>1, <1>6 DEF Meaning
  <1>9. Before(<< >>, next) = next.done
    <2>1. next.done \in Seq(Command)
      BY <1>7 DEF Meant
    <2> QED
      BY <2>1, ConcatEmptySeq DEF Before
  <1>10. IsCut(<< >>, Suffix(text, n))
    <2>1. Suffix(text, n) \in Seq(Byte) /\ Len(Suffix(text, n)) = n
      BY <1>1, <1>2, SuffixIs
    <2> QED
      BY <1>2, <1>3, <2>1 DEF IsCut
  <1>11. OnTrack(text, 0, << >>, NoOffset, << >>)
    <2>1. Before(<< >>, Meanings(text)[n][NoOffset]) = Meaning(text).done
      BY <1>6, <1>8, <1>9
    <2> QED
      BY <1>1, <1>2, <1>4, <1>10, <2>1 DEF OnTrack
  <1>12. Meaning(text).good => Good(text, 0, << >>, NoOffset)
    BY <1>4, <1>6, <1>8 DEF Good
  <1> QED
    BY <1>11, <1>12

(* What the ring holds when n bytes more have been received.               *)
LEMMA ReceivedIs ==
  ASSUME NEW text \in Seq(Byte), NEW r \in 0 .. Len(text), NEW u \in Seq(Byte),
         NEW n \in Nat, r + n <= Len(text)
  PROVE  /\ u \o SubSeq(text, r + 1, r + n) \in Seq(Byte)
         /\ Len(u \o SubSeq(text, r + 1, r + n)) = Len(u) + n
  <1>1. PICK m : m = SubSeq(text, r + 1, r + n)
    OBVIOUS
  <1>2. /\ r + 1 \in Int /\ r + n \in Int /\ r \in Nat
        /\ \A i \in r + 1 .. r + n : text[i] \in Byte
    BY Lengths
  <1>3. /\ m \in Seq(Byte)
        /\ Len(m) = IF r + 1 <= r + n THEN (r + n) - (r + 1) + 1 ELSE 0
    BY <1>1, <1>2, SubSeqProperties
  <1>4. Len(m) = n
    BY <1>2, <1>3
  <1> QED
    BY <1>1, <1>3, <1>4, ConcatProperties

(* Receiving more does not change what is not parsed.                      *)
LEMMA OnTrackReceiving ==
  ASSUME NEW text \in Seq(Byte), NEW r \in 0 .. Len(text), NEW u, NEW o, NEW d,
         OnTrack(text, r, u, o, d),
         NEW n \in Nat, r + n <= Len(text)
  PROVE  \E v \in Seq(Byte) :
           /\ v = u \o SubSeq(text, r + 1, r + n) /\ Len(v) = Len(u) + n
           /\ OnTrack(text, r + n, v, o, d)
           /\ Good(text, r, u, o) => Good(text, r + n, v, o)
  <1>1. PICK k : k = NotParsed(text, r, u)
    OBVIOUS
  <1>2. PICK m : m = SubSeq(text, r + 1, r + n)
    OBVIOUS
  <1>3. Len(text) \in Nat /\ r \in Nat /\ \A i \in 1 .. Len(text) : text[i] \in Byte
    BY Lengths
  <1>4. \A i \in r + 1 .. r + n : text[i] \in Byte
    BY <1>3
  <1>5. m \in Seq(Byte) /\ Len(m) = n /\ \A i \in 1 .. n : m[i] = text[r + i]
    <2>1. r + 1 \in Int /\ r + n \in Int
      BY <1>3
    <2>2. /\ m \in Seq(Byte)
          /\ Len(m) = IF r + 1 <= r + n THEN (r + n) - (r + 1) + 1 ELSE 0
          /\ \A i \in 1 .. (r + n) - (r + 1) + 1 : m[i] = text[(r + 1) + i - 1]
      BY <1>2, <1>4, <2>1, SubSeqProperties
    <2>3. \A i \in 1 .. n : (r + 1) + i - 1 = r + i /\ i \in 1 .. (r + n) - (r + 1) + 1
      BY <1>3
    <2>4. Len(m) = n
      BY <1>3, <2>2
    <2>5. \A i \in 1 .. n : m[i] = text[r + i]
      BY <2>2, <2>3
    <2> QED
      BY <2>2, <2>4, <2>5
  <1>6. k \in 0 .. Len(text) /\ IsCut(u, Suffix(text, k)) /\ k = Len(text) - r + Len(u)
    BY <1>1 DEF OnTrack, NotParsed
  <1>7. PICK t : t = Suffix(text, k)
    OBVIOUS
  <1>8. /\ t \in Seq(Byte) /\ Len(t) = k /\ \A i \in 1 .. k : t[i] = text[Len(text) - k + i]
    BY <1>6, <1>7, SuffixIs
  <1>9. u \in Seq(Byte) /\ Len(u) \in Nat /\ \A i \in 1 .. Len(u) : u[i] = t[i]
    BY <1>6, <1>7, Lengths DEF IsCut
  <1>v. PICK v : v = u \o m
    OBVIOUS
  <1>10. /\ v \in Seq(Byte) /\ Len(v) = Len(u) + n
         /\ \A i \in 1 .. Len(u) + n : v[i] = IF i <= Len(u) THEN u[i] ELSE m[i - Len(u)]
    BY <1>5, <1>9, <1>v, ConcatProperties
  <1>11. NotParsed(text, r + n, v) = k
    BY <1>3, <1>6, <1>9, <1>10 DEF NotParsed
  <1>12. ASSUME NEW i \in 1 .. Len(v) PROVE v[i] = t[i]
    <2>1. i \in 1 .. Len(u) + n /\ i \in Int
      BY <1>9, <1>10
    <2>2. CASE i <= Len(u)
      <3>1. i \in 1 .. Len(u)
        BY <1>9, <2>1, <2>2
      <3>2. v[i] = u[i]
        BY <1>10, <2>1, <2>2
      <3> QED
        BY <1>9, <3>1, <3>2
    <2>3. CASE ~(i <= Len(u))
      <3>1. /\ i - Len(u) \in 1 .. n /\ i \in 1 .. k
            /\ r + (i - Len(u)) = Len(text) - k + i
        BY <1>3, <1>6, <1>9, <2>1, <2>3
      <3>2. v[i] = m[i - Len(u)]
        BY <1>10, <2>1, <2>3
      <3>3. m[i - Len(u)] = text[r + (i - Len(u))]
        BY <1>5, <3>1
      <3>4. t[i] = text[Len(text) - k + i]
        BY <1>8, <3>1
      <3> QED
        BY <3>1, <3>2, <3>3, <3>4
    <2> QED
      BY <2>2, <2>3
  <1>13. IsCut(v, t)
    <2>1. Len(v) <= k
      BY <1>3, <1>6, <1>9, <1>10
    <2> QED
      BY <1>8, <1>10, <1>12, <2>1 DEF IsCut
  <1>14. OnTrack(text, r + n, v, o, d)
    <2>1. Before(d, Meanings(text)[k][o]) = Meaning(text).done
      BY <1>1 DEF OnTrack
    <2> QED
      BY <1>6, <1>7, <1>11, <1>13, <2>1 DEF OnTrack
  <1>15. Good(text, r, u, o) => Good(text, r + n, v, o)
    BY <1>1, <1>11 DEF Good
  <1> QED
    BY <1>2, <1>10, <1>14, <1>15, <1>v

(* Nor does executing a command change what is meant altogether.           *)
LEMMA OnTrackExecuting ==
  ASSUME NEW text \in Seq(Byte), IsLines(text), NEW r \in 0 .. Len(text), NEW u,
         NEW o \in Point, NEW d \in Seq(Command),
         OnTrack(text, r, u, o, d), Complete(u)
  PROVE  /\ OnTrack(text, r, Behind(u), OffsetBehind(u, o), d \o Executed(u, o))
         /\ Good(text, r, u, o) => Good(text, r, Behind(u), OffsetBehind(u, o))
         /\ Behind(u) \in Seq(Byte) /\ Len(Behind(u)) < Len(u)
         /\ OffsetBehind(u, o) \in Point /\ d \o Executed(u, o) \in Seq(Command)
  <1>1. PICK k : k = NotParsed(text, r, u)
    OBVIOUS
  <1>2. k \in 0 .. Len(text) /\ IsCut(u, Suffix(text, k)) /\ k = Len(text) - r + Len(u)
    BY <1>1 DEF OnTrack, NotParsed
  <1>3. PICK t : t = Suffix(text, k)
    OBVIOUS
  <1>4. /\ t \in Seq(Byte) /\ Len(t) = k /\ IsLines(t)
        /\ \A i \in 1 .. k : t[i] = text[Len(text) - k + i]
    BY <1>2, <1>3, SuffixIs
  <1>5. PICK n : n = Len(u)
    OBVIOUS
  <1>6. /\ u \in Seq(Byte) /\ n \in Nat /\ n <= k /\ \A i \in 1 .. n : u[i] = t[i]
        /\ IsCut(u, t) /\ Len(text) \in Nat /\ k \in Nat /\ r \in Nat
    BY <1>2, <1>3, <1>4, <1>5, Lengths DEF IsCut
  <1>7. IsLines(u)
    <2>1. ASSUME NEW i \in 1 .. n - 1, u[i] \in NewLine PROVE u[i + 1] \notin Blank
      <3>1. i \in 1 .. k - 1 /\ i \in 1 .. n /\ i + 1 \in 1 .. n
        BY <1>6
      <3>2. u[i] = t[i] /\ u[i + 1] = t[i + 1]
        BY <1>6, <3>1
      <3> QED
        BY <1>4, <2>1, <3>1, <3>2 DEF IsLines
    <2> QED
      BY <1>5, <2>1 DEF IsLines
  <1>8. PICK q : q = SkipWhiteSpace(u, FirstEnd(u))
    OBVIOUS
  <1>9. PICK b : b = Behind(u)
    OBVIOUS
  <1>10. /\ q \in 2 .. n + 1 /\ b \in Seq(Byte) /\ Len(b) = n + 1 - q
         /\ OffsetBehind(u, o) \in Point /\ Executed(u, o) \in Seq(Command)
    BY <1>5, <1>6, <1>7, <1>8, <1>9, BehindIs
  <1>11. PICK p : p = OffsetBehind(u, o)
    OBVIOUS
  <1>12. PICK rest : rest = k + 1 - q
    OBVIOUS
  <1>13. rest = k - n + Len(b) /\ rest = Len(text) - r + Len(b)
    BY <1>2, <1>5, <1>6, <1>10, <1>12, SMTT(30)
  <1>14. /\ rest \in 0 .. Len(text)
         /\ Meanings(text)[k][o].done = Before(Executed(u, o), Meanings(text)[rest][p])
         /\ Meanings(text)[k][o].good => Meanings(text)[rest][p].good
    <2>1. PICK i, j : Leaves(text, k, o, u, i, j)
      BY <1>2, Consumed
    <2>2. i = rest /\ j = p
      BY <1>5, <1>9, <1>11, <1>13, <2>1 DEF Leaves
    <2> QED
      BY <2>1, <2>2 DEF Leaves
  <1>15. NotParsed(text, r, b) = rest
    BY <1>13 DEF NotParsed
  <1>16. IsCut(b, Suffix(text, rest))
    <2>1. PICK w : w = Suffix(text, rest)
      OBVIOUS
    <2>2. /\ w \in Seq(Byte) /\ Len(w) = rest
          /\ \A i \in 1 .. rest : w[i] = text[Len(text) - rest + i]
      BY <1>14, <2>1, SuffixIs
    <2>3. b = SubSeq(u, q, n)
      BY <1>5, <1>8, <1>9 DEF Behind
    <2>4. \A i \in 1 .. n - q + 1 : b[i] = u[q + i - 1]
      <3>1. q \in Int /\ n \in Int /\ \A i \in q .. n : u[i] \in Byte
        BY <1>5, <1>6, <1>10, Lengths
      <3> QED
        BY <2>3, <3>1, SubSeqProperties
    <2>5. ASSUME NEW i \in 1 .. Len(b) PROVE b[i] = w[i]
      <3>1. /\ i \in 1 .. n - q + 1 /\ q + i - 1 \in 1 .. n /\ q + i - 1 \in 1 .. k
            /\ i \in 1 .. rest /\ Len(text) - k + (q + i - 1) = Len(text) - rest + i
        BY <1>6, <1>10, <1>12
      <3>2. b[i] = u[q + i - 1] /\ u[q + i - 1] = t[q + i - 1]
        BY <1>6, <2>4, <3>1
      <3>3. t[q + i - 1] = text[Len(text) - k + (q + i - 1)]
        BY <1>4, <3>1
      <3>4. w[i] = text[Len(text) - rest + i]
        BY <2>2, <3>1
      <3> QED
        BY <3>1, <3>2, <3>3, <3>4
    <2>6. Len(b) <= rest
      BY <1>6, <1>10, <1>12
    <2> QED
      BY <1>10, <2>1, <2>2, <2>5, <2>6 DEF IsCut
  <1>17. Before(d \o Executed(u, o), Meanings(text)[rest][p]) = Meaning(text).done
    <2>1. PICK e : e = Executed(u, o)
      OBVIOUS
    <2>2. PICK next : next = Meanings(text)[rest][p]
      OBVIOUS
    <2>x. PICK x : x = next.done
      OBVIOUS
    <2>3. x \in Seq(Command) /\ e \in Seq(Command)
      <3>1. next \in Meant
        BY <1>10, <1>11, <1>14, <2>2, MeaningsIs
      <3> QED
        BY <1>10, <2>1, <2>x, <3>1 DEF Meant
    <2>4. d \o Meanings(text)[k][o].done = Meaning(text).done
      BY <1>1 DEF OnTrack, Before
    <2>5. Meanings(text)[k][o].done = e \o x
      BY <1>14, <2>1, <2>2, <2>x DEF Before
    <2>6. (d \o e) \o x = d \o (e \o x)
      BY <2>3, ConcatAssociative
    <2>7. Before(d \o e, next) = Meaning(text).done
      BY <2>4, <2>5, <2>6, <2>x DEF Before
    <2> QED
      BY <2>1, <2>2, <2>7
  <1>18. OnTrack(text, r, b, p, d \o Executed(u, o))
    BY <1>14, <1>15, <1>16, <1>17 DEF OnTrack
  <1>19. Good(text, r, u, o) => Good(text, r, b, p)
    BY <1>1, <1>14, <1>15 DEF Good
  <1>20. Len(b) < n /\ d \o Executed(u, o) \in Seq(Command)
    <2>1. Len(b) < n
      BY <1>6, <1>10
    <2> QED
      BY <1>10, <2>1, ConcatProperties
  <1> QED
    BY <1>5, <1>9, <1>10, <1>11, <1>18, <1>19, <1>20

(* A full ring without a complete command, or with a word that is none and *)
(* too long, is not the ring of a good client.                             *)
LEMMA FullIsBad ==
  ASSUME NEW text \in Seq(Byte), IsLines(text), NEW r, NEW u, NEW o \in Point, NEW d,
         OnTrack(text, r, u, o, d), ~Complete(u), Len(u) = Capacity
  PROVE  ~Good(text, r, u, o)
  <1>1. PICK k : k = NotParsed(text, r, u)
    OBVIOUS
  <1>2. PICK t : t = Suffix(text, k)
    OBVIOUS
  <1>3. k \in 0 .. Len(text) /\ IsCut(u, t)
    BY <1>1, <1>2 DEF OnTrack
  <1>4. t \in Seq(Byte) /\ Len(t) = k /\ IsLines(t) /\ k \in Nat
    BY <1>2, <1>3, SuffixIs
  <1>5. Len(u) \in Nat \ {0} /\ Len(u) <= k
    BY <1>3, <1>4, NumberAssumption DEF IsCut
  <1>6. SUFFICES ASSUME Meanings(text)[k][o].good PROVE FALSE
    BY <1>1 DEF Good
  <1>7. CASE Complete(t)
    <2>1. PICK next : next = Meanings(text)[Len(Behind(t))][OffsetBehind(t, o)]
      OBVIOUS
    <2>2. PICK q : q = SkipWhiteSpace(t, FirstEnd(t))
      OBVIOUS
    <2>3. Len(t) - Len(Behind(t)) <= Capacity
      BY <1>2, <1>3, <1>6, <1>7, <2>1, MeaningIfComplete
    <2>4. Len(Behind(t)) = k + 1 - q /\ q \in 2 .. k + 1
      BY <1>4, <1>7, <2>2, BehindIs
    <2>5. q <= Len(u) + 1
      BY <1>4, <1>5, <2>3, <2>4
    <2> QED
      BY <1>3, <1>4, <1>7, <2>2, <2>5, CompleteBack
  <1>8. CASE ~Complete(t)
    <2>1. t = << >>
      BY <1>2, <1>3, <1>6, <1>8, MeaningIfIncomplete
    <2> QED
      BY <1>4, <1>5, <2>1
  <1> QED
    BY <1>7, <1>8

LEMMA GarbageIsBad ==
  ASSUME NEW text \in Seq(Byte), IsLines(text), NEW r, NEW u, NEW o \in Point, NEW d,
         OnTrack(text, r, u, o, d), u # << >>,
         Unknown(u), TokenLength(u, 1) = Garbage
  PROVE  ~Good(text, r, u, o)
  <1>1. PICK k : k = NotParsed(text, r, u)
    OBVIOUS
  <1>2. PICK t : t = Suffix(text, k)
    OBVIOUS
  <1>3. k \in 0 .. Len(text) /\ IsCut(u, t)
    BY <1>1, <1>2 DEF OnTrack
  <1>4. ~Complete(t)
    BY <1>3, GarbageCut
  <1>5. t # << >>
    <2>1. u \in Seq(Byte) /\ Len(u) \in Nat /\ Len(u) <= Len(t)
      BY <1>3, Lengths DEF IsCut
    <2>2. Len(u) # 0
      BY <2>1, EmptySeq
    <2> QED
      BY <2>1, <2>2
  <1> QED
    BY <1>1, <1>2, <1>3, <1>4, <1>5, MeaningIfIncomplete DEF Good

(* With the whole text received and no command left, all is executed.      *)
LEMMA NothingIsLeft ==
  ASSUME NEW text \in Seq(Byte), IsLines(text), NEW u, NEW o \in Point,
         NEW d \in Seq(Command), OnTrack(text, Len(text), u, o, d), ~Complete(u)
  PROVE  d = Meaning(text).done
  <1>1. PICK k : k = NotParsed(text, Len(text), u)
    OBVIOUS
  <1>2. PICK t : t = Suffix(text, k)
    OBVIOUS
  <1>3. k \in 0 .. Len(text) /\ IsCut(u, t)
    BY <1>1, <1>2 DEF OnTrack
  <1>4. /\ u \in Seq(Byte) /\ t \in Seq(Byte) /\ Len(t) = k /\ Len(u) = k
        /\ \A i \in 1 .. k : u[i] = t[i]
    <2>1. Len(text) \in Nat /\ Len(u) \in Nat
      BY <1>3, Lengths DEF IsCut
    <2>2. k = Len(u)
      BY <1>1, <2>1 DEF NotParsed
    <2> QED
      BY <1>2, <1>3, <2>2, SuffixIs DEF IsCut
  <1>5. u = t
    BY <1>4, SeqEqual
  <1>6. PICK next : next = Meanings(text)[k][o]
    OBVIOUS
  <1>7. next.done = << >>
    BY <1>2, <1>3, <1>5, <1>6, MeaningIfIncomplete
  <1>8. d \o next.done = Meaning(text).done
    BY <1>1, <1>6 DEF OnTrack, Before
  <1>9. d \o << >> = d
    BY ConcatEmptySeq
  <1> QED
    BY <1>7, <1>8, <1>9

LEMMA PrefixIs ==
  ASSUME NEW S, NEW s \in Seq(S), NEW t \in Seq(S)
  PROVE  IsPrefix(s, t) <=> Len(s) <= Len(t) /\ \A k \in 1 .. Len(s) : s[k] = t[k]
  <1>1. PICK n : n = Len(s)
    OBVIOUS
  <1>2. /\ n \in Nat /\ Len(t) \in Nat /\ \A k \in 1 .. n : s[k] \in S
        /\ \A k \in 1 .. Len(t) : t[k] \in S
    BY <1>1, LenProperties, ElementOfSeq
  <1>3. ASSUME n <= Len(t)
        PROVE  SubSeq(s, 1, n) = SubSeq(t, 1, n) <=> \A k \in 1 .. n : s[k] = t[k]
    <2>1. PICK u : u = SubSeq(s, 1, n)
      OBVIOUS
    <2>2. PICK v : v = SubSeq(t, 1, n)
      OBVIOUS
    <2>3. \A k \in 1 .. n : t[k] \in S
      BY <1>2, <1>3
    <2>4. /\ u \in Seq(S) /\ Len(u) = IF 1 <= n THEN n - 1 + 1 ELSE 0
          /\ \A k \in 1 .. n - 1 + 1 : u[k] = s[1 + k - 1]
      BY <1>2, <2>1, SubSeqProperties
    <2>5. /\ v \in Seq(S) /\ Len(v) = IF 1 <= n THEN n - 1 + 1 ELSE 0
          /\ \A k \in 1 .. n - 1 + 1 : v[k] = t[1 + k - 1]
      BY <1>2, <2>2, <2>3, SubSeqProperties
    <2>6. Len(u) = n /\ Len(v) = n
      BY <1>2, <2>4, <2>5
    <2>7. \A k \in 1 .. n : u[k] = s[k] /\ v[k] = t[k]
      <3>1. \A k \in 1 .. n : 1 + k - 1 = k /\ k \in 1 .. n - 1 + 1
        BY <1>2
      <3> QED
        BY <2>4, <2>5, <3>1
    <2>8. ASSUME u = v PROVE \A k \in 1 .. n : s[k] = t[k]
      BY <2>7, <2>8
    <2>9. ASSUME \A k \in 1 .. n : s[k] = t[k] PROVE u = v
      <3>1. \A k \in 1 .. n : u[k] = v[k]
        BY <2>7, <2>9
      <3> QED
        BY <2>4, <2>5, <2>6, <3>1, SeqEqual
    <2> QED
      BY <2>1, <2>2, <2>8, <2>9
  <1> QED
    BY <1>1, <1>3 DEF IsPrefix

LEMMA PrefixOfPrefix ==
  ASSUME NEW S, NEW s \in Seq(S), NEW t \in Seq(S), NEW u \in Seq(S),
         IsPrefix(s, t), IsPrefix(t, u)
  PROVE  IsPrefix(s, u)
  <1>1. Len(s) <= Len(t) /\ \A k \in 1 .. Len(s) : s[k] = t[k]
    BY PrefixIs
  <1>2. Len(t) <= Len(u) /\ \A k \in 1 .. Len(t) : t[k] = u[k]
    BY PrefixIs
  <1>3. Len(s) \in Nat /\ Len(t) \in Nat /\ Len(u) \in Nat
    BY LenProperties
  <1>4. Len(s) <= Len(u) /\ \A k \in 1 .. Len(s) : s[k] = u[k]
    BY <1>1, <1>2, <1>3
  <1> QED
    BY <1>4, PrefixIs

LEMMA PrefixOfConcat ==
  ASSUME NEW S, NEW s \in Seq(S), NEW t \in Seq(S)
  PROVE  IsPrefix(s, s \o t)
  <1>1. PICK u : u = s \o t
    OBVIOUS
  <1>2. /\ u \in Seq(S) /\ Len(u) = Len(s) + Len(t)
        /\ \A i \in 1 .. Len(s) + Len(t) : u[i] = IF i <= Len(s) THEN s[i] ELSE t[i - Len(s)]
    BY <1>1, ConcatProperties
  <1>3. Len(s) \in Nat /\ Len(t) \in Nat
    BY LenProperties
  <1>4. Len(s) <= Len(u) /\ \A k \in 1 .. Len(s) : s[k] = u[k]
    BY <1>2, <1>3
  <1> QED
    BY <1>1, <1>2, <1>4, PrefixIs

LEMMA MeaningType ==
  ASSUME NEW text \in Seq(Byte), IsLines(text)
  PROVE  Meaning(text).done \in Seq(Command)
  <1>1. Len(text) \in 0 .. Len(text)
    BY Lengths
  <1>2. NoOffset \in Point
    BY NoOffsetIs
  <1>3. Meaning(text) \in Meant
    BY <1>1, <1>2, MeaningsIs DEF Meaning
  <1> QED
    BY <1>3 DEF Meant

LEMMA OnTrackIsPrefix ==
  ASSUME NEW text \in Seq(Byte), IsLines(text), NEW r, NEW u, NEW o \in Point,
         NEW d \in Seq(Command), OnTrack(text, r, u, o, d)
  PROVE  IsPrefix(d, Meaning(text).done)
  <1>1. PICK k : k = NotParsed(text, r, u)
    OBVIOUS
  <1>2. PICK next : next = Meanings(text)[k][o]
    OBVIOUS
  <1>3. PICK x : x = next.done
    OBVIOUS
  <1>4. k \in 0 .. Len(text) /\ d \o x = Meaning(text).done
    BY <1>1, <1>2, <1>3 DEF OnTrack, Before
  <1>5. x \in Seq(Command)
    <2>1. next \in Meant
      BY <1>2, <1>4, MeaningsIs
    <2> QED
      BY <1>3, <2>1 DEF Meant
  <1>6. IsPrefix(d, d \o x)
    BY <1>5, PrefixOfConcat
  <1> QED
    BY <1>4, <1>6

-----------------------------------------------------------------------------
(* The steps of the command loop *)

(* One executes the command that is complete, and fails to write at most,  *)
(* the others await more: none is complete.                                *)
Executes ==
  /\ mode = "parse" /\ Complete(unread)
  /\ unread' = Behind(unread) /\ offset' = OffsetBehind(unread, offset)
  /\ \/ mode' = "parse" /\ done' = done \o Executed(unread, offset)
     \/ mode' = "write_failed" /\ done' = done
  /\ UNCHANGED <<stream, received>>

Awaits ==
  /\ mode = "parse" /\ ~Complete(unread)
  /\ RecvMore
  /\ UNCHANGED <<stream, received, offset, done>>

LEMMA AppendIs ==
  ASSUME NEW S, NEW seq \in Seq(S), NEW c
  PROVE  Append(seq, c) = seq \o << c >>
  <1>1. seq \in Seq(S \cup {c})
    BY SeqMonotonic
  <1> QED
    BY <1>1, AppendIsConcat

LEMMA GetPixelExecutes ==
  ASSUME unread \in Seq(Byte), done \in Seq(Command), GetPixel
  PROVE  Executes
  <1>1. /\ mode = "parse" /\ Begins(PX, unread) /\ HasXY(unread, After(PX))
        /\ AsksForPixel(unread)
    BY DEF GetPixel, Starts, Parsing
  <1>2. ~Begins(OFFSET, unread) /\ Complete(unread)
    BY <1>1, FirstPX
  <1>3. FirstEnd(unread) = XYEnd(unread, After(PX))
    BY <1>1 DEF FirstEnd
  <1>4. unread' = Behind(unread)
    BY <1>3 DEF GetPixel, ConsumeTo, Behind
  <1>5. OffsetBehind(unread, offset) = offset
    BY <1>2 DEF OffsetBehind
  <1>6. offset' = offset /\ UNCHANGED <<stream, received>>
    BY DEF GetPixel
  <1>7. IF OnScreen(Target) THEN Answer(Get(Target)) ELSE UNCHANGED <<mode, done>>
    BY DEF GetPixel
  <1>8. Executed(unread, offset) = IF OnScreen(Target) THEN << Get(Target) >> ELSE << >>
    BY <1>1 DEF Executed, Target
  <1>9. \/ mode' = "parse" /\ done' = done \o Executed(unread, offset)
        \/ mode' = "write_failed" /\ done' = done
    <2>1. CASE OnScreen(Target)
      <3>1. Append(done, Get(Target)) = done \o << Get(Target) >>
        BY AppendIs
      <3>2. Answer(Get(Target)) /\ Executed(unread, offset) = << Get(Target) >>
        BY <1>7, <1>8, <2>1
      <3> QED
        BY <1>1, <3>1, <3>2 DEF Answer, Execute
    <2>2. CASE ~OnScreen(Target)
      <3>1. Executed(unread, offset) = << >> /\ mode' = mode /\ done' = done
        BY <1>7, <1>8, <2>2
      <3>2. done \o << >> = done
        BY ConcatEmptySeq
      <3> QED
        BY <1>1, <3>1, <3>2
    <2> QED
      BY <2>1, <2>2
  <1> QED
    BY <1>1, <1>2, <1>4, <1>5, <1>6, <1>9 DEF Executes

LEMMA SetPixelExecutes ==
  ASSUME unread \in Seq(Byte), done \in Seq(Command), SetPixel
  PROVE  Executes
  <1>1. /\ mode = "parse" /\ Begins(PX, unread) /\ HasXY(unread, After(PX))
        /\ ~AsksForPixel(unread) /\ HasColor(unread)
    BY DEF SetPixel, Starts, Parsing
  <1>2. ~Begins(OFFSET, unread) /\ Complete(unread)
    BY <1>1, FirstPX
  <1>3. FirstEnd(unread) = ColorEnd(unread)
    BY <1>1 DEF FirstEnd
  <1>4. unread' = Behind(unread)
    BY <1>3 DEF SetPixel, ConsumeTo, Behind
  <1>5. OffsetBehind(unread, offset) = offset
    BY <1>2 DEF OffsetBehind
  <1>6. offset' = offset /\ mode' = mode /\ UNCHANGED <<stream, received>>
    BY DEF SetPixel
  <1>7. PICK cmd : cmd = Set(Target, Pixel(unread, ColorAt(unread), ColorEnd(unread)))
    OBVIOUS
  <1>8. IF OnScreen(Target) THEN done' = Append(done, cmd) ELSE done' = done
    BY <1>7 DEF SetPixel, Execute
  <1>9. Executed(unread, offset) = IF OnScreen(Target) THEN << cmd >> ELSE << >>
    BY <1>1, <1>7 DEF Executed, Target
  <1>10. done' = done \o Executed(unread, offset)
    <2>1. CASE OnScreen(Target)
      <3>1. Append(done, cmd) = done \o << cmd >>
        BY AppendIs
      <3> QED
        BY <1>8, <1>9, <2>1, <3>1
    <2>2. CASE ~OnScreen(Target)
      <3>1. Executed(unread, offset) = << >> /\ done' = done
        BY <1>8, <1>9, <2>2
      <3>2. done \o << >> = done
        BY ConcatEmptySeq
      <3> QED
        BY <3>1, <3>2
    <2> QED
      BY <2>1, <2>2
  <1> QED
    BY <1>1, <1>2, <1>4, <1>5, <1>6, <1>10 DEF Executes

LEMMA SizeExecutes ==
  ASSUME unread \in Seq(Byte), done \in Seq(Command), Size
  PROVE  Executes
  <1>1. mode = "parse" /\ Begins(SIZE, unread)
    BY DEF Size, Starts, Parsing
  <1>2. ~Begins(PX, unread) /\ ~Begins(OFFSET, unread) /\ Complete(unread)
    BY <1>1, FirstSIZE
  <1>3. FirstEnd(unread) = After(SIZE)
    BY <1>1, <1>2 DEF FirstEnd
  <1>4. unread' = Behind(unread)
    BY <1>3 DEF Size, ConsumeTo, Behind
  <1>5. OffsetBehind(unread, offset) = offset
    BY <1>2 DEF OffsetBehind
  <1>6. PICK cmd : cmd = [op |-> "size"]
    OBVIOUS
  <1>7. /\ offset' = offset /\ UNCHANGED <<stream, received>>
        /\ \/ done' = Append(done, cmd) /\ mode' = mode
           \/ mode' = "write_failed" /\ done' = done
    BY <1>6 DEF Size, Answer, Execute
  <1>8. Executed(unread, offset) = << cmd >>
    BY <1>1, <1>2, <1>6 DEF Executed
  <1>9. Append(done, cmd) = done \o << cmd >>
    BY AppendIs
  <1> QED
    BY <1>1, <1>2, <1>4, <1>5, <1>7, <1>8, <1>9 DEF Executes

LEMMA SetOffsetExecutes ==
  ASSUME unread \in Seq(Byte), done \in Seq(Command), SetOffset
  PROVE  Executes
  <1>1. mode = "parse" /\ Begins(OFFSET, unread) /\ HasXY(unread, After(OFFSET))
    BY DEF SetOffset, Starts, Parsing
  <1>2. ~Begins(PX, unread) /\ ~Begins(SIZE, unread) /\ Complete(unread)
    BY <1>1, FirstOFFSET
  <1>3. FirstEnd(unread) = XYEnd(unread, After(OFFSET))
    BY <1>1, <1>2 DEF FirstEnd
  <1>4. unread' = Behind(unread)
    BY <1>3 DEF SetOffset, ConsumeTo, Behind
  <1>5. PICK xy : xy = XY(unread, After(OFFSET))
    OBVIOUS
  <1>6. OffsetBehind(unread, offset) = xy /\ Executed(unread, offset) = << Offset(xy) >>
    BY <1>1, <1>2, <1>5 DEF OffsetBehind, Executed
  <1>7. /\ offset' = xy /\ done' = Append(done, Offset(xy)) /\ mode' = mode
        /\ UNCHANGED <<stream, received>>
    BY <1>5 DEF SetOffset, Execute
  <1>8. Append(done, Offset(xy)) = done \o << Offset(xy) >>
    BY AppendIs
  <1> QED
    BY <1>1, <1>2, <1>4, <1>6, <1>7, <1>8 DEF Executes

LEMMA SkipUnknownExecutes ==
  ASSUME unread \in Seq(Byte), done \in Seq(Command), SkipUnknown
  PROVE  Executes
  <1>1. mode = "parse" /\ unread # << >> /\ Unknown(unread) /\ TokenLength(unread, 1) >= 0
    BY DEF SkipUnknown, NoVerb, Parsing
  <1>2. /\ ~Begins(PX, unread) /\ ~Begins(SIZE, unread) /\ ~Begins(OFFSET, unread)
        /\ Complete(unread)
    BY <1>1, FirstUnknown
  <1>3. FirstEnd(unread) = 1 + TokenLength(unread, 1)
    BY <1>2 DEF FirstEnd
  <1>4. unread' = Behind(unread)
    BY <1>3 DEF SkipUnknown, ConsumeTo, Behind
  <1>5. OffsetBehind(unread, offset) = offset /\ Executed(unread, offset) = << >>
    BY <1>2 DEF OffsetBehind, Executed
  <1>6. offset' = offset /\ mode' = mode /\ done' = done /\ UNCHANGED <<stream, received>>
    BY DEF SkipUnknown
  <1>7. done \o << >> = done
    BY ConcatEmptySeq
  <1> QED
    BY <1>1, <1>2, <1>4, <1>5, <1>6, <1>7 DEF Executes

LEMMA OthersAwait ==
  ASSUME unread \in Seq(Byte),
         IncompletePX \/ IncompleteOffset \/ IncompleteToken \/ AllParsed
  PROVE  Awaits
  <1>1. ASSUME IncompletePX PROVE Awaits
    <2>1. Begins(PX, unread) /\ LacksArgument(unread)
      BY <1>1 DEF IncompletePX, Starts
    <2>2. ~Complete(unread)
      BY <2>1, FirstPX DEF LacksArgument
    <2> QED
      BY <1>1, <2>2 DEF IncompletePX, Starts, Parsing, Awaits
  <1>2. ASSUME IncompleteOffset PROVE Awaits
    <2>1. Begins(OFFSET, unread) /\ ~HasXY(unread, After(OFFSET))
      BY <1>2 DEF IncompleteOffset, Starts
    <2>2. ~Complete(unread)
      BY <2>1, FirstOFFSET
    <2> QED
      BY <1>2, <2>2 DEF IncompleteOffset, Starts, Parsing, Awaits
  <1>3. ASSUME IncompleteToken PROVE Awaits
    <2>1. Unknown(unread) /\ TokenLength(unread, 1) = Missing
      BY <1>3 DEF IncompleteToken, NoVerb
    <2>2. ~Complete(unread)
      BY <2>1, FirstUnknown DEF Missing
    <2> QED
      BY <1>3, <2>2 DEF IncompleteToken, NoVerb, Parsing, Awaits
  <1>4. ASSUME AllParsed PROVE Awaits
    BY <1>4, NothingIsIncomplete DEF AllParsed, Awaits
  <1> QED
    BY <1>1, <1>2, <1>3, <1>4

-----------------------------------------------------------------------------
(* The inductive invariant: until a write fails the parser is on track, if *)
(* no line begins with a blank; it waits only when no command is complete. *)

KeepsOnTrack ==
  IsLines(stream.text) /\ mode # "write_failed" =>
    /\ OnTrack(stream.text, received, unread, offset, done)
    /\ stream.good => Good(stream.text, received, unread, offset)

OnlyWhatIsMeant == IsLines(stream.text) => IsPrefix(done, Meaning(stream.text).done)

WaitsForMore == mode = "recv" => ~Complete(unread)

IInv == TypeOK /\ KeepsOnTrack /\ OnlyWhatIsMeant /\ WaitsForMore /\ KeepsGoodClients

LEMMA StreamIs ==
  ASSUME NEW s \in Streams
  PROVE  /\ s.text \in Seq(Byte) /\ s.meaning \in Seq(Command)
         /\ IsLines(s.text) => IsPrefix(Meaning(s.text).done, s.meaning)
         /\ s.good => /\ IsLines(s.text)
                      /\ Meaning(s.text).good /\ s.meaning = Meaning(s.text).done
  BY StreamsAssumption

LEMMA InitInv == Init => IInv
  <1> SUFFICES ASSUME Init PROVE IInv
    OBVIOUS
  <1>1. /\ stream \in Streams /\ received = 0 /\ unread = << >>
        /\ mode = "recv" /\ offset = NoOffset /\ done = << >>
    BY DEF Init
  <1>2. PICK text : text = stream.text
    OBVIOUS
  <1>3. /\ text \in Seq(Byte)
        /\ stream.good => Meaning(text).good
    BY <1>1, <1>2, StreamIs
  <1>4. /\ NoOffset \in Point /\ ~Complete(<< >>)
        /\ IsLines(text) => /\ OnTrack(text, 0, << >>, NoOffset, << >>)
                            /\ Meaning(text).good => Good(text, 0, << >>, NoOffset)
    BY <1>3, NoOffsetIs, NothingIsIncomplete, OnTrackAtFirst
  <1>5. TypeOK
    <2>1. received \in 0 .. Len(stream.text)
      BY <1>1, <1>2, <1>3, Lengths
    <2>2. unread \in Seq(Byte) /\ Len(unread) <= Capacity
      BY <1>1, NumberAssumption
    <2> QED
      BY <1>1, <1>4, <2>1, <2>2 DEF TypeOK
  <1>6. KeepsOnTrack
    BY <1>1, <1>2, <1>3, <1>4 DEF KeepsOnTrack
  <1>7. OnlyWhatIsMeant
    <2>1. << >> \in Seq(Command)
      OBVIOUS
    <2>2. IsLines(text) => IsPrefix(<< >>, Meaning(text).done)
      BY <1>3, <1>4, <2>1, OnTrackIsPrefix
    <2> QED
      BY <1>1, <1>2, <2>2 DEF OnlyWhatIsMeant
  <1>8. WaitsForMore /\ KeepsGoodClients
    BY <1>1, <1>4 DEF WaitsForMore, KeepsGoodClients
  <1> QED
    BY <1>5, <1>6, <1>7, <1>8 DEF IInv

LEMMA ExecutesInv == ASSUME IInv, Executes PROVE IInv'
  <1>1. /\ stream \in Streams /\ received \in 0 .. Len(stream.text)
        /\ unread \in Seq(Byte) /\ Len(unread) <= Capacity
        /\ offset \in Point /\ done \in Seq(Command)
    BY DEF IInv, TypeOK
  <1>2. /\ mode = "parse" /\ Complete(unread)
        /\ unread' = Behind(unread) /\ offset' = OffsetBehind(unread, offset)
        /\ \/ mode' = "parse" /\ done' = done \o Executed(unread, offset)
           \/ mode' = "write_failed" /\ done' = done
        /\ stream' = stream /\ received' = received
    BY DEF Executes
  <1>3. PICK text : text = stream.text
    OBVIOUS
  <1>4. text \in Seq(Byte) /\ received \in 0 .. Len(text)
    BY <1>1, <1>3, StreamIs
  <1>5. IsLines(text) =>
          /\ OnTrack(text, received, unread, offset, done)
          /\ stream.good => Good(text, received, unread, offset)
    BY <1>2, <1>3 DEF IInv, KeepsOnTrack
  <1>6. PICK d : d = done \o Executed(unread, offset)
    OBVIOUS
  <1>7. /\ unread' \in Seq(Byte) /\ Len(unread') < Len(unread)
        /\ offset' \in Point /\ d \in Seq(Command)
    <2>1. /\ unread' \in Seq(Byte) /\ Len(unread') \in 0 .. Len(unread) - 1
          /\ offset' \in Point /\ Executed(unread, offset) \in Seq(Command)
      BY <1>1, <1>2, BehindIs
    <2>2. d \in Seq(Command)
      BY <1>1, <1>6, <2>1, ConcatProperties
    <2>3. Len(unread') < Len(unread)
      BY <1>1, <2>1, Lengths
    <2> QED
      BY <2>1, <2>2, <2>3
  <1>t. ASSUME IsLines(text)
        PROVE  /\ OnTrack(text, received, unread', offset', d)
               /\ Good(text, received, unread, offset) => Good(text, received, unread', offset')
    BY <1>1, <1>2, <1>4, <1>5, <1>6, <1>t, OnTrackExecuting
  <1>8. TypeOK'
    <2>1. Len(unread') <= Capacity
      <3>1. Len(unread) \in Nat /\ Len(unread') \in Nat /\ Capacity \in Nat
        BY <1>1, <1>7, Lengths, NumberAssumption
      <3> QED
        BY <1>1, <1>7, <3>1
    <2>2. done' \in Seq(Command)
      BY <1>1, <1>2, <1>6, <1>7
    <2>3. mode' \in {"recv", "parse"} \/ mode' \in {"write_failed", "garbage", "full", "gone"}
      BY <1>2
    <2> QED
      BY <1>1, <1>2, <1>7, <2>1, <2>2, <2>3 DEF TypeOK, Ended
  <1>9. KeepsOnTrack'
    <2>1. ASSUME IsLines(text), mode' # "write_failed"
          PROVE  /\ OnTrack(text, received, unread', offset', done')
                 /\ stream.good => Good(text, received, unread', offset')
      BY <1>2, <1>5, <1>6, <1>t, <2>1
    <2> QED
      BY <1>2, <1>3, <2>1 DEF KeepsOnTrack
  <1>10. OnlyWhatIsMeant'
    <2>1. IsLines(text) => IsPrefix(d, Meaning(text).done)
      BY <1>4, <1>7, <1>t, OnTrackIsPrefix
    <2>2. IsLines(text) => IsPrefix(done, Meaning(text).done)
      BY <1>3 DEF IInv, OnlyWhatIsMeant
    <2>3. IsLines(text) => IsPrefix(done', Meaning(text).done)
      BY <1>2, <1>6, <2>1, <2>2
    <2> QED
      BY <1>2, <1>3, <2>3 DEF OnlyWhatIsMeant
  <1>11. WaitsForMore' /\ KeepsGoodClients'
    BY <1>2 DEF WaitsForMore, KeepsGoodClients
  <1> QED
    BY <1>8, <1>9, <1>10, <1>11 DEF IInv

(* A step that only changes the mode.                                      *)
ChangesMode == UNCHANGED <<stream, received, unread, offset, done>>

LEMMA ChangesModeInv ==
  ASSUME IInv, ChangesMode, mode # "write_failed",
         mode' \in {"recv", "garbage", "full", "gone"},
         mode' = "recv" => ~Complete(unread),
         mode' \in {"garbage", "full"} /\ IsLines(stream.text)
           => ~Good(stream.text, received, unread, offset)
  PROVE  IInv'
  <1>1. /\ stream' = stream /\ received' = received /\ unread' = unread
        /\ offset' = offset /\ done' = done
    BY DEF ChangesMode
  <1>2. TypeOK'
    BY <1>1 DEF IInv, TypeOK, Ended
  <1>3. KeepsOnTrack'
    BY <1>1 DEF IInv, KeepsOnTrack
  <1>4. OnlyWhatIsMeant'
    BY <1>1 DEF IInv, OnlyWhatIsMeant
  <1>5. WaitsForMore'
    BY <1>1 DEF WaitsForMore
  <1>6. KeepsGoodClients'
    <2>1. stream \in Streams
      BY DEF IInv, TypeOK
    <2>2. stream.good => IsLines(stream.text)
      BY <2>1, StreamIs
    <2> QED
      BY <1>1, <2>2 DEF IInv, KeepsOnTrack, KeepsGoodClients
  <1> QED
    BY <1>2, <1>3, <1>4, <1>5, <1>6 DEF IInv

LEMMA MisbehavingInv == ASSUME IInv, Misbehaving PROVE IInv'
  <1>1. /\ mode = "parse" /\ unread # << >> /\ Unknown(unread)
        /\ TokenLength(unread, 1) = Garbage /\ mode' = "garbage" /\ ChangesMode
    BY DEF Misbehaving, NoVerb, Parsing, ChangesMode
  <1>2. ASSUME IsLines(stream.text) PROVE ~Good(stream.text, received, unread, offset)
    <2>1. stream \in Streams /\ offset \in Point
      BY DEF IInv, TypeOK
    <2>2. OnTrack(stream.text, received, unread, offset, done)
      BY <1>1, <1>2 DEF IInv, KeepsOnTrack
    <2> QED
      BY <1>1, <1>2, <2>1, <2>2, StreamIs, GarbageIsBad
  <1> QED
    BY <1>1, <1>2, ChangesModeInv

LEMMA RingIsFullInv == ASSUME IInv, RingIsFull PROVE IInv'
  <1>1. mode = "recv" /\ Len(unread) = Capacity /\ mode' = "full" /\ ChangesMode
    BY DEF RingIsFull, ChangesMode
  <1>2. ASSUME IsLines(stream.text) PROVE ~Good(stream.text, received, unread, offset)
    <2>1. stream \in Streams /\ offset \in Point
      BY DEF IInv, TypeOK
    <2>2. OnTrack(stream.text, received, unread, offset, done) /\ ~Complete(unread)
      BY <1>1, <1>2 DEF IInv, KeepsOnTrack, WaitsForMore
    <2> QED
      BY <1>1, <1>2, <2>1, <2>2, StreamIs, FullIsBad
  <1> QED
    BY <1>1, <1>2, ChangesModeInv

LEMMA ReceiveInv == ASSUME IInv, NEW n \in 1 .. Capacity, Receive(n) PROVE IInv'
  <1>1. /\ stream \in Streams /\ received \in 0 .. Len(stream.text)
        /\ unread \in Seq(Byte) /\ offset \in Point /\ done \in Seq(Command)
    BY DEF IInv, TypeOK
  <1>2. PICK text : text = stream.text
    OBVIOUS
  <1>3. /\ mode = "recv" /\ Len(unread) + n <= Capacity /\ received + n <= Len(text)
        /\ unread' = unread \o SubSeq(text, received + 1, received + n)
        /\ received' = received + n /\ mode' = "parse"
        /\ stream' = stream /\ offset' = offset /\ done' = done
    BY <1>2 DEF Receive
  <1>4. text \in Seq(Byte) /\ received \in 0 .. Len(text) /\ n \in Nat
    BY <1>1, <1>2, StreamIs
  <1>5. IsLines(text) =>
          /\ OnTrack(text, received, unread, offset, done)
          /\ stream.good => Good(text, received, unread, offset)
    BY <1>2, <1>3 DEF IInv, KeepsOnTrack
  <1>6. unread' \in Seq(Byte) /\ Len(unread') = Len(unread) + n
    BY <1>1, <1>3, <1>4, ReceivedIs
  <1>7. ASSUME IsLines(text)
        PROVE  /\ OnTrack(text, received + n, unread', offset, done)
               /\ Good(text, received, unread, offset) => Good(text, received + n, unread', offset)
    <2>1. PICK v \in Seq(Byte) :
            /\ v = unread \o SubSeq(text, received + 1, received + n)
            /\ OnTrack(text, received + n, v, offset, done)
            /\ Good(text, received, unread, offset) => Good(text, received + n, v, offset)
      BY <1>3, <1>4, <1>5, <1>7, OnTrackReceiving
    <2>2. unread' = v
      BY <1>3, <2>1
    <2> QED
      BY <2>1, <2>2
  <1>8. TypeOK'
    <2>1. received' \in 0 .. Len(stream'.text)
      <3>1. received + n \in 0 .. Len(text)
        BY <1>3, <1>4, Lengths
      <3> QED
        BY <1>2, <1>3, <3>1
    <2>2. unread' \in Seq(Byte) /\ Len(unread') <= Capacity
      BY <1>3, <1>6
    <2> QED
      BY <1>1, <1>3, <2>1, <2>2 DEF TypeOK
  <1>9. KeepsOnTrack'
    BY <1>2, <1>3, <1>5, <1>7 DEF KeepsOnTrack
  <1>10. OnlyWhatIsMeant'
    BY <1>3 DEF IInv, OnlyWhatIsMeant
  <1>11. WaitsForMore' /\ KeepsGoodClients'
    BY <1>3 DEF WaitsForMore, KeepsGoodClients
  <1> QED
    BY <1>8, <1>9, <1>10, <1>11 DEF IInv

LEMMA NextInv == ASSUME IInv, [Next]_vars PROVE IInv'
  <1>1. unread \in Seq(Byte) /\ done \in Seq(Command)
    BY DEF IInv, TypeOK
  <1>2. ASSUME GetPixel \/ SetPixel \/ Size \/ SetOffset \/ SkipUnknown PROVE IInv'
    <2>1. Executes
      BY <1>1, <1>2, GetPixelExecutes, SetPixelExecutes, SizeExecutes,
         SetOffsetExecutes, SkipUnknownExecutes
    <2> QED
      BY <2>1, ExecutesInv
  <1>3. ASSUME IncompletePX \/ IncompleteOffset \/ IncompleteToken \/ AllParsed PROVE IInv'
    <2>1. Awaits
      BY <1>1, <1>3, OthersAwait
    <2>2. mode = "parse" /\ mode' = "recv" /\ ~Complete(unread) /\ ChangesMode
      BY <2>1 DEF Awaits, RecvMore, ChangesMode
    <2> QED
      BY <2>2, ChangesModeInv
  <1>4. ASSUME Misbehaving PROVE IInv'
    BY <1>4, MisbehavingInv
  <1>5. ASSUME NEW n \in 1 .. Capacity, Receive(n) PROVE IInv'
    BY <1>5, ReceiveInv
  <1>6. ASSUME RingIsFull PROVE IInv'
    BY <1>6, RingIsFullInv
  <1>7. ASSUME ClientGone PROVE IInv'
    <2>1. mode = "recv" /\ mode' = "gone" /\ ChangesMode
      BY <1>7 DEF ClientGone, ChangesMode
    <2> QED
      BY <2>1, ChangesModeInv
  <1>8. ASSUME UNCHANGED vars PROVE IInv'
    <2>1. /\ stream' = stream /\ received' = received /\ unread' = unread
          /\ mode' = mode /\ offset' = offset /\ done' = done
      BY <1>8 DEF vars
    <2>2. TypeOK'
      BY <2>1 DEF IInv, TypeOK, Ended
    <2>3. KeepsOnTrack' /\ WaitsForMore' /\ KeepsGoodClients' /\ OnlyWhatIsMeant'
      BY <2>1 DEF IInv, KeepsOnTrack, WaitsForMore, KeepsGoodClients, OnlyWhatIsMeant
    <2> QED
      BY <2>2, <2>3 DEF IInv
  <1> QED
    BY <1>2, <1>3, <1>4, <1>5, <1>6, <1>7, <1>8 DEF Next

LEMMA SpecInv == Spec => []IInv
  <1>1. Init => IInv
    BY InitInv
  <1>2. IInv /\ [Next]_vars => IInv'
    BY NextInv
  <1> QED
    BY <1>1, <1>2, PTL DEF Spec

(* The parser's state has the types TypeOK gives: the ring never holds     *)
(* more than its capacity (network.c:316), and what is executed are        *)
(* commands with coordinates of 32 bits and pixels.                        *)
THEOREM ParserTypeOK == Spec => []TypeOK
  <1>1. IInv => TypeOK
    BY DEF IInv
  <1> QED
    BY <1>1, SpecInv, PTL

(* However read(2) cuts a client's text, and wherever a write fails, what  *)
(* the parser has executed (network.c:332-445) is the beginning of what    *)
(* the client meant.                                                       *)
THEOREM ParserInOrder == Spec => []InOrder
  <1>1. IInv => InOrder
    <2> SUFFICES ASSUME IInv, IsLines(stream.text) PROVE IsPrefix(done, stream.meaning)
      BY DEF InOrder
    <2>1. stream \in Streams /\ done \in Seq(Command)
      BY DEF IInv, TypeOK
    <2>2. PICK m : m = Meaning(stream.text).done
      OBVIOUS
    <2>3. /\ m \in Seq(Command) /\ stream.meaning \in Seq(Command)
          /\ IsPrefix(m, stream.meaning)
      BY <2>1, <2>2, StreamIs, MeaningType
    <2>4. IsPrefix(done, m)
      BY <2>2 DEF IInv, OnlyWhatIsMeant
    <2> QED
      BY <2>1, <2>3, <2>4, PrefixOfPrefix
  <1> QED
    BY <1>1, SpecInv, PTL

(* A parser that has received all that a good client sends, and waits for  *)
(* more (network.c:318), has executed all that it meant.                   *)
THEOREM ParserNothingLeftBehind == Spec => []NothingLeftBehind
  <1>1. IInv => NothingLeftBehind
    <2> SUFFICES ASSUME IInv, stream.good, mode = "recv", received = Len(stream.text)
                 PROVE  done = stream.meaning
      BY DEF NothingLeftBehind
    <2>1. stream \in Streams /\ done \in Seq(Command) /\ offset \in Point
      BY DEF IInv, TypeOK
    <2>2. PICK text : text = stream.text
      OBVIOUS
    <2>3. text \in Seq(Byte) /\ IsLines(text) /\ stream.meaning = Meaning(text).done
      BY <2>1, <2>2, StreamIs
    <2>4. OnTrack(text, Len(text), unread, offset, done) /\ ~Complete(unread)
      BY <2>2, <2>3 DEF IInv, KeepsOnTrack, WaitsForMore
    <2> QED
      BY <2>1, <2>3, <2>4, NothingIsLeft
  <1> QED
    BY <1>1, SpecInv, PTL

(* No good client finds the ring full or is taken for one that misbehaves  *)
(* (network.c:319, 436).                                                   *)
THEOREM ParserKeepsGoodClients == Spec => []KeepsGoodClients
  <1>1. IInv => KeepsGoodClients
    BY DEF IInv
  <1> QED
    BY <1>1, SpecInv, PTL

(* A parser that waits has no word before it that is complete and does not *)
(* begin with a verb (network.c:52-54, 426-445).                           *)
THEOREM ParserSkipsWhatIsNoVerb == Spec => []SkipsWhatIsNoVerb
  <1>1. IInv => SkipsWhatIsNoVerb
    <2> SUFFICES ASSUME IInv, mode = "recv", unread # << >>, TokenLength(unread, 1) >= 0
                 PROVE  \E verb \in Verbs : IsPrefix(verb, FirstToken)
      BY DEF SkipsWhatIsNoVerb, Verbs
    <2>1. unread \in Seq(Byte) /\ ~Complete(unread)
      BY DEF IInv, TypeOK, WaitsForMore
    <2>2. ~Unknown(unread)
      BY <2>1, FirstUnknown
    <2>3. PICK verb \in Verbs : Begins(verb, unread)
      BY <2>2, UnknownIs
    <2>4. PICK n : n = TokenLength(unread, 1)
      OBVIOUS
    <2>5. /\ Len(unread) \in Nat /\ verb \in Seq(Byte) /\ Len(verb) \in Nat
          /\ \A k \in 1 .. Len(verb) : verb[k] \notin WhiteSpace
          /\ Len(verb) <= Len(unread) /\ \A k \in 1 .. Len(verb) : unread[k] = verb[k]
      BY <2>1, <2>3, Lengths, VerbFacts, BeginsIs
    <2>6. n \in Nat /\ 1 + n <= Len(unread) /\ unread[1 + n] \in WhiteSpace
      <3>1. IsToken(unread, 1, n)
        BY <2>1, <2>4, <2>5, TokenIsOne
      <3> QED
        BY <2>4, <3>1, NumberAssumption DEF IsToken, Garbage, Missing
    <2>7. Len(verb) <= n
      BY <2>5, <2>6
    <2>8. PICK first : first = FirstToken
      OBVIOUS
    <2>9. first \in Seq(Byte) /\ Len(first) = n /\ \A k \in 1 .. n : first[k] = unread[k]
      <3>1. \A k \in 1 .. n : unread[k] \in Byte
        BY <2>1, <2>5, <2>6, Lengths
      <3>2. /\ first \in Seq(Byte) /\ Len(first) = IF 1 <= n THEN n - 1 + 1 ELSE 0
            /\ \A k \in 1 .. n - 1 + 1 : first[k] = unread[1 + k - 1]
        BY <2>4, <2>6, <2>8, <3>1, SubSeqProperties DEF FirstToken
      <3>3. Len(first) = n
        BY <2>6, <3>2
      <3>4. \A k \in 1 .. n : 1 + k - 1 = k /\ k \in 1 .. n - 1 + 1
        BY <2>6
      <3> QED
        BY <3>2, <3>3, <3>4
    <2>10. \A k \in 1 .. Len(verb) : verb[k] = first[k]
      BY <2>5, <2>6, <2>7, <2>9
    <2>11. IsPrefix(verb, first)
      BY <2>5, <2>7, <2>9, <2>10, PrefixIs
    <2> QED
      BY <2>8, <2>11
  <1> QED
    BY <1>1, SpecInv, PTL
=============================================================================
