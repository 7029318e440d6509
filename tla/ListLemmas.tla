------------------------------ MODULE ListLemmas ------------------------------
(***************************************************************************)
(* What sums and picked sublists do when a list grows, and that a sum does *)
(* not depend on the order of its list.  The provers do not instantiate a  *)
(* theorem whose parameter is an operator, so induction over the naturals  *)
(* is stated here for a set, from the well-foundedness of <, and a fold is *)
(* proved to be the function its definition chooses.                       *)
(***************************************************************************)
EXTENDS Lists, SequenceTheorems, FiniteSetTheorems, TLAPS

\* Induction over the naturals: S is the set of those for which the claim holds.
LEMMA SetInduction ==
  ASSUME NEW S, 0 \in S, \A n \in Nat : n \in S => n + 1 \in S
  PROVE  Nat \subseteq S
PROOF
<1> DEFINE R == OpToRel(<, Nat)
           T == Nat \ S
<1>1. IsWellFoundedOn(R, Nat)
  BY NatLessThanWellFounded
<1>2. ASSUME NEW x \in Nat, NEW y \in Nat, y < x PROVE <<y, x>> \in R
  BY <1>2 DEF OpToRel
<1> HIDE DEF R
<1>3. SUFFICES ASSUME T # {} PROVE FALSE
  OBVIOUS
<1>4. PICK x \in T : \A y \in T : ~ (<<y, x>> \in R)
  BY <1>1, <1>3, WFMin
<1>5. x \in Nat \ {0} /\ x - 1 \in Nat /\ x - 1 < x
  BY <1>4
<1>6. x - 1 \in S
  BY <1>2, <1>4, <1>5
<1> QED BY <1>4, <1>5, <1>6

\* The greatest element of a set of places.
LEMMA MaxPlace ==
  ASSUME NEW n \in Nat, NEW t \in SUBSET (1 .. n), t # {}
  PROVE  Max(t) \in t /\ \A i \in t : i <= Max(t)
PROOF
<1> DEFINE S == {m \in Nat : \A u \in SUBSET (1 .. m) :
                   u # {} => \E x \in u : \A y \in u : x >= y}
<1>1. 0 \in S
  <2>1. 1 .. 0 = {}
    OBVIOUS
  <2> QED BY <2>1
<1>2. ASSUME NEW m \in Nat, m \in S PROVE m + 1 \in S
  <2>1. SUFFICES ASSUME NEW u \in SUBSET (1 .. m + 1), u # {}
                 PROVE  \E x \in u : \A y \in u : x >= y
    OBVIOUS
  <2>2. CASE m + 1 \in u
    BY <2>1, <2>2
  <2>3. CASE m + 1 \notin u
    <3>1. u \in SUBSET (1 .. m)
      BY <2>1, <2>3
    <3> QED BY <1>2, <2>1, <3>1
  <2> QED BY <2>2, <2>3
<1> HIDE DEF S
<1>3. n \in S
  BY <1>1, <1>2, SetInduction
<1>4. \E x \in t : \A y \in t : x >= y
  BY <1>3 DEF S
<1> QED BY <1>4 DEF Max

(***************************************************************************)
(* Sums.                                                                   *)
(***************************************************************************)
\* f maps a set of places of s to the sum of what is there.
Sums(s, f) ==
  f = [t \in SUBSET DOMAIN s |-> IF t = {} THEN 0 ELSE f[t \ {Max(t)}] + s[Max(t)]]

LEMMA TotalIs == ASSUME NEW s PROVE Total(s) = (CHOOSE f : Sums(s, f))[DOMAIN s]
BY DEF Total, FoldLeft, MapThenFoldSet, Sums

LEMMA SumsUnique ==
  ASSUME NEW s \in Seq(Int), NEW f, NEW g, Sums(s, f), Sums(s, g)
  PROVE  f = g
PROOF
<1>1. Len(s) \in Nat /\ DOMAIN s = 1 .. Len(s)
  OBVIOUS
<1> DEFINE S == {n \in Nat : \A t \in SUBSET DOMAIN s : t \subseteq 1 .. n => f[t] = g[t]}
<1>2. 0 \in S
  BY DEF Sums
<1>3. ASSUME NEW n \in Nat, n \in S PROVE n + 1 \in S
  <2>0. SUFFICES ASSUME NEW t \in SUBSET DOMAIN s, t \subseteq 1 .. n + 1 PROVE f[t] = g[t]
    OBVIOUS
  <2>1. CASE t = {}
    BY <2>1 DEF Sums
  <2> SUFFICES ASSUME t # {} PROVE f[t] = g[t]
    BY <2>1
  <2>2. Max(t) \in t /\ \A i \in t : i <= Max(t)
    BY <1>1, MaxPlace
  <2>3. t \ {Max(t)} \subseteq 1 .. n /\ t \ {Max(t)} \in SUBSET DOMAIN s
    BY <2>0, <2>2
  <2>4. f[t \ {Max(t)}] = g[t \ {Max(t)}]
    BY <1>3, <2>3
  <2> QED BY <2>4 DEF Sums
<1> HIDE DEF S
<1>4. Len(s) \in S
  BY <1>1, <1>2, <1>3, SetInduction
<1>5. \A t \in SUBSET DOMAIN s : f[t] = g[t]
  BY <1>1, <1>4 DEF S
<1> QED BY <1>5 DEF Sums

\* A function for the longer list restricts to one for the shorter.
LEMMA SumsRestrict ==
  ASSUME NEW s \in Seq(Int), NEW x \in Int, NEW g, Sums(Append(s, x), g)
  PROVE  Sums(s, [t \in SUBSET DOMAIN s |-> g[t]])
PROOF
<1>1. /\ Len(s) \in Nat /\ DOMAIN s = 1 .. Len(s) /\ DOMAIN Append(s, x) = 1 .. Len(s) + 1
      /\ \A i \in 1 .. Len(s) : Append(s, x)[i] = s[i]
  OBVIOUS
<1>2. \A t \in SUBSET DOMAIN s : t \in SUBSET DOMAIN Append(s, x)
  BY <1>1
<1> DEFINE f == [t \in SUBSET DOMAIN s |-> g[t]]
<1>3. ASSUME NEW t \in SUBSET DOMAIN s
      PROVE  f[t] = IF t = {} THEN 0 ELSE f[t \ {Max(t)}] + s[Max(t)]
  <2>1. g[t] = IF t = {} THEN 0 ELSE g[t \ {Max(t)}] + Append(s, x)[Max(t)]
    BY <1>2 DEF Sums
  <2>2. t # {} => Max(t) \in DOMAIN s
    BY <1>1, MaxPlace
  <2> QED BY <1>1, <2>1, <2>2
<1> QED BY <1>3 DEF Sums

LEMMA SumsExist == ASSUME NEW s \in Seq(Int) PROVE \E f : Sums(s, f)
PROOF
<1> DEFINE S == {n \in Nat : \A q \in Seq(Int) : Len(q) = n => \E f : Sums(q, f)}
<1>1. 0 \in S
  <2> SUFFICES ASSUME NEW q \in Seq(Int), Len(q) = 0 PROVE \E f : Sums(q, f)
    OBVIOUS
  <2>1. DOMAIN q = {}
    OBVIOUS
  <2>2. Sums(q, [t \in SUBSET DOMAIN q |-> 0])
    BY <2>1 DEF Sums
  <2> QED BY <2>2
<1>2. ASSUME NEW n \in Nat, n \in S PROVE n + 1 \in S
  <2>1. SUFFICES ASSUME NEW q \in Seq(Int), Len(q) = n + 1 PROVE \E f : Sums(q, f)
    OBVIOUS
  <2>2. PICK p : p = SubSeq(q, 1, n)
    OBVIOUS
  <2>3. /\ p \in Seq(Int) /\ Len(p) = n /\ DOMAIN p = 1 .. n /\ DOMAIN q = 1 .. n + 1
        /\ \A i \in 1 .. n : p[i] = q[i]
    BY <2>1, <2>2
  <2>4. PICK f : Sums(p, f)
    BY <1>2, <2>3
  <2> DEFINE g == [t \in SUBSET DOMAIN q |-> IF n + 1 \in t THEN f[t \ {n + 1}] + q[n + 1] ELSE f[t]]
  <2>5. ASSUME NEW t \in SUBSET DOMAIN q
        PROVE  g[t] = IF t = {} THEN 0 ELSE g[t \ {Max(t)}] + q[Max(t)]
    <3>1. CASE n + 1 \in t
      <4>1. Max(t) = n + 1
        <5>1. Max(t) \in t /\ \A i \in t : i <= Max(t)
          <6>1. n + 1 \in Nat /\ t \in SUBSET (1 .. n + 1) /\ t # {}
            BY <2>3, <3>1
          <6> QED BY <6>1, MaxPlace
        <5> QED BY <2>3, <3>1, <5>1
      <4>2. t \ {n + 1} \in SUBSET DOMAIN q
        OBVIOUS
      <4> QED BY <3>1, <4>1, <4>2
    <3>2. CASE n + 1 \notin t /\ t # {}
      <4>1. t \in SUBSET DOMAIN p
        BY <2>3, <3>2
      <4>2. Max(t) \in t /\ Max(t) \in DOMAIN p
        BY <2>3, <3>2, <4>1, MaxPlace
      <4>3. f[t] = f[t \ {Max(t)}] + p[Max(t)]
        BY <2>4, <3>2, <4>1 DEF Sums
      <4>4. t \ {Max(t)} \in SUBSET DOMAIN q /\ n + 1 \notin t \ {Max(t)}
        BY <3>2
      <4> QED BY <2>3, <3>2, <4>2, <4>3, <4>4
    <3>3. CASE t = {}
      <4>1. f[{}] = 0
        BY <2>4 DEF Sums
      <4> QED BY <3>3, <4>1
    <3> QED BY <3>1, <3>2, <3>3
  <2>6. Sums(q, g)
    BY <2>5 DEF Sums
  <2> QED BY <2>6
<1> HIDE DEF S
<1>3. Len(s) \in S
  BY <1>1, <1>2, SetInduction
<1> QED BY <1>3 DEF S

LEMMA TotalEmpty == Total(<< >>) = 0
PROOF
<1>1. << >> \in Seq(Int) /\ DOMAIN << >> = {}
  OBVIOUS
<1>2. Sums(<< >>, CHOOSE f : Sums(<< >>, f))
  BY <1>1, SumsExist
<1> QED BY <1>1, <1>2, TotalIs DEF Sums

LEMMA TotalAppend ==
  ASSUME NEW s \in Seq(Int), NEW x \in Int
  PROVE  Total(Append(s, x)) = Total(s) + x
PROOF
<1>1. /\ Len(s) \in Nat /\ DOMAIN s = 1 .. Len(s) /\ DOMAIN Append(s, x) = 1 .. Len(s) + 1
      /\ Append(s, x)[Len(s) + 1] = x /\ Append(s, x) \in Seq(Int)
  OBVIOUS
<1>2. PICK f, g : f = (CHOOSE h : Sums(s, h)) /\ g = (CHOOSE h : Sums(Append(s, x), h))
  OBVIOUS
<1>3. Sums(s, f) /\ Sums(Append(s, x), g)
  BY <1>1, <1>2, SumsExist
<1>4. f = [t \in SUBSET DOMAIN s |-> g[t]]
  BY <1>3, SumsRestrict, SumsUnique
<1>5. PICK t : t = 1 .. Len(s) + 1
  OBVIOUS
<1>6. t \in SUBSET DOMAIN Append(s, x) /\ t # {} /\ Max(t) = Len(s) + 1 /\ t \ {Max(t)} = 1 .. Len(s)
  <2>1. Max(t) \in t /\ \A i \in t : i <= Max(t)
    <3>1. Len(s) + 1 \in Nat /\ t \in SUBSET (1 .. Len(s) + 1) /\ Len(s) + 1 \in t
      BY <1>1, <1>5
    <3> QED BY <3>1, MaxPlace
  <2>2. Max(t) = Len(s) + 1
    BY <1>1, <1>5, <2>1
  <2> QED BY <1>1, <1>5, <2>2
<1>7. g[t] = g[1 .. Len(s)] + x
  BY <1>1, <1>3, <1>6 DEF Sums
<1>8. f[1 .. Len(s)] = g[1 .. Len(s)]
  BY <1>1, <1>4
<1> QED BY <1>1, <1>2, <1>5, <1>7, <1>8, TotalIs

\* A list that is not empty is a shorter one and a last element.
LEMMA LastOut ==
  ASSUME NEW T, NEW s \in Seq(T), NEW n \in Nat, Len(s) = n + 1
  PROVE  \E p \in Seq(T), x \in T : s = Append(p, x) /\ Len(p) = n
PROOF
<1>1. SubSeq(s, 1, n) \in Seq(T) /\ s[n + 1] \in T /\ Len(SubSeq(s, 1, n)) = n
  OBVIOUS
<1>2. s = Append(SubSeq(s, 1, n), s[n + 1])
  OBVIOUS
<1> QED BY <1>1, <1>2

LEMMA TotalType == ASSUME NEW s \in Seq(Int) PROVE Total(s) \in Int
PROOF
<1> DEFINE S == {n \in Nat : \A q \in Seq(Int) : Len(q) = n => Total(q) \in Int}
<1>1. 0 \in S
  <2>1. \A q \in Seq(Int) : Len(q) = 0 => q = << >>
    OBVIOUS
  <2> QED BY <2>1, TotalEmpty
<1>2. ASSUME NEW n \in Nat, n \in S PROVE n + 1 \in S
  <2>1. SUFFICES ASSUME NEW q \in Seq(Int), Len(q) = n + 1 PROVE Total(q) \in Int
    OBVIOUS
  <2>2. PICK p \in Seq(Int), x \in Int : q = Append(p, x) /\ Len(p) = n
    BY <1>2, <2>1, LastOut
  <2>3. Total(p) \in Int
    BY <1>2, <2>1, <2>2
  <2> QED BY <2>2, <2>3, TotalAppend
<1> HIDE DEF S
<1>3. Len(s) \in S
  BY <1>1, <1>2, SetInduction
<1> QED BY <1>3 DEF S

\* Sums of three lists of which one is the sum of the others place by place.
LEMMA TotalAdds ==
  ASSUME NEW a \in Seq(Int), NEW b \in Seq(Int), NEW c \in Seq(Int),
         Len(b) = Len(a), Len(c) = Len(a), \A i \in 1 .. Len(a) : c[i] = a[i] + b[i]
  PROVE  Total(c) = Total(a) + Total(b)
PROOF
<1> DEFINE S == {n \in Nat : \A x, y, z \in Seq(Int) :
                   Len(x) = n /\ Len(y) = n /\ Len(z) = n /\ (\A i \in 1 .. n : z[i] = x[i] + y[i])
                     => Total(z) = Total(x) + Total(y)}
<1>1. 0 \in S
  <2>1. \A q \in Seq(Int) : Len(q) = 0 => q = << >>
    OBVIOUS
  <2> QED BY <2>1, TotalEmpty
<1>2. ASSUME NEW n \in Nat, n \in S PROVE n + 1 \in S
  <2>1. SUFFICES ASSUME NEW x \in Seq(Int), NEW y \in Seq(Int), NEW z \in Seq(Int),
                        Len(x) = n + 1, Len(y) = n + 1, Len(z) = n + 1,
                        \A i \in 1 .. n + 1 : z[i] = x[i] + y[i]
                 PROVE  Total(z) = Total(x) + Total(y)
    OBVIOUS
  <2>2. PICK x1 \in Seq(Int), x2 \in Int : x = Append(x1, x2) /\ Len(x1) = n
    BY <1>2, <2>1, LastOut
  <2>3. PICK y1 \in Seq(Int), y2 \in Int : y = Append(y1, y2) /\ Len(y1) = n
    BY <1>2, <2>1, LastOut
  <2>4. PICK z1 \in Seq(Int), z2 \in Int : z = Append(z1, z2) /\ Len(z1) = n
    BY <1>2, <2>1, LastOut
  <2>5. Len(x1) = n /\ Len(y1) = n /\ Len(z1) = n
    BY <2>1, <2>2, <2>3, <2>4
  <2>6. z2 = x2 + y2
    BY <2>1, <2>2, <2>3, <2>4, <2>5
  <2>7. \A i \in 1 .. n : z1[i] = x1[i] + y1[i]
    <3> SUFFICES ASSUME NEW i \in 1 .. n PROVE z1[i] = x1[i] + y1[i]
      OBVIOUS
    <3>1. i \in 1 .. n + 1 /\ x[i] = x1[i] /\ y[i] = y1[i] /\ z[i] = z1[i]
      BY <2>2, <2>3, <2>4, <2>5
    <3> QED BY <2>1, <3>1
  <2>8. Total(z1) = Total(x1) + Total(y1)
    BY <1>2, <2>5, <2>7
  <2>9. Total(x1) \in Int /\ Total(y1) \in Int
    BY TotalType
  <2> QED BY <2>2, <2>3, <2>4, <2>6, <2>8, <2>9, TotalAppend
<1> HIDE DEF S
<1>3. Nat \subseteq S
  BY <1>1, <1>2, SetInduction, Zenon
<1>4. Len(a) \in Nat
  OBVIOUS
<1>5. Len(a) \in S
  BY <1>3, <1>4
<1> QED BY <1>5 DEF S

\* A sum place by place no smaller is no smaller.
LEMMA TotalMonotonic ==
  ASSUME NEW a \in Seq(Int), NEW b \in Seq(Int), Len(b) = Len(a), \A i \in 1 .. Len(a) : a[i] <= b[i]
  PROVE  Total(a) <= Total(b)
PROOF
<1> DEFINE S == {n \in Nat : \A x, y \in Seq(Int) :
                   Len(x) = n /\ Len(y) = n /\ (\A i \in 1 .. n : x[i] <= y[i]) => Total(x) <= Total(y)}
<1>1. 0 \in S
  <2>1. \A q \in Seq(Int) : Len(q) = 0 => q = << >>
    OBVIOUS
  <2> QED BY <2>1, TotalEmpty
<1>2. ASSUME NEW n \in Nat, n \in S PROVE n + 1 \in S
  <2>1. SUFFICES ASSUME NEW x \in Seq(Int), NEW y \in Seq(Int), Len(x) = n + 1, Len(y) = n + 1,
                        \A i \in 1 .. n + 1 : x[i] <= y[i]
                 PROVE  Total(x) <= Total(y)
    OBVIOUS
  <2>2. PICK x1 \in Seq(Int), x2 \in Int : x = Append(x1, x2) /\ Len(x1) = n
    BY <1>2, <2>1, LastOut
  <2>3. PICK y1 \in Seq(Int), y2 \in Int : y = Append(y1, y2) /\ Len(y1) = n
    BY <1>2, <2>1, LastOut
  <2>4. Len(x1) = n /\ Len(y1) = n
    BY <2>1, <2>2, <2>3
  <2>5. x2 <= y2
    BY <2>1, <2>2, <2>3, <2>4
  <2>6. \A i \in 1 .. n : x1[i] <= y1[i]
    <3> SUFFICES ASSUME NEW i \in 1 .. n PROVE x1[i] <= y1[i]
      OBVIOUS
    <3>1. i \in 1 .. n + 1 /\ x[i] = x1[i] /\ y[i] = y1[i]
      BY <2>2, <2>3, <2>4
    <3> QED BY <2>1, <3>1
  <2>7. Total(x1) <= Total(y1)
    BY <1>2, <2>4, <2>6
  <2>8. Total(x1) \in Int /\ Total(y1) \in Int
    BY TotalType
  <2>9. Total(x) = Total(x1) + x2 /\ Total(y) = Total(y1) + y2
    BY <2>2, <2>3, TotalAppend
  <2> QED BY <2>5, <2>7, <2>8, <2>9
<1> HIDE DEF S
<1>3. Nat \subseteq S
  BY <1>1, <1>2, SetInduction, Zenon
<1>4. Len(a) \in Nat
  OBVIOUS
<1>5. Len(a) \in S
  BY <1>3, <1>4
<1> QED BY <1>5 DEF S

LEMMA TotalConcat ==
  ASSUME NEW a \in Seq(Int), NEW b \in Seq(Int)
  PROVE  Total(a \o b) = Total(a) + Total(b)
PROOF
<1> DEFINE S == {n \in Nat : \A x \in Seq(Int) : Len(x) = n => Total(a \o x) = Total(a) + Total(x)}
<1>0. Total(a) \in Int
  BY TotalType
<1>1. 0 \in S
  <2>1. SUFFICES ASSUME NEW x \in Seq(Int), Len(x) = 0 PROVE Total(a \o x) = Total(a) + Total(x)
    OBVIOUS
  <2>2. a \o x = a /\ x = << >>
    BY <2>1
  <2>3. Total(a \o x) = Total(a) /\ Total(x) = 0
    BY <2>2, TotalEmpty
  <2> QED BY <1>0, <2>3
<1>2. ASSUME NEW n \in Nat, n \in S PROVE n + 1 \in S
  <2>1. SUFFICES ASSUME NEW x \in Seq(Int), Len(x) = n + 1
                 PROVE  Total(a \o x) = Total(a) + Total(x)
    OBVIOUS
  <2>2. PICK y \in Seq(Int), z \in Int : x = Append(y, z) /\ Len(y) = n
    BY <1>2, <2>1, LastOut
  <2>3. a \o x = Append(a \o y, z) /\ a \o y \in Seq(Int)
    BY <2>2
  <2>4. Total(a \o y) = Total(a) + Total(y) /\ Total(y) \in Int
    BY <1>2, <2>2, TotalType
  <2>5. Total(a \o x) = Total(a \o y) + z /\ Total(x) = Total(y) + z
    BY <2>2, <2>3, TotalAppend
  <2> QED BY <1>0, <2>4, <2>5
<1> HIDE DEF S
<1>3. Nat \subseteq S
  BY <1>1, <1>2, SetInduction, Zenon
<1>4. Len(b) \in Nat
  OBVIOUS
<1>5. Len(b) \in S
  BY <1>3, <1>4
<1> QED BY <1>5 DEF S

LEMMA TotalZeros ==
  ASSUME NEW a \in Seq(Int), \A i \in 1 .. Len(a) : a[i] = 0
  PROVE  Total(a) = 0
PROOF
<1>1. Total(a) = Total(a) + Total(a)
  BY TotalAdds
<1> QED BY <1>1, TotalType

\* A list that goes on with zeros only.
LEMMA TotalExtends ==
  ASSUME NEW a \in Seq(Int), NEW b \in Seq(Int), Len(a) <= Len(b),
         \A i \in 1 .. Len(a) : b[i] = a[i],
         \A i \in (Len(a) + 1) .. Len(b) : b[i] = 0
  PROVE  Total(b) = Total(a)
PROOF
<1>1. PICK n, m : n = Len(a) /\ m = Len(b) - n /\ n \in Nat /\ m \in Nat
  BY SMTT(30)
<1>2. PICK c : c = [i \in 1 .. m |-> 0]
  OBVIOUS
<1>3. c \in Seq(Int) /\ Len(c) = m /\ \A i \in 1 .. m : c[i] = 0
  BY <1>1, <1>2
<1>4. Total(c) = 0
  BY <1>3, TotalZeros
<1>5. /\ a \o c \in Seq(Int) /\ Len(a \o c) = n + m
      /\ \A i \in 1 .. n + m : (a \o c)[i] = IF i <= n THEN a[i] ELSE c[i - n]
  <2>1. /\ a \o c \in Seq(Int) /\ Len(a \o c) = Len(a) + Len(c)
        /\ \A i \in 1 .. Len(a) + Len(c) : (a \o c)[i] = IF i <= Len(a) THEN a[i] ELSE c[i - Len(a)]
    BY <1>3, ConcatProperties, Zenon
  <2> QED BY <1>1, <1>3, <2>1
<1>6. Len(b) = n + m
  BY <1>1
<1>7. \A i \in 1 .. n + m : (a \o c)[i] = b[i]
  <2> SUFFICES ASSUME NEW i \in 1 .. n + m PROVE (a \o c)[i] = b[i]
    OBVIOUS
  <2>1. CASE i <= n
    <3>1. i \in 1 .. Len(a)
      BY <1>1, <2>1
    <3> QED BY <1>5, <2>1, <3>1
  <2>2. CASE ~(i <= n)
    <3>1. i \in (Len(a) + 1) .. Len(b) /\ i - n \in 1 .. m
      BY <1>1, <2>2
    <3> QED BY <1>3, <1>5, <2>2, <3>1
  <2> QED BY <2>1, <2>2
<1>8. b = a \o c
  BY <1>5, <1>6, <1>7, SeqEqual
<1>9. Total(b) = Total(a) + Total(c) /\ Total(a) \in Int
  BY <1>3, <1>8, TotalConcat, TotalType
<1> QED BY <1>4, <1>9

\* Two lists that differ at one place.
LEMMA TotalDiffers ==
  ASSUME NEW a \in Seq(Int), NEW b \in Seq(Int), Len(b) = Len(a), NEW j \in 1 .. Len(a),
         \A i \in 1 .. Len(a) : i # j => b[i] = a[i]
  PROVE  Total(b) = Total(a) + (b[j] - a[j])
PROOF
<1> DEFINE S == {n \in Nat : \A x, y \in Seq(Int) : \A k \in 1 .. n :
                   Len(x) = n /\ Len(y) = n /\ (\A i \in 1 .. n : i # k => y[i] = x[i])
                     => Total(y) = Total(x) + (y[k] - x[k])}
<1>1. 0 \in S
  <2>1. 1 .. 0 = {}
    OBVIOUS
  <2> QED BY <2>1
<1>2. ASSUME NEW n \in Nat, n \in S PROVE n + 1 \in S
  <2>1. SUFFICES ASSUME NEW x \in Seq(Int), NEW y \in Seq(Int), NEW k \in 1 .. n + 1,
                        Len(x) = n + 1, Len(y) = n + 1, \A i \in 1 .. n + 1 : i # k => y[i] = x[i]
                 PROVE  Total(y) = Total(x) + (y[k] - x[k])
    OBVIOUS
  <2>2. PICK x1 \in Seq(Int), x2 \in Int : x = Append(x1, x2) /\ Len(x1) = n
    BY <1>2, <2>1, LastOut
  <2>3. PICK y1 \in Seq(Int), y2 \in Int : y = Append(y1, y2) /\ Len(y1) = n
    BY <1>2, <2>1, LastOut
  <2>4. /\ \A i \in 1 .. n : x[i] = x1[i] /\ y[i] = y1[i]
        /\ x[n + 1] = x2 /\ y[n + 1] = y2
    BY <2>2, <2>3, SMTT(30)
  <2>5. Total(x) = Total(x1) + x2 /\ Total(y) = Total(y1) + y2 /\ Total(x1) \in Int /\ Total(y1) \in Int
    BY <2>2, <2>3, TotalAppend, TotalType
  <2>6. CASE k = n + 1
    <3>1. \A i \in 1 .. n : y1[i] = x1[i]
      BY <2>1, <2>4, <2>6
    <3>2. x1 = y1
      BY <2>2, <2>3, <3>1, SeqEqual
    <3>3. y[k] = y2 /\ x[k] = x2 /\ Total(x1) = Total(y1)
      BY <2>4, <2>6, <3>2
    <3> QED BY <2>5, <3>3
  <2>7. CASE k \in 1 .. n
    <3>0. 1 .. n \subseteq 1 .. n + 1 /\ n + 1 \in 1 .. n + 1 /\ k # n + 1
      BY <1>2, <2>7
    <3>1. \A i \in 1 .. n : i # k => y1[i] = x1[i]
      BY <2>1, <2>4, <3>0
    <3>2. Total(y1) = Total(x1) + (y1[k] - x1[k])
      BY <1>2, <2>2, <2>3, <2>7, <3>1
    <3>3. x2 = y2 /\ x[k] = x1[k] /\ y[k] = y1[k]
      BY <2>1, <2>4, <2>7, <3>0
    <3>4. x1[k] \in Int /\ y1[k] \in Int
      BY <2>2, <2>3, <2>7
    <3> DEFINE tx == Total(x)  ty == Total(y)  tx1 == Total(x1)  ty1 == Total(y1)
               xk == x[k]  yk == y[k]
    <3>5. tx = tx1 + x2 /\ ty = ty1 + x2 /\ tx1 \in Int /\ ty1 \in Int /\ x2 \in Int
      BY <2>2, <2>5, <3>3
    <3>6. ty1 = tx1 + (yk - xk) /\ xk \in Int /\ yk \in Int
      BY <3>2, <3>3, <3>4
    <3> HIDE DEF tx, ty, tx1, ty1, xk, yk
    <3>7. ty = tx + (yk - xk)
      BY <3>5, <3>6
    <3> QED BY <3>7 DEF tx, ty, xk, yk
  <2> QED BY <2>1, <2>6, <2>7
<1> HIDE DEF S
<1>3. Nat \subseteq S
  BY <1>1, <1>2, SetInduction, Zenon
<1>4. Len(a) \in Nat
  OBVIOUS
<1>5. Len(a) \in S
  BY <1>3, <1>4
<1> QED BY <1>5 DEF S

(***************************************************************************)
(* Picked sublists.                                                        *)
(***************************************************************************)
\* f maps a set of places of s to the sublist of those that are also in P.
Picks(s, P, f) ==
  f = [t \in SUBSET DOMAIN s |->
         IF t = {} THEN << >>
         ELSE IF Max(t) \in P THEN Append(f[t \ {Max(t)}], s[Max(t)]) ELSE f[t \ {Max(t)}]]

\* The same as the fold writes it.
PicksByFold(s, P, f) ==
  f = [t \in SUBSET DOMAIN [i \in DOMAIN s |-> i] |->
         IF t = {} THEN << >>
         ELSE IF [i \in DOMAIN s |-> i][Max(t)] \in P
              THEN Append(f[t \ {Max(t)}], s[[i \in DOMAIN s |-> i][Max(t)]])
              ELSE f[t \ {Max(t)}]]

LEMMA PickedIs ==
  ASSUME NEW s, NEW P
  PROVE  Picked(s, P) = (CHOOSE f : PicksByFold(s, P, f))[DOMAIN [i \in DOMAIN s |-> i]]
BY DEF Picked, FoldLeftDomain, FoldLeft, MapThenFoldSet, PicksByFold

LEMMA PicksSame ==
  ASSUME NEW T, NEW s \in Seq(T), NEW P, NEW f
  PROVE  PicksByFold(s, P, f) <=> Picks(s, P, f)
PROOF
<1>1. Len(s) \in Nat /\ DOMAIN s = 1 .. Len(s) /\ DOMAIN [i \in DOMAIN s |-> i] = DOMAIN s
  OBVIOUS
<1>2. \A t \in SUBSET DOMAIN s : t # {} => [i \in DOMAIN s |-> i][Max(t)] = Max(t)
  BY <1>1, MaxPlace
<1> DEFINE A(t) == IF t = {} THEN << >>
                   ELSE IF [i \in DOMAIN s |-> i][Max(t)] \in P
                        THEN Append(f[t \ {Max(t)}], s[[i \in DOMAIN s |-> i][Max(t)]])
                        ELSE f[t \ {Max(t)}]
           B(t) == IF t = {} THEN << >>
                   ELSE IF Max(t) \in P THEN Append(f[t \ {Max(t)}], s[Max(t)]) ELSE f[t \ {Max(t)}]
<1>3. \A t \in SUBSET DOMAIN s : A(t) = B(t)
  BY <1>2
<1>4. PicksByFold(s, P, f) <=> f = [t \in SUBSET DOMAIN s |-> A(t)]
  BY <1>1 DEF PicksByFold
<1>5. Picks(s, P, f) <=> f = [t \in SUBSET DOMAIN s |-> B(t)]
  BY DEF Picks
<1> HIDE DEF A, B
<1>6. [t \in SUBSET DOMAIN s |-> A(t)] = [t \in SUBSET DOMAIN s |-> B(t)]
  BY <1>3
<1> QED BY <1>4, <1>5, <1>6

LEMMA PicksUnique ==
  ASSUME NEW T, NEW s \in Seq(T), NEW P, NEW f, NEW g, Picks(s, P, f), Picks(s, P, g)
  PROVE  f = g
PROOF
<1>1. Len(s) \in Nat /\ DOMAIN s = 1 .. Len(s)
  OBVIOUS
<1> DEFINE S == {n \in Nat : \A t \in SUBSET DOMAIN s : t \subseteq 1 .. n => f[t] = g[t]}
<1>2. 0 \in S
  BY DEF Picks
<1>3. ASSUME NEW n \in Nat, n \in S PROVE n + 1 \in S
  <2>0. SUFFICES ASSUME NEW t \in SUBSET DOMAIN s, t \subseteq 1 .. n + 1 PROVE f[t] = g[t]
    OBVIOUS
  <2>1. CASE t = {}
    BY <2>1 DEF Picks
  <2> SUFFICES ASSUME t # {} PROVE f[t] = g[t]
    BY <2>1
  <2>2. Max(t) \in t /\ \A i \in t : i <= Max(t)
    BY <1>1, MaxPlace
  <2>3. t \ {Max(t)} \subseteq 1 .. n /\ t \ {Max(t)} \in SUBSET DOMAIN s
    BY <2>0, <2>2
  <2>4. f[t \ {Max(t)}] = g[t \ {Max(t)}]
    BY <1>3, <2>3
  <2> QED BY <2>4 DEF Picks
<1> HIDE DEF S
<1>4. Len(s) \in S
  BY <1>1, <1>2, <1>3, SetInduction
<1>5. \A t \in SUBSET DOMAIN s : f[t] = g[t]
  BY <1>1, <1>4 DEF S
<1> QED BY <1>5 DEF Picks

LEMMA PicksExist == ASSUME NEW T, NEW s \in Seq(T), NEW P PROVE \E f : Picks(s, P, f)
PROOF
<1> DEFINE S == {n \in Nat : \A q \in Seq(T) : Len(q) = n => \E f : Picks(q, P, f)}
<1>1. 0 \in S
  <2> SUFFICES ASSUME NEW q \in Seq(T), Len(q) = 0 PROVE \E f : Picks(q, P, f)
    OBVIOUS
  <2>1. DOMAIN q = {}
    OBVIOUS
  <2>2. Picks(q, P, [t \in SUBSET DOMAIN q |-> << >>])
    BY <2>1 DEF Picks
  <2> QED BY <2>2
<1>2. ASSUME NEW n \in Nat, n \in S PROVE n + 1 \in S
  <2>1. SUFFICES ASSUME NEW q \in Seq(T), Len(q) = n + 1 PROVE \E f : Picks(q, P, f)
    OBVIOUS
  <2>2. PICK p : p = SubSeq(q, 1, n)
    OBVIOUS
  <2>3. /\ p \in Seq(T) /\ Len(p) = n /\ DOMAIN p = 1 .. n /\ DOMAIN q = 1 .. n + 1
        /\ \A i \in 1 .. n : p[i] = q[i]
    BY <2>1, <2>2
  <2>4. PICK f : Picks(p, P, f)
    BY <1>2, <2>3
  <2> DEFINE g == [t \in SUBSET DOMAIN q |->
                     IF n + 1 \in t
                     THEN IF n + 1 \in P THEN Append(f[t \ {n + 1}], q[n + 1]) ELSE f[t \ {n + 1}]
                     ELSE f[t]]
  <2>5. ASSUME NEW t \in SUBSET DOMAIN q
        PROVE  g[t] = IF t = {} THEN << >>
                      ELSE IF Max(t) \in P THEN Append(g[t \ {Max(t)}], q[Max(t)])
                      ELSE g[t \ {Max(t)}]
    <3>1. CASE n + 1 \in t
      <4>1. Max(t) = n + 1
        <5>1. Max(t) \in t /\ \A i \in t : i <= Max(t)
          <6>1. n + 1 \in Nat /\ t \in SUBSET (1 .. n + 1) /\ t # {}
            BY <2>3, <3>1
          <6> QED BY <6>1, MaxPlace
        <5> QED BY <2>3, <3>1, <5>1
      <4>2. t \ {n + 1} \in SUBSET DOMAIN q
        OBVIOUS
      <4> QED BY <3>1, <4>1, <4>2
    <3>2. CASE n + 1 \notin t /\ t # {}
      <4>1. t \in SUBSET DOMAIN p
        BY <2>3, <3>2
      <4>2. Max(t) \in t /\ Max(t) \in DOMAIN p
        BY <2>3, <3>2, <4>1, MaxPlace
      <4>3. f[t] = IF Max(t) \in P THEN Append(f[t \ {Max(t)}], p[Max(t)]) ELSE f[t \ {Max(t)}]
        BY <2>4, <3>2, <4>1 DEF Picks
      <4>4. t \ {Max(t)} \in SUBSET DOMAIN q /\ n + 1 \notin t \ {Max(t)}
        BY <3>2
      <4> QED BY <2>3, <3>2, <4>2, <4>3, <4>4
    <3>3. CASE t = {}
      <4>1. f[{}] = << >>
        BY <2>4 DEF Picks
      <4> QED BY <3>3, <4>1
    <3> QED BY <3>1, <3>2, <3>3
  <2>6. Picks(q, P, g)
    BY <2>5 DEF Picks
  <2> QED BY <2>6
<1> HIDE DEF S
<1>3. Len(s) \in S
  BY <1>1, <1>2, SetInduction
<1> QED BY <1>3 DEF S

\* The fold is the function.
LEMMA PickedBy ==
  ASSUME NEW T, NEW s \in Seq(T), NEW P, NEW f, Picks(s, P, f)
  PROVE  Picked(s, P) = f[1 .. Len(s)]
PROOF
<1>1. PICK g : g = (CHOOSE h : PicksByFold(s, P, h))
  OBVIOUS
<1>2. PicksByFold(s, P, g)
  BY <1>1, PicksSame
<1>3. g = f
  BY <1>2, PicksSame, PicksUnique
<1>4. DOMAIN [i \in DOMAIN s |-> i] = 1 .. Len(s)
  OBVIOUS
<1> QED BY <1>1, <1>3, <1>4, PickedIs

LEMMA PickedEmpty == ASSUME NEW P PROVE Picked(<< >>, P) = << >>
PROOF
<1>1. << >> \in Seq({}) /\ 1 .. Len(<< >>) = {} /\ DOMAIN << >> = {}
  OBVIOUS
<1>2. PICK f : Picks(<< >>, P, f)
  BY <1>1, PicksExist
<1>3. f[{}] = << >>
  BY <1>1, <1>2 DEF Picks
<1> QED BY <1>1, <1>2, <1>3, PickedBy

LEMMA PickedAppend ==
  ASSUME NEW T, NEW s \in Seq(T), NEW x \in T, NEW P
  PROVE  Picked(Append(s, x), P) = IF Len(s) + 1 \in P THEN Append(Picked(s, P), x) ELSE Picked(s, P)
PROOF
<1>1. PICK q : q = Append(s, x)
  OBVIOUS
<1>2. /\ Len(s) \in Nat /\ DOMAIN s = 1 .. Len(s) /\ DOMAIN q = 1 .. Len(s) + 1
      /\ q[Len(s) + 1] = x /\ q \in Seq(T) /\ Len(q) = Len(s) + 1
      /\ \A i \in 1 .. Len(s) : q[i] = s[i]
  BY <1>1
<1>3. PICK g : Picks(q, P, g)
  BY <1>2, PicksExist
<1> DEFINE f == [t \in SUBSET DOMAIN s |-> g[t]]
<1>4. ASSUME NEW t \in SUBSET DOMAIN s
      PROVE  f[t] = IF t = {} THEN << >>
                    ELSE IF Max(t) \in P THEN Append(f[t \ {Max(t)}], s[Max(t)]) ELSE f[t \ {Max(t)}]
  <2>1. t \in SUBSET DOMAIN q /\ t \ {Max(t)} \in SUBSET DOMAIN s
    BY <1>2
  <2>2. g[t] = IF t = {} THEN << >>
               ELSE IF Max(t) \in P THEN Append(g[t \ {Max(t)}], q[Max(t)]) ELSE g[t \ {Max(t)}]
    BY <1>3, <2>1 DEF Picks
  <2>3. t # {} => q[Max(t)] = s[Max(t)]
    BY <1>2, MaxPlace
  <2> QED BY <2>1, <2>2, <2>3
<1>5. Picks(s, P, f)
  BY <1>4 DEF Picks
<1>6. Picked(s, P) = g[1 .. Len(s)]
  BY <1>2, <1>5, PickedBy
<1>7. PICK t : t = 1 .. Len(s) + 1
  OBVIOUS
<1>8. t \in SUBSET DOMAIN q /\ t # {} /\ Max(t) = Len(s) + 1 /\ t \ {Max(t)} = 1 .. Len(s)
  <2>1. Max(t) \in t /\ \A i \in t : i <= Max(t)
    <3>1. Len(s) + 1 \in Nat /\ t \in SUBSET (1 .. Len(s) + 1) /\ Len(s) + 1 \in t
      BY <1>2, <1>7
    <3> QED BY <3>1, MaxPlace
  <2>2. Max(t) = Len(s) + 1
    BY <1>2, <1>7, <2>1
  <2> QED BY <1>2, <1>7, <2>2
<1>9. Picked(q, P) = g[t]
  BY <1>2, <1>3, <1>7, PickedBy
<1>10. g[t] = IF Len(s) + 1 \in P THEN Append(g[1 .. Len(s)], x) ELSE g[1 .. Len(s)]
  BY <1>2, <1>3, <1>8, ZenonT(30) DEF Picks
<1> QED BY <1>1, <1>6, <1>9, <1>10

\* Only the places of the list count.
LEMMA PickedSame ==
  ASSUME NEW T, NEW s \in Seq(T), NEW P, NEW Q, \A i \in 1 .. Len(s) : i \in P <=> i \in Q
  PROVE  Picked(s, P) = Picked(s, Q)
PROOF
<1>1. DOMAIN s = 1 .. Len(s) /\ Len(s) \in Nat
  OBVIOUS
<1>2. PICK f : Picks(s, P, f)
  BY PicksExist
<1>3. ASSUME NEW t \in SUBSET DOMAIN s
      PROVE  f[t] = IF t = {} THEN << >>
                    ELSE IF Max(t) \in Q THEN Append(f[t \ {Max(t)}], s[Max(t)]) ELSE f[t \ {Max(t)}]
  <2>1. f[t] = IF t = {} THEN << >>
               ELSE IF Max(t) \in P THEN Append(f[t \ {Max(t)}], s[Max(t)]) ELSE f[t \ {Max(t)}]
    BY <1>2 DEF Picks
  <2>2. t # {} => (Max(t) \in P <=> Max(t) \in Q)
    BY <1>1, MaxPlace
  <2> QED BY <2>1, <2>2
<1>4. f = [t \in SUBSET DOMAIN s |-> f[t]]
  BY <1>2 DEF Picks
<1>5. Picks(s, Q, f)
  BY <1>3, <1>4 DEF Picks
<1> QED BY <1>2, <1>5, PickedBy

\* Which elements are picked: those of the places, in the order of the list.
PickedAt(s, P, out, at) ==
  /\ Len(out) = Len(at)
  /\ \A k \in 1 .. Len(at) : at[k] \in P /\ at[k] \in 1 .. Len(s) /\ out[k] = s[at[k]]
  /\ \A i \in 1 .. Len(s) : i \in P => \E k \in 1 .. Len(at) : at[k] = i
  /\ \A j, k \in 1 .. Len(at) : j < k => at[j] < at[k]

LEMMA PickedPlaces ==
  ASSUME NEW T, NEW s \in Seq(T), NEW P
  PROVE  Picked(s, P) \in Seq(T) /\ \E at \in Seq(Nat) : PickedAt(s, P, Picked(s, P), at)
PROOF
<1> DEFINE Good(x) == Picked(x, P) \in Seq(T) /\ \E at \in Seq(Nat) : PickedAt(x, P, Picked(x, P), at)
           S == {n \in Nat : \A x \in Seq(T) : Len(x) = n => Good(x)}
<1>1. 0 \in S
  <2> SUFFICES ASSUME NEW x \in Seq(T), Len(x) = 0 PROVE Good(x)
    OBVIOUS
  <2>1. x = << >>
    OBVIOUS
  <2>2. Picked(x, P) = << >>
    BY <2>1, PickedEmpty
  <2>3. PickedAt(x, P, << >>, << >>)
    BY <2>1 DEF PickedAt
  <2>4. << >> \in Seq(T) /\ << >> \in Seq(Nat)
    OBVIOUS
  <2> QED BY <2>2, <2>3, <2>4
<1>2. ASSUME NEW n \in Nat, n \in S PROVE n + 1 \in S
  <2>1. SUFFICES ASSUME NEW x \in Seq(T), Len(x) = n + 1 PROVE Good(x)
    OBVIOUS
  <2>2. PICK y \in Seq(T), z \in T : x = Append(y, z) /\ Len(y) = n
    BY <1>2, <2>1, LastOut
  <2>3. /\ \A i \in 1 .. n : x[i] = y[i]
        /\ x[n + 1] = z
    BY <2>2
  <2>4. PICK out, at : out = Picked(y, P) /\ out \in Seq(T) /\ at \in Seq(Nat) /\ PickedAt(y, P, out, at)
    BY <1>2, <2>2
  <2>5. CASE n + 1 \in P
    <3>1. Picked(x, P) = Append(out, z)
      BY <2>2, <2>4, <2>5, PickedAppend
    <3>2. PICK o, a : o = Append(out, z) /\ a = Append(at, n + 1)
      OBVIOUS
    <3>3. PICK m : m = Len(at) /\ m \in Nat /\ Len(out) = m
      BY <2>4 DEF PickedAt
    <3>4. /\ o \in Seq(T) /\ a \in Seq(Nat) /\ Len(o) = m + 1 /\ Len(a) = m + 1
          /\ \A k \in 1 .. m : o[k] = out[k] /\ a[k] = at[k]
          /\ o[m + 1] = z /\ a[m + 1] = n + 1
      <4>1. /\ o \in Seq(T) /\ Len(o) = m + 1 /\ o[m + 1] = z /\ \A k \in 1 .. m : o[k] = out[k]
        BY <2>2, <2>4, <3>2, <3>3
      <4>2. /\ a \in Seq(Nat) /\ Len(a) = m + 1 /\ a[m + 1] = n + 1 /\ \A k \in 1 .. m : a[k] = at[k]
        BY <1>2, <2>4, <3>2, <3>3
      <4> QED BY <4>1, <4>2
    <3>5. \A k \in 1 .. m + 1 : k \in 1 .. m \/ k = m + 1
      BY <3>3
    <3>6. \A k \in 1 .. m : /\ at[k] \in P /\ at[k] \in 1 .. n /\ out[k] = y[at[k]]
      BY <2>2, <2>4, <3>3 DEF PickedAt
    <3>7. \A k \in 1 .. m + 1 : a[k] \in P /\ a[k] \in 1 .. n + 1 /\ o[k] = x[a[k]]
      <4> SUFFICES ASSUME NEW k \in 1 .. m + 1
                   PROVE  a[k] \in P /\ a[k] \in 1 .. n + 1 /\ o[k] = x[a[k]]
        OBVIOUS
      <4>1. CASE k \in 1 .. m
        <5>1. a[k] = at[k] /\ o[k] = out[k] /\ at[k] \in P /\ at[k] \in 1 .. n /\ out[k] = y[at[k]]
          BY <3>4, <3>6, <4>1
        <5>2. at[k] \in 1 .. n + 1 /\ x[at[k]] = y[at[k]]
          BY <2>3, <5>1
        <5> QED BY <5>1, <5>2
      <4>2. CASE k = m + 1
        BY <2>3, <2>5, <3>4, <4>2
      <4> QED BY <3>5, <4>1, <4>2
    <3>8. \A i \in 1 .. n + 1 : i \in P => \E k \in 1 .. m + 1 : a[k] = i
      <4> SUFFICES ASSUME NEW i \in 1 .. n + 1, i \in P PROVE \E k \in 1 .. m + 1 : a[k] = i
        OBVIOUS
      <4>1. CASE i = n + 1
        <5>1. m + 1 \in 1 .. m + 1
          BY <3>3
        <5> QED BY <3>4, <4>1, <5>1
      <4>2. CASE i # n + 1
        <5>1. i \in 1 .. n
          BY <4>2
        <5>2. PICK k \in 1 .. m : at[k] = i
          BY <2>2, <2>4, <3>3, <5>1 DEF PickedAt
        <5>3. k \in 1 .. m + 1
          BY <3>3
        <5> QED BY <3>4, <5>2, <5>3
      <4> QED BY <4>1, <4>2
    <3>9. \A j, k \in 1 .. m + 1 : j < k => a[j] < a[k]
      <4> SUFFICES ASSUME NEW j \in 1 .. m + 1, NEW k \in 1 .. m + 1, j < k PROVE a[j] < a[k]
        OBVIOUS
      <4>0. j \in 1 .. m
        BY <3>3
      <4>1. CASE k \in 1 .. m
        BY <2>4, <3>3, <3>4, <4>0, <4>1 DEF PickedAt
      <4>2. CASE k = m + 1
        BY <3>4, <3>6, <4>0, <4>2
      <4> QED BY <3>5, <4>1, <4>2
    <3>10. PickedAt(x, P, o, a)
      BY <2>1, <3>4, <3>7, <3>8, <3>9 DEF PickedAt
    <3> QED BY <3>1, <3>2, <3>4, <3>10
  <2>6. CASE n + 1 \notin P
    <3>1. Picked(x, P) = out
      BY <2>2, <2>4, <2>6, PickedAppend
    <3>2. PickedAt(x, P, out, at)
      <4>1. \A i \in 1 .. n + 1 : i \in P => i \in 1 .. n
        BY <2>6
      <4>2. \A k \in 1 .. Len(at) : at[k] \in 1 .. n /\ at[k] \in 1 .. n + 1 /\ out[k] = x[at[k]]
        BY <2>2, <2>3, <2>4 DEF PickedAt
      <4> QED BY <2>1, <2>2, <2>4, <4>1, <4>2 DEF PickedAt
    <3> QED BY <2>4, <3>1, <3>2
  <2> QED BY <2>5, <2>6
<1> HIDE DEF S
<1>3. Nat \subseteq S
  BY <1>1, <1>2, SetInduction, Zenon
<1>4. Len(s) \in Nat
  OBVIOUS
<1>5. Len(s) \in S
  BY <1>3, <1>4
<1> QED BY <1>5 DEF S

\* Nothing to pick, and one element to pick.
LEMMA PickedNone ==
  ASSUME NEW T, NEW s \in Seq(T), NEW P, \A i \in 1 .. Len(s) : i \notin P
  PROVE  Picked(s, P) = << >>
PROOF
<1>1. PICK out, at : out = Picked(s, P) /\ out \in Seq(T) /\ at \in Seq(Nat) /\ PickedAt(s, P, out, at)
  BY PickedPlaces
<1>2. Len(at) = 0
  <2>1. \A k \in 1 .. Len(at) : FALSE
    BY <1>1 DEF PickedAt
  <2>2. Len(at) \in Nat
    BY <1>1
  <2> QED BY <2>1, <2>2
<1> QED BY <1>1, <1>2 DEF PickedAt

LEMMA PickedOne ==
  ASSUME NEW T, NEW s \in Seq(T), NEW P, NEW j \in 1 .. Len(s), \A i \in 1 .. Len(s) : i \in P <=> i = j
  PROVE  Picked(s, P) = <<s[j]>>
PROOF
<1>1. PICK out, at : out = Picked(s, P) /\ out \in Seq(T) /\ at \in Seq(Nat) /\ PickedAt(s, P, out, at)
  BY PickedPlaces
<1>2. PICK m : m = Len(at) /\ m \in Nat /\ Len(out) = m
  BY <1>1 DEF PickedAt
<1>3. \A k \in 1 .. m : at[k] = j /\ out[k] = s[at[k]]
  BY <1>1, <1>2 DEF PickedAt
<1>4. \E k \in 1 .. m : at[k] = j
  BY <1>1, <1>2 DEF PickedAt
<1>5. ~(1 < m)
  <2>1. SUFFICES ASSUME 1 < m PROVE FALSE
    OBVIOUS
  <2>2. 1 \in 1 .. m /\ m \in 1 .. m
    BY <1>2, <2>1
  <2>3. at[1] < at[m]
    BY <1>1, <1>2, <2>1, <2>2 DEF PickedAt
  <2> QED BY <1>3, <2>2, <2>3
<1>6. m = 1
  BY <1>2, <1>4, <1>5
<1>7. out[1] = s[j]
  BY <1>3, <1>6
<1> QED BY <1>1, <1>2, <1>6, <1>7

(***************************************************************************)
(* The largest of some values.                                             *)
(***************************************************************************)
LEMMA LargestValue ==
  ASSUME NEW n \in Nat, NEW f, \A i \in 1 .. n : f[i] \in Int, NEW e \in Int,
         NEW all, \A x : x \in all <=> x = e \/ \E i \in 1 .. n : x = f[i]
  PROVE  Max(all) \in all /\ Max(all) \in Int /\ \A x \in all : x <= Max(all)
PROOF
<1> DEFINE S == {m \in Nat : m <= n => \E t \in Int :
                   (t = e \/ \E i \in 1 .. m : t = f[i]) /\ t >= e /\ \A i \in 1 .. m : t >= f[i]}
<1>1. 0 \in S
  OBVIOUS
<1>2. ASSUME NEW m \in Nat, m \in S PROVE m + 1 \in S
  <2>1. SUFFICES ASSUME m + 1 <= n
                 PROVE  \E t \in Int : /\ t = e \/ \E i \in 1 .. m + 1 : t = f[i]
                                       /\ t >= e /\ \A i \in 1 .. m + 1 : t >= f[i]
    OBVIOUS
  <2>2. PICK t \in Int : (t = e \/ \E i \in 1 .. m : t = f[i]) /\ t >= e /\ \A i \in 1 .. m : t >= f[i]
    BY <1>2, <2>1
  <2>3. m + 1 \in 1 .. n /\ f[m + 1] \in Int /\ m + 1 \in 1 .. m + 1
    BY <2>1
  <2>4. \A i \in 1 .. m + 1 : i \in 1 .. m \/ i = m + 1
    OBVIOUS
  <2>5. CASE f[m + 1] > t
    <3>1. PICK x \in Int : x = f[m + 1]
      BY <2>3
    <3>2. x >= e /\ (\A i \in 1 .. m : x >= f[i])
      <4>1. \A i \in 1 .. m : f[i] \in Int
        BY <2>1
      <4> QED BY <2>2, <2>5, <3>1, <4>1
    <3>3. \A i \in 1 .. m + 1 : x >= f[i]
      BY <2>4, <3>1, <3>2
    <3> QED BY <2>3, <3>1, <3>2, <3>3
  <2>6. CASE ~(f[m + 1] > t)
    <3>1. t >= f[m + 1]
      BY <2>3, <2>6
    <3>2. \A i \in 1 .. m + 1 : t >= f[i]
      BY <2>2, <2>4, <3>1
    <3>3. t = e \/ \E i \in 1 .. m + 1 : t = f[i]
      BY <2>2
    <3> QED BY <2>2, <3>2, <3>3
  <2> QED BY <2>5, <2>6
<1> HIDE DEF S
<1>3. n \in S
  BY <1>1, <1>2, SetInduction
<1>4. PICK t \in Int : (t = e \/ \E i \in 1 .. n : t = f[i]) /\ t >= e /\ \A i \in 1 .. n : t >= f[i]
  BY <1>3 DEF S
<1>5. t \in all /\ \A x \in all : t >= x
  BY <1>4
<1>6. Max(all) \in all /\ \A x \in all : Max(all) >= x
  BY <1>5 DEF Max
<1>7. all \subseteq Int
  OBVIOUS
<1> QED BY <1>6, <1>7

(***************************************************************************)
(* A sum does not depend on the order.                                     *)
(***************************************************************************)
\* The list without its j-th element.
Without(s, j) == [i \in 1 .. Len(s) - 1 |-> IF i < j THEN s[i] ELSE s[i + 1]]

LEMMA WithoutIs ==
  ASSUME NEW T, NEW s \in Seq(T), NEW j \in 1 .. Len(s)
  PROVE  /\ Without(s, j) \in Seq(T) /\ Len(Without(s, j)) = Len(s) - 1 /\ Len(s) - 1 \in Nat
         /\ \A i \in 1 .. Len(s) - 1 : Without(s, j)[i] = IF i < j THEN s[i] ELSE s[i + 1]
PROOF
<1>1. PICK n \in Nat : n = Len(s) - 1 /\ Len(s) = n + 1
  OBVIOUS
<1>2. \A i \in 1 .. n : i \in 1 .. Len(s) /\ i + 1 \in 1 .. Len(s)
  BY <1>1
<1>3. Without(s, j) = [i \in 1 .. n |-> IF i < j THEN s[i] ELSE s[i + 1]]
  BY <1>1 DEF Without
<1>4. \A i \in 1 .. n : (IF i < j THEN s[i] ELSE s[i + 1]) \in T
  BY <1>2
<1> QED BY <1>1, <1>3, <1>4

LEMMA TotalWithout ==
  ASSUME NEW s \in Seq(Int), NEW j \in 1 .. Len(s)
  PROVE  Total(s) = Total(Without(s, j)) + s[j]
PROOF
<1> DEFINE S == {n \in Nat : \A x \in Seq(Int) : \A k \in 1 .. n : Len(x) = n => Total(x) = Total(Without(x, k)) + x[k]}
<1>1. 0 \in S
  <2>1. 1 .. 0 = {}
    OBVIOUS
  <2> QED BY <2>1
<1>2. ASSUME NEW n \in Nat, n \in S PROVE n + 1 \in S
  <2>1. SUFFICES ASSUME NEW x \in Seq(Int), NEW k \in 1 .. n + 1, Len(x) = n + 1
                 PROVE  Total(x) = Total(Without(x, k)) + x[k]
    OBVIOUS
  <2>2. PICK p \in Seq(Int), e \in Int : x = Append(p, e) /\ Len(p) = n
    BY <1>2, <2>1, LastOut
  <2>3. x[n + 1] = e /\ \A i \in 1 .. n : x[i] = p[i]
    BY <2>2
  <2>4. Total(x) = Total(p) + e /\ Total(p) \in Int
    BY <2>2, TotalAppend, TotalType
  <2>5. PICK w \in Seq(Int) : w = Without(x, k) /\ Len(w) = n /\ \A i \in 1 .. n : w[i] = IF i < k THEN x[i] ELSE x[i + 1]
    <3>1. k \in 1 .. Len(x) /\ Len(x) - 1 = n
      BY <2>1
    <3> QED BY <3>1, WithoutIs, ZenonT(30)
  <2>6. CASE k = n + 1
    <3>1. \A i \in 1 .. n : w[i] = p[i]
      BY <2>3, <2>5, <2>6
    <3>2. w = p
      BY <2>2, <2>5, <3>1, SeqEqual
    <3> QED BY <2>3, <2>4, <2>5, <2>6, <3>2
  <2>7. CASE k # n + 1
    <3>1. k \in 1 .. n /\ n - 1 \in Nat /\ n # 0
      BY <2>7
    <3>2. PICK v : v = Without(p, k) /\ v \in Seq(Int) /\ Len(v) = n - 1
                   /\ \A i \in 1 .. n - 1 : v[i] = IF i < k THEN p[i] ELSE p[i + 1]
      <4>1. k \in 1 .. Len(p) /\ Len(p) = n
        BY <2>2, <3>1
      <4> QED BY <4>1, WithoutIs
    <3>3. Total(p) = Total(v) + p[k] /\ Total(v) \in Int /\ p[k] \in Int
      BY <1>2, <2>2, <3>1, <3>2, TotalType
    <3>4. Total(Append(v, e)) = Total(v) + e /\ Append(v, e) \in Seq(Int) /\ Len(Append(v, e)) = n
      BY <2>2, <3>1, <3>2, TotalAppend
    <3>5. \A i \in 1 .. n : w[i] = Append(v, e)[i]
      <4> SUFFICES ASSUME NEW i \in 1 .. n PROVE w[i] = Append(v, e)[i]
        OBVIOUS
      <4>1. CASE i = n
        <5>1. w[i] = x[n + 1]
          BY <2>5, <3>1, <4>1
        <5>2. Append(v, e)[i] = e
          BY <3>1, <3>2, <4>1
        <5> QED BY <2>3, <5>1, <5>2
      <4>2. CASE i # n
        <5>1. i \in 1 .. n - 1 /\ i + 1 \in 1 .. n
          BY <4>2
        <5>2. w[i] = IF i < k THEN p[i] ELSE p[i + 1]
          BY <2>3, <2>5, <5>1
        <5>3. Append(v, e)[i] = v[i]
          BY <3>2, <5>1
        <5> QED BY <3>2, <5>1, <5>2, <5>3
      <4> QED BY <4>1, <4>2
    <3>6. w = Append(v, e)
      BY <2>5, <3>4, <3>5, SeqEqual
    <3>7. x[k] = p[k]
      BY <2>3, <3>1
    <3> QED BY <2>4, <2>5, <3>3, <3>4, <3>6, <3>7
  <2> QED BY <2>6, <2>7
<1> HIDE DEF S
<1>3. Len(s) \in S
  <2>1. Len(s) \in Nat
    OBVIOUS
  <2> QED BY <1>1, <1>2, <2>1, SetInduction
<1> QED BY <1>3 DEF S

\* The values of the elements of a list.
Values(v, a) == [i \in DOMAIN a |-> v[a[i]]]

LEMMA ValuesType ==
  ASSUME NEW T, NEW v \in [T -> Int], NEW a \in Seq(T)
  PROVE  Values(v, a) \in Seq(Int) /\ Len(Values(v, a)) = Len(a) /\ \A i \in 1 .. Len(a) : Values(v, a)[i] = v[a[i]]
PROOF
<1>1. Len(a) \in Nat /\ DOMAIN a = 1 .. Len(a) /\ \A i \in 1 .. Len(a) : a[i] \in T
  OBVIOUS
<1>2. \A i \in 1 .. Len(a) : v[a[i]] \in Int
  BY <1>1
<1> QED BY <1>1, <1>2 DEF Values

LEMMA ValuesAppend ==
  ASSUME NEW T, NEW v \in [T -> Int], NEW p \in Seq(T), NEW e \in T
  PROVE  /\ Values(v, Append(p, e)) = Append(Values(v, p), v[e])
         /\ Total(Values(v, Append(p, e))) = Total(Values(v, p)) + v[e]
PROOF
<1>0. Len(p) \in Nat /\ Append(p, e) \in Seq(T) /\ v[e] \in Int
  OBVIOUS
<1>1. PICK n \in Nat, x \in Seq(T), u \in Int : n = Len(p) /\ x = Append(p, e) /\ u = v[e]
  BY <1>0, Zenon
<1>2. Len(x) = n + 1 /\ x[n + 1] = e /\ \A i \in 1 .. n : x[i] = p[i]
  BY <1>1
<1>3. PICK a, b : a = Values(v, p) /\ b = Values(v, x)
  OBVIOUS
<1>4. a \in Seq(Int) /\ Len(a) = n /\ \A i \in 1 .. n : a[i] = v[p[i]]
  BY <1>1, <1>3, ValuesType
<1>5. b \in Seq(Int) /\ Len(b) = n + 1 /\ \A i \in 1 .. n + 1 : b[i] = v[x[i]]
  <2>1. b \in Seq(Int) /\ Len(b) = Len(x) /\ \A i \in 1 .. Len(x) : b[i] = v[x[i]]
    BY <1>3, ValuesType
  <2> QED BY <1>2, <2>1
<1>6. Append(a, u) \in Seq(Int) /\ Len(Append(a, u)) = n + 1 /\ Append(a, u)[n + 1] = u
      /\ \A i \in 1 .. n : Append(a, u)[i] = a[i]
  BY <1>4
<1>7. b[n + 1] = u /\ \A i \in 1 .. n : b[i] = a[i]
  BY <1>1, <1>2, <1>4, <1>5
<1>8. \A i \in 1 .. n + 1 : b[i] = Append(a, u)[i]
  BY <1>6, <1>7
<1>9. b = Append(a, u)
  BY <1>5, <1>6, <1>8, SeqEqual
<1>10. Total(b) = Total(a) + u
  BY <1>4, <1>9, TotalAppend
<1> QED BY <1>1, <1>3, <1>9, <1>10

LEMMA ValuesWithout ==
  ASSUME NEW T, NEW v \in [T -> Int], NEW y \in Seq(T), NEW j \in 1 .. Len(y)
  PROVE  Total(Values(v, y)) = Total(Values(v, Without(y, j))) + v[y[j]]
PROOF
<1>1. PICK m \in Nat : Len(y) = m + 1 /\ m = Len(y) - 1
  OBVIOUS
<1>2. PICK w, a, b : w = Without(y, j) /\ a = Values(v, y) /\ b = Values(v, w)
  OBVIOUS
<1>3. w \in Seq(T) /\ Len(w) = m /\ \A i \in 1 .. m : w[i] = IF i < j THEN y[i] ELSE y[i + 1]
  BY <1>1, <1>2, WithoutIs
<1>4. a \in Seq(Int) /\ Len(a) = m + 1 /\ \A i \in 1 .. m + 1 : a[i] = v[y[i]]
  <2>1. a \in Seq(Int) /\ Len(a) = Len(y) /\ \A i \in 1 .. Len(y) : a[i] = v[y[i]]
    BY <1>2, ValuesType
  <2> QED BY <1>1, <2>1
<1>5. b \in Seq(Int) /\ Len(b) = m /\ \A i \in 1 .. m : b[i] = v[w[i]]
  <2>1. b \in Seq(Int) /\ Len(b) = Len(w) /\ \A i \in 1 .. Len(w) : b[i] = v[w[i]]
    <3>1. w \in Seq(T) /\ b = Values(v, w)
      BY <1>2, <1>3
    <3> QED BY <3>1, ValuesType, SMTT(30)
  <2> QED BY <1>3, <2>1
<1>6. PICK c : c = Without(a, j)
  OBVIOUS
<1>7. c \in Seq(Int) /\ Len(c) = m /\ \A i \in 1 .. m : c[i] = IF i < j THEN a[i] ELSE a[i + 1]
  <2>1. j \in 1 .. Len(a) /\ Len(a) - 1 = m
    BY <1>1, <1>4
  <2> QED BY <1>4, <1>6, <2>1, WithoutIs
<1>8. \A i \in 1 .. m : i \in 1 .. m + 1 /\ i + 1 \in 1 .. m + 1
  OBVIOUS
<1>9. \A i \in 1 .. m : c[i] = b[i]
  BY <1>3, <1>4, <1>5, <1>7, <1>8, ZenonT(30)
<1>10. c = b
  BY <1>5, <1>7, <1>9, SeqEqual
<1>11. j \in 1 .. Len(a) /\ a[j] = v[y[j]]
  BY <1>1, <1>4
<1>12. Total(a) = Total(c) + a[j]
  BY <1>4, <1>6, <1>11, TotalWithout
<1> QED BY <1>2, <1>10, <1>11, <1>12

OneToOne(a) == \A i, j \in 1 .. Len(a) : a[i] = a[j] => i = j
Within(a, b) == \A i \in 1 .. Len(a) : \E j \in 1 .. Len(b) : a[i] = b[j]

\* The last element of the one list is taken out of both.
LEMMA OneOut ==
  ASSUME NEW T, NEW p \in Seq(T), NEW e \in T, NEW y \in Seq(T),
         OneToOne(Append(p, e)), OneToOne(y), Within(Append(p, e), y), Within(y, Append(p, e))
  PROVE  /\ OneToOne(p)
         /\ \E j \in 1 .. Len(y) : /\ y[j] = e /\ OneToOne(Without(y, j))
                                   /\ Within(p, Without(y, j)) /\ Within(Without(y, j), p)
PROOF
<1>0. Len(p) \in Nat /\ Append(p, e) \in Seq(T)
  OBVIOUS
<1>1. PICK n \in Nat, x \in Seq(T) : n = Len(p) /\ x = Append(p, e)
  BY <1>0, Zenon
<1>2. x[n + 1] = e /\ (\A i \in 1 .. n : x[i] = p[i]) /\ Len(x) = n + 1
  BY <1>1
<1>3. n + 1 \in 1 .. n + 1 /\ \A i \in 1 .. n : i \in 1 .. n + 1 /\ i # n + 1
  OBVIOUS
<1>4. /\ \A i, k \in 1 .. n + 1 : x[i] = x[k] => i = k
      /\ \A i \in 1 .. n + 1 : \E k \in 1 .. Len(y) : x[i] = y[k]
      /\ \A k \in 1 .. Len(y) : \E i \in 1 .. n + 1 : y[k] = x[i]
      /\ \A i, k \in 1 .. Len(y) : y[i] = y[k] => i = k
  BY <1>1, <1>2 DEF OneToOne, Within
<1>5. OneToOne(p)
  BY <1>1, <1>2, <1>3, <1>4 DEF OneToOne
<1>6. PICK j \in 1 .. Len(y) : y[j] = e
  BY <1>2, <1>3, <1>4
<1>7. PICK m \in Nat : Len(y) = m + 1 /\ m = Len(y) - 1
  OBVIOUS
<1>8. PICK w : w = Without(y, j)
  OBVIOUS
<1>9. w \in Seq(T) /\ Len(w) = m /\ \A i \in 1 .. m : w[i] = IF i < j THEN y[i] ELSE y[i + 1]
  BY <1>7, <1>8, WithoutIs
<1>10. \A i \in 1 .. m : \E k \in 1 .. m + 1 : k # j /\ w[i] = y[k] /\ k = (IF i < j THEN i ELSE i + 1)
  <2> SUFFICES ASSUME NEW i \in 1 .. m
               PROVE  \E k \in 1 .. m + 1 : k # j /\ w[i] = y[k] /\ k = (IF i < j THEN i ELSE i + 1)
    OBVIOUS
  <2>1. i \in 1 .. m + 1 /\ i + 1 \in 1 .. m + 1 /\ j \in Int
    BY <1>7
  <2>2. CASE i < j
    BY <1>9, <2>1, <2>2
  <2>3. CASE ~(i < j)
    BY <1>9, <2>1, <2>3
  <2> QED BY <2>2, <2>3
<1>11. \A k \in 1 .. m + 1 : k # j => \E i \in 1 .. m : w[i] = y[k]
  <2> SUFFICES ASSUME NEW k \in 1 .. m + 1, k # j PROVE \E i \in 1 .. m : w[i] = y[k]
    OBVIOUS
  <2>1. j \in 1 .. m + 1
    BY <1>7
  <2>2. CASE k < j
    <3>1. k \in 1 .. m
      BY <2>1, <2>2
    <3> QED BY <1>9, <2>2, <3>1
  <2>3. CASE k > j
    <3>1. k - 1 \in 1 .. m /\ ~(k - 1 < j) /\ (k - 1) + 1 = k
      BY <2>1, <2>3
    <3> QED BY <1>9, <3>1
  <2> QED BY <2>1, <2>2, <2>3
<1>12. OneToOne(w)
  <2> SUFFICES ASSUME NEW i \in 1 .. m, NEW k \in 1 .. m, w[i] = w[k] PROVE i = k
    BY <1>9 DEF OneToOne
  <2>1. PICK i1 \in 1 .. m + 1 : w[i] = y[i1] /\ i1 = (IF i < j THEN i ELSE i + 1)
    BY <1>10
  <2>2. PICK k1 \in 1 .. m + 1 : w[k] = y[k1] /\ k1 = (IF k < j THEN k ELSE k + 1)
    BY <1>10
  <2>3. i1 = k1
    BY <1>4, <1>7, <2>1, <2>2
  <2>4. j \in Int
    OBVIOUS
  <2> QED BY <2>1, <2>2, <2>3, <2>4
<1>13. Within(p, w)
  <2> SUFFICES ASSUME NEW i \in 1 .. n PROVE \E k \in 1 .. m : p[i] = w[k]
    BY <1>1, <1>9 DEF Within
  <2>1. PICK k \in 1 .. m + 1 : x[i] = y[k]
    BY <1>3, <1>4, <1>7
  <2>2. k # j
    <3>1. SUFFICES ASSUME k = j PROVE FALSE
      OBVIOUS
    <3>2. x[i] = x[n + 1]
      BY <1>2, <1>6, <2>1, <3>1
    <3> QED BY <1>3, <1>4, <3>2
  <2> QED BY <1>2, <1>11, <2>1, <2>2
<1>14. Within(w, p)
  <2> SUFFICES ASSUME NEW i \in 1 .. m PROVE \E k \in 1 .. n : w[i] = p[k]
    BY <1>1, <1>9 DEF Within
  <2>1. PICK k \in 1 .. m + 1 : k # j /\ w[i] = y[k]
    BY <1>10
  <2>2. PICK l \in 1 .. n + 1 : y[k] = x[l]
    BY <1>4, <1>7, <2>1
  <2>3. l # n + 1
    BY <1>2, <1>4, <1>6, <1>7, <2>1, <2>2
  <2>4. l \in 1 .. n
    BY <2>3
  <2> QED BY <1>2, <2>1, <2>2, <2>4
<1> QED BY <1>5, <1>6, <1>8, <1>12, <1>13, <1>14

\* Two lists of the same elements, each of them once.
SameTotals(T, v) ==
  {n \in Nat : \A x, y \in Seq(T) : Len(x) = n /\ OneToOne(x) /\ OneToOne(y) /\ Within(x, y) /\ Within(y, x)
                 => Total(Values(v, x)) = Total(Values(v, y))}

LEMMA OrderIrrelevant ==
  ASSUME NEW T, NEW v \in [T -> Int], NEW a \in Seq(T), NEW b \in Seq(T),
         OneToOne(a), OneToOne(b), Within(a, b), Within(b, a)
  PROVE  Total(Values(v, a)) = Total(Values(v, b))
PROOF
<1>1. 0 \in SameTotals(T, v)
  <2>1. SUFFICES ASSUME NEW x \in Seq(T), NEW y \in Seq(T), Len(x) = 0, Within(y, x)
                 PROVE  Total(Values(v, x)) = Total(Values(v, y))
    BY DEF SameTotals
  <2>2. Len(y) \in Nat /\ ~(\E i \in 1 .. Len(y) : TRUE)
    BY <2>1 DEF Within
  <2>3. Len(y) = 0
    BY <2>2
  <2>4. x = << >> /\ y = << >>
    BY <2>1, <2>3
  <2> QED BY <2>4
<1>2. ASSUME NEW n \in Nat, n \in SameTotals(T, v) PROVE n + 1 \in SameTotals(T, v)
  <2>1. SUFFICES ASSUME NEW x \in Seq(T), NEW y \in Seq(T), Len(x) = n + 1,
                        OneToOne(x), OneToOne(y), Within(x, y), Within(y, x)
                 PROVE  Total(Values(v, x)) = Total(Values(v, y))
    BY DEF SameTotals
  <2>2. PICK p \in Seq(T), e \in T : x = Append(p, e) /\ Len(p) = n
    <3>1. n \in Nat /\ Len(x) = n + 1
      BY <1>2, <2>1
    <3>2. \A s \in Seq(T), m \in Nat : Len(s) = m + 1 => \E p \in Seq(T), e \in T : s = Append(p, e) /\ Len(p) = m
      BY LastOut
    <3>3. x \in Seq(T)
      OBVIOUS
    <3> QED BY <3>1, <3>2, <3>3, Zenon
  <2>3. OneToOne(p) /\ \E j \in 1 .. Len(y) : /\ y[j] = e /\ OneToOne(Without(y, j))
                                              /\ Within(p, Without(y, j)) /\ Within(Without(y, j), p)
    BY <2>1, <2>2, OneOut
  <2>4. PICK j \in 1 .. Len(y) : /\ y[j] = e /\ OneToOne(Without(y, j))
                                 /\ Within(p, Without(y, j)) /\ Within(Without(y, j), p)
    BY <2>3
  <2>5. Without(y, j) \in Seq(T)
    BY WithoutIs
  <2>6. Total(Values(v, p)) = Total(Values(v, Without(y, j)))
    BY <1>2, <2>2, <2>3, <2>4, <2>5 DEF SameTotals
  <2>7. Total(Values(v, x)) = Total(Values(v, p)) + v[e]
    BY <2>2, ValuesAppend
  <2>8. Total(Values(v, y)) = Total(Values(v, Without(y, j))) + v[y[j]]
    BY ValuesWithout
  <2> QED BY <2>4, <2>6, <2>7, <2>8
<1>3. Len(a) \in SameTotals(T, v)
  <2>1. Len(a) \in Nat
    OBVIOUS
  <2> QED BY <1>1, <1>2, <2>1, SetInduction
<1> QED BY <1>3 DEF SameTotals

=============================================================================
