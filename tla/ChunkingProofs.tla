----------------------------- MODULE ChunkingProofs -----------------------------
(***************************************************************************)
(* Sequences joined one after the other, and the slices a list is cut      *)
(* into, for lists of any length and any size.  Induction is the first-    *)
(* order kind: the set of the numbers that have a property holds 0 and     *)
(* with each number the next.                                              *)
(***************************************************************************)
EXTENDS Chunking, FiniteSetTheorems, WellFoundedInduction, TLAPS

(* A set of naturals that is not empty has a least element. *)
LEMMA LeastNat ==
  ASSUME NEW T \in SUBSET Nat, T # {}
  PROVE  \E x \in T : \A y \in T : x <= y
<1> DEFINE R == OpToRel(<, Nat)
<1>1. IsWellFoundedOn(R, Nat)
  BY NatLessThanWellFounded, Zenon
<1>2. ASSUME NEW x \in Nat, NEW y \in Nat, ~(<<y, x>> \in R) PROVE x <= y
  <2>1. y < x => <<y, x>> \in R
    BY Zenon DEF OpToRel
  <2> HIDE DEF R
  <2> QED BY <1>2, <2>1
<1> HIDE DEF R
<1>3. PICK x \in T : \A y \in T : ~(<<y, x>> \in R)
  BY <1>1, WFMin, Zenon
<1>4. \A y \in T : x <= y
  BY <1>2, <1>3
<1> QED BY <1>4

(* Induction, as a fact about sets: what holds of zero and of every        *)
(* successor holds of all.                                                 *)
LEMMA FromZeroUp ==
  ASSUME NEW S, 0 \in S, \A n \in Nat : n \in S => n + 1 \in S
  PROVE  Nat \subseteq S
<1> SUFFICES ASSUME NEW m \in Nat \ S PROVE FALSE
  OBVIOUS
<1>1. PICK x \in Nat \ S : \A y \in Nat \ S : x <= y
  BY LeastNat
<1>2. x - 1 \in Nat /\ x - 1 \in S
  BY <1>1
<1> QED BY <1>1, <1>2

(* f holds the concatenation of each of the first n sequences of ss.       *)
Flattens(f, ss, n) ==
  f = [i \in 1..n |-> IF i = 1 THEN ss[i] ELSE f[i - 1] \o ss[i]]

(* The recursive function by which FlattenSeq concatenates exists on       *)
(* every prefix.                                                           *)
LEMMA FlattensExists ==
  ASSUME NEW ss, NEW n \in Nat
  PROVE  \E f : Flattens(f, ss, n)
<1> DEFINE Good == {m \in Nat : \E f : Flattens(f, ss, m)}
<1>1. 0 \in Good
  <2>1. Flattens(<<>>, ss, 0)
    BY DEF Flattens
  <2> QED BY <2>1
<1>2. ASSUME NEW m \in Nat, m \in Good PROVE m + 1 \in Good
  <2>1. PICK f : Flattens(f, ss, m)
    BY <1>2
  <2> DEFINE g == [i \in 1..m + 1 |-> IF i <= m THEN f[i]
                                      ELSE IF i = 1 THEN ss[i] ELSE f[i - 1] \o ss[i]]
  <2>2. \A i \in 1..m : f[i] = IF i = 1 THEN ss[i] ELSE f[i - 1] \o ss[i]
    BY <2>1 DEF Flattens
  <2>3. \A i \in 1..m + 1 : g[i] = IF i = 1 THEN ss[i] ELSE g[i - 1] \o ss[i]
    BY <2>2
  <2>4. g = [i \in 1..m + 1 |-> g[i]]
    OBVIOUS
  <2> HIDE DEF g
  <2>5. Flattens(g, ss, m + 1)
    BY <2>3, <2>4 DEF Flattens
  <2> QED BY <2>5
<1> HIDE DEF Good
<1>3. Nat \subseteq Good
  BY <1>1, <1>2, FromZeroUp
<1> QED BY <1>3 DEF Good

(* FlattenSeq is the last value of that function. *)
LEMMA FlattenBy ==
  ASSUME NEW ss, Len(ss) \in Nat \ {0}
  PROVE  \E f : Flattens(f, ss, Len(ss)) /\ FlattenSeq(ss) = f[Len(ss)]
<1> DEFINE f == CHOOSE h : Flattens(h, ss, Len(ss))
<1>1. Flattens(f, ss, Len(ss))
  <2>1. \E h : Flattens(h, ss, Len(ss))
    BY FlattensExists
  <2> QED BY <2>1, Zenon
<1>2. FlattenSeq(ss) = f[Len(ss)]
  BY DEF FlattenSeq, Flattens
<1> HIDE DEF f
<1> QED BY <1>1, <1>2

(* Concatenations of what begins alike begin alike.                        *)
LEMMA FlattensAgree ==
  ASSUME NEW ss, NEW tt, NEW m \in Nat, NEW n \in Nat, n <= m, \A i \in 1..n : ss[i] = tt[i],
         NEW f, NEW g, Flattens(f, ss, m), Flattens(g, tt, n)
  PROVE  \A i \in 1..n : f[i] = g[i]
<1> DEFINE Alike == {i \in Nat : i \in 1..n => f[i] = g[i]}
<1>1. /\ \A i \in 1..m : f[i] = IF i = 1 THEN ss[i] ELSE f[i - 1] \o ss[i]
      /\ \A i \in 1..n : g[i] = IF i = 1 THEN tt[i] ELSE g[i - 1] \o tt[i]
  BY DEF Flattens
<1>2. ASSUME NEW i \in Nat, i \in Alike PROVE i + 1 \in Alike
  <2> SUFFICES ASSUME i + 1 \in 1..n PROVE f[i + 1] = g[i + 1]
    OBVIOUS
  <2>1. ss[i + 1] = tt[i + 1] /\ i + 1 \in 1..m
    OBVIOUS
  <2>2. CASE i = 0
    BY <1>1, <2>1, <2>2
  <2>3. CASE i # 0
    <3>1. f[i] = g[i] /\ (i + 1) - 1 = i /\ i + 1 # 1
      BY <1>2, <2>3
    <3>2. f[i + 1] = f[(i + 1) - 1] \o ss[i + 1] /\ g[i + 1] = g[(i + 1) - 1] \o tt[i + 1]
      BY <1>1, <2>1, <3>1
    <3> QED BY <2>1, <3>1, <3>2
  <2> QED BY <2>2, <2>3
<1>3. 0 \in Alike
  OBVIOUS
<1> HIDE DEF Alike
<1>4. Nat \subseteq Alike
  BY <1>2, <1>3, FromZeroUp
<1> QED BY <1>4 DEF Alike

(* The first n of a sequence. *)
Upto(ss, n) == [i \in 1..n |-> ss[i]]

(* Joined one after the other, one more sequence goes to the end.          *)
LEMMA FlattenStep ==
  ASSUME NEW ss, NEW n \in Nat
  PROVE  /\ FlattenSeq(Upto(ss, 0)) = <<>>
         /\ FlattenSeq(Upto(ss, 1)) = ss[1]
         /\ n > 0 => FlattenSeq(Upto(ss, n + 1)) = FlattenSeq(Upto(ss, n)) \o ss[n + 1]
<1>1. \A m \in Nat : Len(Upto(ss, m)) = m /\ \A i \in 1..m : Upto(ss, m)[i] = ss[i]
  BY DEF Upto
<1>2. FlattenSeq(Upto(ss, 0)) = <<>>
  BY <1>1 DEF FlattenSeq, Upto
<1>3. FlattenSeq(Upto(ss, 1)) = ss[1]
  <2>1. PICK f : Flattens(f, Upto(ss, 1), 1) /\ FlattenSeq(Upto(ss, 1)) = f[1]
    <3>1. Len(Upto(ss, 1)) = 1 /\ 1 \in Nat \ {0}
      BY DEF Upto
    <3> QED BY <3>1, FlattenBy
  <2> QED BY <1>1, <2>1 DEF Flattens
<1>4. ASSUME n > 0 PROVE FlattenSeq(Upto(ss, n + 1)) = FlattenSeq(Upto(ss, n)) \o ss[n + 1]
  <2>1. PICK f : Flattens(f, Upto(ss, n + 1), n + 1) /\ FlattenSeq(Upto(ss, n + 1)) = f[n + 1]
    <3>1. Len(Upto(ss, n + 1)) = n + 1 /\ n + 1 \in Nat \ {0}
      BY <1>1
    <3> QED BY <3>1, FlattenBy
  <2>2. PICK g : Flattens(g, Upto(ss, n), n) /\ FlattenSeq(Upto(ss, n)) = g[n]
    <3>1. Len(Upto(ss, n)) = n /\ n \in Nat \ {0}
      BY <1>1, <1>4
    <3> QED BY <3>1, FlattenBy
  <2>3. f[n] = g[n]
    <3>1. \A i \in 1..n : Upto(ss, n + 1)[i] = Upto(ss, n)[i]
      BY <1>1
    <3>2. \A i \in 1..n : f[i] = g[i]
      BY <2>1, <2>2, <3>1, FlattensAgree
    <3> QED BY <1>4, <3>2
  <2>4. f[n + 1] = f[(n + 1) - 1] \o Upto(ss, n + 1)[n + 1]
    <3>1. n + 1 \in 1..n + 1 /\ n + 1 # 1
      BY <1>4
    <3> QED BY <2>1, <3>1 DEF Flattens
  <2>5. (n + 1) - 1 = n /\ Upto(ss, n + 1)[n + 1] = ss[n + 1]
    BY <1>1
  <2> QED BY <2>1, <2>2, <2>3, <2>4, <2>5
<1> QED BY <1>2, <1>3, <1>4

(* Joining sequences over S gives a sequence over S, to which the next is  *)
(* added.                                                                  *)
LEMMA FlattenNext ==
  ASSUME NEW S, NEW ss \in Seq(Seq(S)), NEW n \in 0..Len(ss)
  PROVE  /\ FlattenSeq(Upto(ss, n)) \in Seq(S)
         /\ n < Len(ss) => FlattenSeq(Upto(ss, n + 1)) = FlattenSeq(Upto(ss, n)) \o ss[n + 1]
<1>1. \A m \in 0..Len(ss) - 1 :
        FlattenSeq(Upto(ss, m)) \in Seq(S) =>
          FlattenSeq(Upto(ss, m + 1)) = FlattenSeq(Upto(ss, m)) \o ss[m + 1]
  <2> TAKE m \in 0..Len(ss) - 1
  <2>1. CASE m = 0
    <3>1. ss[1] \in Seq(S)
      BY <2>1
    <3>2. <<>> \o ss[1] = ss[1]
      BY <3>1
    <3>3. FlattenSeq(Upto(ss, 0)) = <<>> /\ FlattenSeq(Upto(ss, 1)) = ss[1]
      BY FlattenStep
    <3> QED BY <2>1, <3>2, <3>3
  <2>2. CASE m # 0
    BY <2>2, FlattenStep
  <2> QED BY <2>1, <2>2
<1> DEFINE Typed == {m \in Nat : m <= Len(ss) => FlattenSeq(Upto(ss, m)) \in Seq(S)}
<1>2. 0 \in Typed
  <2>1. FlattenSeq(Upto(ss, 0)) = <<>> /\ <<>> \in Seq(S)
    BY FlattenStep
  <2> QED BY <2>1
<1>3. ASSUME NEW m \in Nat, m \in Typed PROVE m + 1 \in Typed
  <2> SUFFICES ASSUME m + 1 <= Len(ss) PROVE FlattenSeq(Upto(ss, m + 1)) \in Seq(S)
    OBVIOUS
  <2>1. FlattenSeq(Upto(ss, m)) \in Seq(S) /\ ss[m + 1] \in Seq(S) /\ m \in 0..Len(ss) - 1
    BY <1>3
  <2>2. FlattenSeq(Upto(ss, m + 1)) = FlattenSeq(Upto(ss, m)) \o ss[m + 1]
    BY <1>1, <2>1
  <2> DEFINE before == FlattenSeq(Upto(ss, m))
             next == ss[m + 1]
  <2>3. before \in Seq(S) /\ next \in Seq(S)
    BY <2>1
  <2> HIDE DEF before, next
  <2>4. before \o next \in Seq(S)
    BY <2>3
  <2> QED BY <2>2, <2>4 DEF before, next
<1> HIDE DEF Typed
<1>4. Nat \subseteq Typed
  BY <1>2, <1>3, FromZeroUp
<1>5. n \in Typed /\ n \in Nat /\ n <= Len(ss)
  BY <1>4
<1>6. FlattenSeq(Upto(ss, n)) \in Seq(S)
  BY <1>5 DEF Typed
<1> QED BY <1>1, <1>6

(* All of them make the whole. *)
LEMMA UptoAll ==
  ASSUME NEW S, NEW ss \in Seq(S)
  PROVE  Upto(ss, Len(ss)) = ss
BY DEF Upto

(* s begins t when t is as long and has the elements of s first.           *)
LEMMA PrefixElements ==
  ASSUME NEW S, NEW s \in Seq(S), NEW t \in Seq(S)
  PROVE  IsPrefix(s, t) <=> Len(s) <= Len(t) /\ \A i \in 1..Len(s) : s[i] = t[i]
<1>1. SubSeq(s, 1, Len(s)) = s
  OBVIOUS
<1>2. ASSUME Len(s) <= Len(t)
      PROVE  SubSeq(t, 1, Len(s)) = [i \in 1..Len(s) |-> t[i]]
  BY <1>2
<1>3. s = [i \in 1..Len(s) |-> s[i]]
  OBVIOUS
<1>4. ASSUME Len(s) <= Len(t)
      PROVE  s = SubSeq(t, 1, Len(s)) <=> \A i \in 1..Len(s) : s[i] = t[i]
  <2>1. ASSUME \A i \in 1..Len(s) : s[i] = t[i] PROVE s = [i \in 1..Len(s) |-> t[i]]
    BY <1>3, <2>1
  <2>2. ASSUME s = [i \in 1..Len(s) |-> t[i]] PROVE \A i \in 1..Len(s) : s[i] = t[i]
    <3> DEFINE u == [i \in 1..Len(s) |-> t[i]]
    <3>1. \A i \in 1..Len(s) : u[i] = t[i]
      OBVIOUS
    <3>2. s = u
      BY <2>2
    <3> HIDE DEF u
    <3> QED BY <3>1, <3>2
  <2> QED BY <1>2, <1>4, <2>1, <2>2
<1> QED BY <1>1, <1>4 DEF IsPrefix

(* The elements of a concatenation. *)
LEMMA ConcatElements ==
  ASSUME NEW S, NEW s \in Seq(S), NEW t \in Seq(S)
  PROVE  /\ s \o t \in Seq(S) /\ Len(s \o t) = Len(s) + Len(t)
         /\ \A p \in 1..Len(s) : (s \o t)[p] = s[p]
         /\ \A p \in 1..Len(t) : (s \o t)[Len(s) + p] = t[p]
<1>1. /\ s \o t \in Seq(S) /\ Len(s \o t) = Len(s) + Len(t)
      /\ \A p \in 1..Len(s) : (s \o t)[p] = s[p]
  OBVIOUS
<1>2. ASSUME NEW p \in 1..Len(t) PROVE (s \o t)[Len(s) + p] = t[p]
  <2>1. Len(s) + p \in 1..Len(s) + Len(t) /\ Len(s) + p > Len(s) /\ (Len(s) + p) - Len(s) = p
    OBVIOUS
  <2> QED BY <2>1
<1> QED BY <1>1, <1>2

(* The first part of a concatenation begins it. *)
LEMMA PrefixOfConcat ==
  ASSUME NEW S, NEW s \in Seq(S), NEW t \in Seq(S)
  PROVE  s \o t \in Seq(S) /\ IsPrefix(s, s \o t)
<1> DEFINE u == s \o t
<1>1. u \in Seq(S) /\ Len(u) = Len(s) + Len(t) /\ \A i \in 1..Len(s) : s[i] = u[i]
  OBVIOUS
<1> HIDE DEF u
<1>2. IsPrefix(s, u)
  BY <1>1, PrefixElements
<1> QED BY <1>1, <1>2 DEF u

(* What begins a beginning begins the whole. *)
LEMMA PrefixTransitive ==
  ASSUME NEW S, NEW s \in Seq(S), NEW t \in Seq(S), NEW u \in Seq(S), IsPrefix(s, t), IsPrefix(t, u)
  PROVE  IsPrefix(s, u)
<1>1. Len(s) <= Len(t) /\ \A i \in 1..Len(s) : s[i] = t[i]
  BY PrefixElements
<1>2. Len(t) <= Len(u) /\ \A i \in 1..Len(t) : t[i] = u[i]
  BY PrefixElements
<1>3. Len(s) <= Len(u) /\ \A i \in 1..Len(s) : s[i] = u[i]
  BY <1>1, <1>2
<1> QED BY <1>3, PrefixElements

(* Adding the beginning of a third sequence keeps to the beginning.        *)
LEMMA PrefixSlice ==
  ASSUME NEW S, NEW s \in Seq(S), NEW t \in Seq(S), NEW m \in 0..Len(t)
  PROVE  /\ SubSeq(t, 1, m) \in Seq(S) /\ Len(SubSeq(t, 1, m)) = m
         /\ s \o SubSeq(t, 1, m) \in Seq(S)
         /\ IsPrefix(s \o SubSeq(t, 1, m), s \o t)
<1> DEFINE u == SubSeq(t, 1, m)
<1>1. u \in Seq(S) /\ Len(u) = m /\ \A i \in 1..m : u[i] = t[i]
  OBVIOUS
<1> HIDE DEF u
<1>2. /\ s \o u \in Seq(S) /\ Len(s \o u) = Len(s) + m
      /\ s \o t \in Seq(S) /\ Len(s \o t) = Len(s) + Len(t)
  BY <1>1
<1>3. \A i \in 1..Len(s) + m : (s \o u)[i] = (s \o t)[i]
  BY <1>1
<1> DEFINE v == s \o u
           z == s \o t
<1> HIDE DEF v, z
<1>4. v \in Seq(S) /\ z \in Seq(S) /\ Len(v) <= Len(z) /\ \A i \in 1..Len(v) : v[i] = z[i]
  BY <1>2, <1>3 DEF v, z
<1>5. IsPrefix(v, z)
  BY <1>4, PrefixElements
<1> QED BY <1>1, <1>2, <1>5 DEF u, v, z

(* The first sequences of several, concatenated, begin the concatenation   *)
(* of all.                                                                 *)
LEMMA FlattenPrefix ==
  ASSUME NEW S, NEW ss \in Seq(Seq(S)), NEW n \in 0..Len(ss)
  PROVE  IsPrefix(FlattenSeq(Upto(ss, n)), FlattenSeq(ss))
<1> DEFINE F(k) == FlattenSeq(Upto(ss, k))
<1>1. \A k \in 0..Len(ss) : F(k) \in Seq(S)
  BY FlattenNext
<1>2. \A k \in 0..Len(ss) : k < Len(ss) => F(k + 1) = F(k) \o ss[k + 1]
  BY FlattenNext
<1> HIDE DEF F
<1> DEFINE Begins == {k \in Nat : n <= k /\ k <= Len(ss) => IsPrefix(F(n), F(k))}
<1>3. 0 \in Begins
  <2>1. CASE n = 0
    <3>1. F(0) \in Seq(S)
      BY <1>1
    <3> QED BY <2>1, <3>1, PrefixElements
  <2> QED BY <2>1
<1>4. ASSUME NEW k \in Nat, k \in Begins PROVE k + 1 \in Begins
  <2> SUFFICES ASSUME n <= k + 1, k + 1 <= Len(ss) PROVE IsPrefix(F(n), F(k + 1))
    OBVIOUS
  <2>1. F(k + 1) \in Seq(S) /\ F(n) \in Seq(S)
    BY <1>1
  <2>2. CASE n = k + 1
    BY <2>1, <2>2, PrefixElements
  <2>3. CASE n <= k
    <3>1. IsPrefix(F(n), F(k)) /\ F(k) \in Seq(S) /\ ss[k + 1] \in Seq(S)
      BY <1>1, <1>4, <2>3
    <3>2. F(k + 1) = F(k) \o ss[k + 1]
      BY <1>2
    <3>3. IsPrefix(F(k), F(k + 1))
      BY <3>1, <3>2, PrefixOfConcat
    <3> QED BY <2>1, <3>1, <3>3, PrefixTransitive
  <2> QED BY <2>2, <2>3
<1> HIDE DEF Begins
<1>5. Nat \subseteq Begins
  BY <1>3, <1>4, FromZeroUp
<1>6. IsPrefix(F(n), F(Len(ss)))
  BY <1>5 DEF Begins
<1>7. Upto(ss, Len(ss)) = ss
  BY UptoAll
<1> QED BY <1>6, <1>7 DEF F

(* Sequences of one length, joined: the j-th element of the i-th one is    *)
(* the j-th after those of the i - 1 before.                               *)
LEMMA FlattenUniform ==
  ASSUME NEW S, NEW ss \in Seq(Seq(S)), NEW width \in Nat, \A i \in 1..Len(ss) : Len(ss[i]) = width
  PROVE  /\ Len(FlattenSeq(ss)) = Len(ss) * width
         /\ \A i \in 1..Len(ss) : \A j \in 1..width : FlattenSeq(ss)[(i - 1) * width + j] = ss[i][j]
<1> DEFINE F(k) == FlattenSeq(Upto(ss, k))
<1>1. \A k \in 0..Len(ss) : F(k) \in Seq(S)
  BY FlattenNext
<1>2. \A k \in 0..Len(ss) : k < Len(ss) => F(k + 1) = F(k) \o ss[k + 1]
  BY FlattenNext
<1>3. F(0) = <<>>
  BY FlattenStep
<1> HIDE DEF F
<1> DEFINE Placed == {k \in Nat : k <= Len(ss) =>
                        /\ Len(F(k)) = k * width
                        /\ \A i \in 1..k : \A j \in 1..width : F(k)[(i - 1) * width + j] = ss[i][j]}
<1>4. 0 \in Placed
  BY <1>3
<1>5. ASSUME NEW k \in Nat, k \in Placed PROVE k + 1 \in Placed
  <2> SUFFICES ASSUME k + 1 <= Len(ss)
      PROVE  /\ Len(F(k + 1)) = (k + 1) * width
             /\ \A i \in 1..k + 1 : \A j \in 1..width : F(k + 1)[(i - 1) * width + j] = ss[i][j]
    OBVIOUS
  <2>1. /\ Len(F(k)) = k * width
        /\ \A i \in 1..k : \A j \in 1..width : F(k)[(i - 1) * width + j] = ss[i][j]
    BY <1>5
  <2> HIDE DEF Placed
  <2>2. F(k + 1) = F(k) \o ss[k + 1] /\ F(k) \in Seq(S) /\ ss[k + 1] \in Seq(S) /\ Len(ss[k + 1]) = width
    <3>1. k \in 0..Len(ss) /\ k < Len(ss) /\ k + 1 \in 1..Len(ss)
      OBVIOUS
    <3> QED BY <1>1, <1>2, <3>1
  <2>3. k * width \in Nat /\ (k + 1) * width = k * width + width
    OBVIOUS
  <2>4. /\ Len(F(k + 1)) = k * width + width
        /\ \A p \in 1..k * width : F(k + 1)[p] = F(k)[p]
        /\ \A p \in 1..width : F(k + 1)[k * width + p] = ss[k + 1][p]
    <3> DEFINE a == F(k)
               b == ss[k + 1]
               n == k * width
    <3>1. a \in Seq(S) /\ b \in Seq(S) /\ Len(a) = n /\ Len(b) = width /\ F(k + 1) = a \o b
      BY <2>1, <2>2
    <3>2. n \in Nat
      BY <2>3
    <3> HIDE DEF a, b, n
    <3>3. /\ Len(a \o b) = n + width
          /\ \A p \in 1..n : (a \o b)[p] = a[p]
          /\ \A p \in 1..width : (a \o b)[n + p] = b[p]
      <4>1. a \in Seq(S) /\ b \in Seq(S)
        BY <3>1
      <4>2. /\ Len(a \o b) = Len(a) + Len(b)
            /\ \A p \in 1..Len(a) : (a \o b)[p] = a[p]
            /\ \A p \in 1..Len(b) : (a \o b)[Len(a) + p] = b[p]
        BY <4>1, ConcatElements, SMT
      <4> QED BY <3>1, <4>2, Zenon
    <3> QED BY <3>1, <3>3, Zenon DEF a, b, n
  <2>5. ASSUME NEW i \in 1..k + 1, NEW j \in 1..width PROVE F(k + 1)[(i - 1) * width + j] = ss[i][j]
    <3>1. CASE i = k + 1
      <4>1. (i - 1) * width + j = k * width + j
        BY <3>1
      <4> QED BY <2>4, <3>1, <4>1
    <3>2. CASE i # k + 1
      <4>1. i \in 1..k
        BY <3>2
      <4>2. (i - 1) * width + j \in 1..k * width
        <5>1. (i - 1) * width \in Nat /\ (i - 1) * width + width = i * width
          BY <4>1
        <5>2. PICK e \in Nat : k = i + e
          <6>1. k - i \in Nat /\ k = i + (k - i)
            BY <4>1
          <6> QED BY <6>1
        <5>3. k * width = i * width + e * width /\ e * width \in Nat /\ i * width \in Nat
          BY <4>1, <5>2
        <5> QED BY <5>1, <5>3, <2>3
      <4>3. F(k)[(i - 1) * width + j] = ss[i][j]
        BY <2>1, <4>1
      <4> QED BY <2>4, <4>2, <4>3
    <3> QED BY <3>1, <3>2
  <2> QED BY <2>3, <2>4, <2>5
<1> HIDE DEF Placed
<1>6. Nat \subseteq Placed
  BY <1>4, <1>5, FromZeroUp
<1>7. /\ Len(F(Len(ss))) = Len(ss) * width
      /\ \A i \in 1..Len(ss) : \A j \in 1..width : F(Len(ss))[(i - 1) * width + j] = ss[i][j]
  <2>1. Len(ss) \in Nat /\ Len(ss) <= Len(ss)
    OBVIOUS
  <2>2. Len(ss) \in Placed
    BY <1>6, <2>1
  <2> QED BY <2>1, <2>2, Zenon DEF Placed
<1>8. Upto(ss, Len(ss)) = ss
  BY UptoAll
<1> QED BY <1>7, <1>8 DEF F
-----------------------------------------------------------------------------
(* A slice has at most the batch size, and its elements are those of the   *)
(* list from its offset on.                                                *)
LEMMA SliceElements ==
  ASSUME NEW S, NEW list \in Seq(S), NEW i \in Nat \ {0}, NEW size \in Nat \ {0}
  PROVE  /\ SliceAt(list, i, size) \in Seq(S)
         /\ Len(SliceAt(list, i, size)) <= size
         /\ \A j \in 1..Len(SliceAt(list, i, size)) :
              /\ (i - 1) * size + j \in 1..Len(list)
              /\ SliceAt(list, i, size)[j] = list[(i - 1) * size + j]
         /\ \A j \in 1..size :
              (i - 1) * size + j <= Len(list) => j <= Len(SliceAt(list, i, size))
<1> DEFINE start == (i - 1) * size
           stop == Min({start + size, Len(list)})
<1>1. start \in Nat /\ Len(list) \in Nat
  OBVIOUS
<1>2. CASE start >= Len(list)
  BY <1>2 DEF SliceAt
<1>3. CASE start < Len(list)
  <2>1. stop \in Nat /\ start < stop /\ stop <= start + size /\ stop <= Len(list)
    BY <1>1, <1>3 DEF Min
  <2>7. stop = start + size \/ stop = Len(list)
    BY <1>1, <1>3 DEF Min
  <2>2. SliceAt(list, i, size) = SubSeq(list, start + 1, stop)
    <3>1. ~(start >= Len(list))
      BY <1>1, <1>3
    <3> QED BY <3>1, Zenon DEF SliceAt
  <2> HIDE DEF start, stop
  <2>3. Len(SubSeq(list, start + 1, stop)) = stop - start
    BY <1>1, <2>1
  <2>4. \A j \in 1..(stop - start) : SubSeq(list, start + 1, stop)[j] = list[start + j]
    BY <1>1, <2>1
  <2>5. SubSeq(list, start + 1, stop) \in Seq(S)
    BY <1>1, <2>1
  <2>6. \A j \in 1..(stop - start) : start + j \in 1..Len(list)
    BY <1>1, <2>1
  <2>8. \A j \in 1..size : start + j <= Len(list) => j <= stop - start
    BY <1>1, <2>1, <2>7
  <2>9. stop - start <= size
    BY <1>1, <2>1
  <2> DEFINE slice == SliceAt(list, i, size)
  <2> HIDE DEF slice
  <2>10. /\ slice \in Seq(S) /\ Len(slice) <= size
         /\ \A j \in 1..Len(slice) : start + j \in 1..Len(list) /\ slice[j] = list[start + j]
         /\ \A j \in 1..size : start + j <= Len(list) => j <= Len(slice)
    BY <2>2, <2>3, <2>4, <2>5, <2>6, <2>8, <2>9 DEF slice
  <2> QED BY <2>10, Zenon DEF start, slice
<1> QED BY <1>1, <1>2, <1>3

(* Each element of the list is in one of the slices that there are.        *)
LEMMA SlicesCover ==
  ASSUME NEW S, NEW list \in Seq(S), NEW size \in Nat \ {0}, NEW n \in 1..Len(list)
  PROVE  LET i == (n - 1) \div size + 1
             j == ((n - 1) % size) + 1
         IN  /\ i \in 1..CeilDiv(Len(list), size)
             /\ j \in 1..Len(SliceAt(list, i, size))
             /\ SliceAt(list, i, size)[j] = list[n]
<1> DEFINE q == (n - 1) \div size
           r == (n - 1) % size
<1>1. n - 1 \in Nat /\ q \in Nat /\ r \in 0..(size - 1) /\ n - 1 = q * size + r
  OBVIOUS
<1>2. q + 1 \in 1..CeilDiv(Len(list), size)
  <2> DEFINE c == CeilDiv(Len(list), size)
             d == (Len(list) + size - 1) % size
  <2>1. c \in Nat /\ d \in 0..(size - 1) /\ Len(list) + size - 1 = c * size + d
    BY DEF CeilDiv
  <2>2. c * size > q * size
    <3>1. q * size \in Nat /\ c * size \in Nat
      BY <1>1, <2>1
    <3> QED BY <1>1, <2>1, <3>1
  <2>3. ASSUME c <= q PROVE FALSE
    <3> HIDE DEF c, q
    <3>1. PICK k \in Nat : q = c + k
      <4>1. q - c \in Nat /\ q = c + (q - c)
        BY <1>1, <2>1, <2>3
      <4> QED BY <4>1
    <3>2. q * size = c * size + k * size /\ k * size >= 0
      BY <2>1, <3>1
    <3> QED BY <1>1, <2>1, <2>2, <3>2
  <2> QED BY <1>1, <2>1, <2>3
<1>3. r + 1 \in 1..size /\ ((q + 1) - 1) * size + (r + 1) = n
  BY <1>1
<1>4. r + 1 <= Len(SliceAt(list, q + 1, size))
  BY <1>1, <1>3, SliceElements
<1> HIDE DEF q, r
<1>5. r + 1 \in 1..Len(SliceAt(list, q + 1, size))
  BY <1>1, <1>3, <1>4, SliceElements
<1>6. SliceAt(list, q + 1, size)[r + 1] = list[n]
  <2>1. PICK i \in Nat \ {0} : i = q + 1
    BY <1>1
  <2>2. \A j \in 1..Len(SliceAt(list, i, size)) :
          /\ (i - 1) * size + j \in 1..Len(list)
          /\ SliceAt(list, i, size)[j] = list[(i - 1) * size + j]
    BY SliceElements, SMTT(30)
  <2>3. SliceAt(list, i, size)[r + 1] = list[(i - 1) * size + (r + 1)]
    BY <1>5, <2>1, <2>2
  <2>4. (i - 1) * size + (r + 1) = n
    BY <1>3, <2>1, Zenon
  <2> QED BY <2>1, <2>3, <2>4, Zenon
<1> QED BY <1>2, <1>5, <1>6 DEF q, r

(* Cut into slices, as ExecuteRawBatch and chunkParams cut it, a list of   *)
(* any length arrives element by element: element n in chunk (n - 1) div   *)
(* size + 1, no chunk above the size, and nothing beside its elements.     *)
THEOREM SlicesPartition ==
  ASSUME NEW S, NEW list \in Seq(S), NEW size \in Nat \ {0}
  PROVE  LET chunks == 1..CeilDiv(Len(list), size)
             slice(i) == SliceAt(list, i, size)
         IN  /\ \A i \in chunks : Len(slice(i)) <= size
             /\ \A i \in chunks : \A j \in 1..Len(slice(i)) : slice(i)[j] = list[(i - 1) * size + j]
             /\ \A n \in 1..Len(list) :
                  LET i == (n - 1) \div size + 1
                      j == ((n - 1) % size) + 1
                  IN  i \in chunks /\ j \in 1..Len(slice(i)) /\ slice(i)[j] = list[n]
<1>1. \A i \in 1..CeilDiv(Len(list), size) :
        /\ Len(SliceAt(list, i, size)) <= size
        /\ \A j \in 1..Len(SliceAt(list, i, size)) :
             SliceAt(list, i, size)[j] = list[(i - 1) * size + j]
  BY SliceElements
<1>2. \A n \in 1..Len(list) :
        LET i == (n - 1) \div size + 1
            j == ((n - 1) % size) + 1
        IN  /\ i \in 1..CeilDiv(Len(list), size)
            /\ j \in 1..Len(SliceAt(list, i, size))
            /\ SliceAt(list, i, size)[j] = list[n]
  BY SlicesCover
<1> QED BY <1>1, <1>2, Zenon
-----------------------------------------------------------------------------
(* The largest of finitely many numbers. *)
LEMMA FiniteMax ==
  ASSUME NEW T \in SUBSET Nat, IsFiniteSet(T), T # {}
  PROVE  Max(T) \in T /\ \A x \in T : x <= Max(T)
<1> DEFINE Bounded == {n \in Nat : \A U \in SUBSET Nat :
                         IsFiniteSet(U) /\ Cardinality(U) = n /\ U # {} => \E x \in U : \A y \in U : x >= y}
<1>1. 0 \in Bounded
  BY FS_EmptySet
<1>2. ASSUME NEW n \in Nat, n \in Bounded PROVE n + 1 \in Bounded
  <2> SUFFICES ASSUME NEW U \in SUBSET Nat, IsFiniteSet(U), Cardinality(U) = n + 1
      PROVE  \E x \in U : \A y \in U : x >= y
    OBVIOUS
  <2>1. PICK u \in U : TRUE
    <3>1. U # {}
      <4>1. Cardinality({}) = 0 /\ n + 1 # 0
        BY FS_EmptySet
      <4> QED BY <4>1
    <3> QED BY <3>1
  <2> DEFINE V == U \ {u}
  <2>2. V \in SUBSET Nat /\ IsFiniteSet(V) /\ Cardinality(V) = n
    <3>1. IsFiniteSet(U \ {u}) /\ Cardinality(U \ {u}) = IF u \in U THEN Cardinality(U) - 1 ELSE Cardinality(U)
      BY FS_RemoveElement, Zenon
    <3>2. (n + 1) - 1 = n
      OBVIOUS
    <3> QED BY <2>1, <3>1, <3>2
  <2>3. CASE V = {}
    BY <2>1, <2>3
  <2>4. CASE V # {}
    <3>1. PICK v \in V : \A y \in V : v >= y
      BY <1>2, <2>2, <2>4
    <3> QED BY <2>1, <3>1
  <2> QED BY <2>3, <2>4
<1> HIDE DEF Bounded
<1>3. Nat \subseteq Bounded
  BY <1>1, <1>2, FromZeroUp
<1>4. \E x \in T : \A y \in T : x >= y
  BY <1>3, FS_CardinalityType DEF Bounded
<1> QED BY <1>4 DEF Max

(* A parameter map that a plan or a caller passes: finitely many names, of *)
(* which the lists are sequences.                                          *)
LEMMA LongestList ==
  ASSUME NEW params, IsFiniteSet(DOMAIN params), \A k \in ListKeys(params) : Len(params[k].items) \in Nat
  PROVE  MaxLen(params) \in Nat /\ \A k \in ListKeys(params) : Len(params[k].items) <= MaxLen(params)
<1> DEFINE f == [k \in ListKeys(params) |-> Len(params[k].items)]
           lens == {Len(params[k].items) : k \in ListKeys(params)}
<1>1. IsFiniteSet(ListKeys(params))
  BY FS_Subset DEF ListKeys
<1>2. f \in Surjection(ListKeys(params), lens)
  BY DEF Surjection
<1>3. IsFiniteSet(lens)
  BY <1>1, <1>2, FS_Surjection
<1> DEFINE all == {0} \cup lens
<1>4. IsFiniteSet(lens \cup {0}) /\ lens \cup {0} = all
  BY <1>3, FS_AddElement
<1>5. all \in SUBSET Nat /\ all # {}
  OBVIOUS
<1>6. MaxLen(params) = Max(all)
  BY DEF MaxLen
<1>7. \A k \in ListKeys(params) : Len(params[k].items) \in all
  OBVIOUS
<1> HIDE DEF all, lens
<1>8. Max(all) \in all /\ \A x \in all : x <= Max(all)
  BY <1>4, <1>5, FiniteMax
<1> QED BY <1>5, <1>6, <1>7, <1>8

(* Rounded up, the quotient is enough, and more than one when n is above d.*)
LEMMA CeilDivBounds ==
  ASSUME NEW n \in Nat, NEW d \in Nat \ {0}
  PROVE  /\ CeilDiv(n, d) \in Nat /\ n <= CeilDiv(n, d) * d
         /\ n > d => CeilDiv(n, d) > 1
         /\ n > 0 => CeilDiv(n, d) > 0
<1> DEFINE q == CeilDiv(n, d)
           r == (n + d - 1) % d
<1>1. q \in Nat /\ r \in 0..(d - 1) /\ n + d - 1 = q * d + r
  BY DEF CeilDiv
<1> HIDE DEF q, r
<1>2. n <= q * d
  <2>1. q * d \in Nat
    BY <1>1
  <2> QED BY <1>1, <2>1
<1>3. q = 0 => q * d = 0
  BY <1>1
<1>4. q = 1 => q * d = d
  BY <1>1
<1> QED BY <1>1, <1>2, <1>3, <1>4 DEF q

(* The slices of a list, joined, are the list, also when there are more of *)
(* them than it needs.                                                     *)
THEOREM SlicesJoin ==
  ASSUME NEW S, NEW list \in Seq(S), NEW size \in Nat \ {0}, NEW m \in Nat, Len(list) <= m * size
  PROVE  FlattenSeq([i \in 1..m |-> SliceAt(list, i, size)]) = list
<1> DEFINE ss == [i \in 1..m |-> SliceAt(list, i, size)]
           F(k) == FlattenSeq(Upto(ss, k))
<1>1. \A i \in 1..m : ss[i] = SliceAt(list, i, size)
  OBVIOUS
<1>2. ss \in Seq(Seq(S)) /\ Len(ss) = m
  <2>1. \A i \in 1..m : SliceAt(list, i, size) \in Seq(S)
    BY SliceElements
  <2> QED BY <2>1
<1>3. F(0) = <<>>
  BY FlattenStep
<1> HIDE DEF ss
<1>4. \A k \in 0..m : k < m => F(k + 1) = F(k) \o ss[k + 1]
  BY <1>2, FlattenNext
<1>5. F(m) = FlattenSeq(ss)
  BY <1>2, UptoAll
<1> HIDE DEF F
(* The first k slices hold the first k * size elements, as far as there are. *)
<1> DEFINE Joined == {k \in Nat : k <= m =>
                        \E n \in 0..Len(list) :
                          /\ n = k * size \/ (n = Len(list) /\ Len(list) <= k * size)
                          /\ F(k) = SubSeq(list, 1, n)}
<1>6. 0 \in Joined
  <2>1. 0 \in 0..Len(list) /\ 0 = 0 * size /\ <<>> = SubSeq(list, 1, 0)
    OBVIOUS
  <2> QED BY <1>3, <2>1
<1>7. ASSUME NEW k \in Nat, k \in Joined PROVE k + 1 \in Joined
  <2> SUFFICES ASSUME k + 1 <= m
      PROVE  \E n \in 0..Len(list) :
               /\ n = (k + 1) * size \/ (n = Len(list) /\ Len(list) <= (k + 1) * size)
               /\ F(k + 1) = SubSeq(list, 1, n)
    OBVIOUS
  <2>1. PICK n \in 0..Len(list) :
          /\ n = k * size \/ (n = Len(list) /\ Len(list) <= k * size)
          /\ F(k) = SubSeq(list, 1, n)
    BY <1>7
  <2> HIDE DEF Joined
  <2> DEFINE start == k * size
             next == SliceAt(list, k + 1, size)
  <2>2. start \in Nat /\ (k + 1) * size = start + size /\ ((k + 1) - 1) * size = start
    OBVIOUS
  <2>3. F(k + 1) = F(k) \o next
    <3>1. k \in 0..m /\ k < m /\ k + 1 \in 1..m
      OBVIOUS
    <3> QED BY <1>1, <1>4, <3>1
  <2>4. next = IF start >= Len(list) THEN <<>>
               ELSE SubSeq(list, start + 1, Min({start + size, Len(list)}))
    BY <2>2 DEF SliceAt
  <2> HIDE DEF start, next
  <2>5. CASE start >= Len(list)
    <3>1. n = Len(list)
      BY <2>1, <2>2, <2>5 DEF start
    <3>2. F(k) = list /\ next = <<>>
      BY <2>1, <2>4, <2>5, <3>1
    <3>3. list \o <<>> = list /\ SubSeq(list, 1, Len(list)) = list
      OBVIOUS
    <3>4. F(k + 1) = SubSeq(list, 1, Len(list)) /\ Len(list) <= (k + 1) * size /\ Len(list) \in 0..Len(list)
      BY <2>2, <2>3, <2>5, <3>2, <3>3
    <3> QED BY <3>4
  <2>6. CASE start < Len(list)
    <3>1. n = start
      BY <2>1, <2>2, <2>6 DEF start
    <3> DEFINE stop == Min({start + size, Len(list)})
    <3>2. stop \in start + 1..Len(list) /\ (stop = start + size \/ (stop = Len(list) /\ Len(list) <= start + size))
      BY <2>2, <2>6 DEF Min
    <3>3. next = SubSeq(list, start + 1, stop)
      <4>1. ~(start >= Len(list))
        BY <2>2, <2>6
      <4> QED BY <2>4, <4>1
    <3> HIDE DEF stop
    <3>4. SubSeq(list, 1, start) \o SubSeq(list, start + 1, stop) = SubSeq(list, 1, stop)
      BY <2>2, <2>6, <3>2
    <3>5. F(k + 1) = SubSeq(list, 1, stop)
      BY <2>1, <2>3, <3>1, <3>3, <3>4
    <3>6. stop \in 0..Len(list) /\ (stop = (k + 1) * size \/ (stop = Len(list) /\ Len(list) <= (k + 1) * size))
      BY <2>2, <3>2
    <3> QED BY <3>5, <3>6
  <2> QED BY <2>2, <2>5, <2>6
<1> HIDE DEF Joined
<1>8. Nat \subseteq Joined
  BY <1>6, <1>7, FromZeroUp
<1>9. PICK n \in 0..Len(list) :
        /\ n = m * size \/ (n = Len(list) /\ Len(list) <= m * size)
        /\ F(m) = SubSeq(list, 1, n)
  <2>1. m \in Joined /\ m <= m
    BY <1>8
  <2> QED BY <2>1 DEF Joined
<1>10. n = Len(list)
  BY <1>9
<1>11. SubSeq(list, 1, Len(list)) = list
  OBVIOUS
<1> QED BY <1>5, <1>9, <1>10, <1>11 DEF ss
=============================================================================
