---------------------------- MODULE SequenceLemmas ----------------------------
(***************************************************************************)
(* Facts the proofs of more than one component rest on: the least member   *)
(* of a set of numbers, and what the concatenation of a sequence of        *)
(* sequences is, taken from its first and from its last member.            *)
(***************************************************************************)
EXTENDS Integers, Sequences, SequencesExt, SequenceTheorems, WellFoundedInduction, TLAPS

LEMMA LeastExists ==
  ASSUME NEW S \in SUBSET Nat, S # {}
  PROVE  \E m \in S : \A n \in S : m <= n
  <1> DEFINE R == {ss \in Nat \X Nat : ss[1] < ss[2]}
  <1>1. OpToRel(<, Nat) = R
    BY Zenon DEF OpToRel
  <1>2. IsWellFoundedOn(R, Nat)
    BY NatLessThanWellFounded, <1>1, Zenon
  <1>3. PICK m \in S : \A n \in S : ~ (<<n, m>> \in R)
    BY <1>2, WFMin, Zenon
  <1>4. ASSUME NEW n \in S PROVE m <= n
    <2>1. ~ (<<n, m>> \in R)
      BY <1>3
    <2>2. ~ (n < m)
      BY <2>1
    <2>3. QED
      BY <2>2
  <1>5. QED
    BY <1>4

LEMMA MinIsLeast ==
  ASSUME NEW S \in SUBSET Nat, S # {}
  PROVE  Min(S) \in S /\ \A n \in S : Min(S) <= n
  BY LeastExists, Zenon DEF Min

(***************************************************************************)
(* FlattenSeq is a recursive function: that it is defined up to n is shown *)
(* for the least n of which it is not.                                     *)
(***************************************************************************)
Flattens(f, s, n) == f = [i \in 1 .. n |-> IF i = 1 THEN s[i] ELSE f[i - 1] \o s[i]]

LEMMA FlattensUpTo ==
  ASSUME NEW s, NEW n \in Nat
  PROVE  \E f : Flattens(f, s, n)
  <1> DEFINE Fails == {m \in Nat : ~ \E f : Flattens(f, s, m)}
  <1> SUFFICES ASSUME Fails # {} PROVE FALSE
    OBVIOUS
  <1>1. PICK m \in Fails : \A k \in Fails : m <= k
    <2>1. Fails \in SUBSET Nat
      OBVIOUS
    <2>2. QED
      BY <2>1, LeastExists, Zenon
  <1>2. CASE m = 0
    <2> DEFINE f == [i \in 1 .. 0 |-> s]
    <2>1. f = [i \in 1 .. 0 |-> IF i = 1 THEN s[i] ELSE f[i - 1] \o s[i]]
      <3>1. \A i \in 1 .. 0 : FALSE
        OBVIOUS
      <3>2. QED
        BY <3>1, Zenon
    <2>2. QED
      BY <1>1, <1>2, <2>1 DEF Flattens
  <1>3. CASE m # 0
    <2>1. m - 1 \in Nat /\ m - 1 \notin Fails
      BY <1>1, <1>3
    <2>2. PICK g : Flattens(g, s, m - 1)
      BY <2>1
    <2> DEFINE f == [i \in 1 .. m |-> IF i = 1 THEN s[i] ELSE g[i - 1] \o s[i]]
    <2>3. \A i \in 1 .. m - 1 : f[i] = g[i]
      <3>1. \A i \in 1 .. m - 1 : i \in 1 .. m
        BY <2>1
      <3>2. \A i \in 1 .. m - 1 : g[i] = IF i = 1 THEN s[i] ELSE g[i - 1] \o s[i]
        BY <2>2, Zenon DEF Flattens
      <3>3. QED
        BY <3>1, <3>2, Zenon
    <2>4. \A i \in 1 .. m : i # 1 => i - 1 \in 1 .. m - 1
      BY <2>1
    <2>5. \A i \in 1 .. m : f[i] = IF i = 1 THEN s[i] ELSE f[i - 1] \o s[i]
      BY <2>3, <2>4, Zenon
    <2>6. f = [i \in 1 .. m |-> IF i = 1 THEN s[i] ELSE f[i - 1] \o s[i]]
      <3>1. f = [i \in 1 .. m |-> f[i]]
        BY Zenon
      <3> HIDE DEF f
      <3>2. QED
        BY <2>5, <3>1, Zenon
    <2>7. Flattens(f, s, m)
      BY <2>6, Zenon DEF Flattens
    <2>8. QED
      BY <1>1, <2>7, Zenon
  <1>4. QED
    BY <1>2, <1>3

LEMMA FlattenUnfolds ==
  ASSUME NEW s, Len(s) # 0
  PROVE  FlattenSeq(s) = (CHOOSE f : Flattens(f, s, Len(s)))[Len(s)]
  BY Zenon DEF FlattenSeq, Flattens

LEMMA FlattenIs ==
  ASSUME NEW s, Len(s) \in Nat \ {0}
  PROVE  \E f : /\ FlattenSeq(s) = f[Len(s)]
               /\ f[1] = s[1]
               /\ \A i \in 1 .. Len(s) - 1 : f[i + 1] = f[i] \o s[i + 1]
  <1> DEFINE f == CHOOSE f : Flattens(f, s, Len(s))
  <1>1. FlattenSeq(s) = f[Len(s)]
    BY FlattenUnfolds, Zenon
  <1>2. Flattens(f, s, Len(s))
    BY FlattensUpTo, Zenon
  <1> HIDE DEF f
  <1>3. \A i \in 1 .. Len(s) : f[i] = IF i = 1 THEN s[i] ELSE f[i - 1] \o s[i]
    BY <1>2, Zenon DEF Flattens
  <1>4. f[1] = s[1]
    <2>1. 1 \in 1 .. Len(s)
      OBVIOUS
    <2>2. QED
      BY <1>3, <2>1, Zenon
  <1>5. \A i \in 1 .. Len(s) - 1 : f[i + 1] = f[i] \o s[i + 1]
    <2> SUFFICES ASSUME NEW i \in 1 .. Len(s) - 1 PROVE f[i + 1] = f[i] \o s[i + 1]
      OBVIOUS
    <2> DEFINE j == i + 1
    <2>1. j \in 1 .. Len(s) /\ j # 1 /\ j - 1 = i
      OBVIOUS
    <2> HIDE DEF j
    <2>2. f[j] = f[i] \o s[j]
      BY <1>3, <2>1, Zenon
    <2>3. QED
      BY <2>2 DEF j
  <1>6. QED
    BY <1>1, <1>4, <1>5, Zenon

LEMMA FlattenType ==
  ASSUME NEW T, NEW s \in Seq(Seq(T)), NEW f, f[1] = s[1],
         \A i \in 1 .. Len(s) - 1 : f[i + 1] = f[i] \o s[i + 1]
  PROVE  \A i \in 1 .. Len(s) : f[i] \in Seq(T)
  <1> DEFINE Fails == {i \in 1 .. Len(s) : f[i] \notin Seq(T)}
  <1>0. \A i \in 1 .. Len(s) : s[i] \in Seq(T)
    OBVIOUS
  <1> SUFFICES ASSUME Fails # {} PROVE FALSE
    OBVIOUS
  <1>1. PICK m \in Fails : \A k \in Fails : m <= k
    <2>1. Fails \in SUBSET Nat
      OBVIOUS
    <2>2. QED
      BY <2>1, LeastExists, Zenon
  <1>2. m # 1
    BY <1>0, <1>1, Zenon
  <1>3. m - 1 \in 1 .. Len(s) - 1 /\ m - 1 \in 1 .. Len(s) /\ m - 1 + 1 = m /\ m - 1 < m
    BY <1>1, <1>2
  <1>4. f[m - 1] \in Seq(T)
    BY <1>1, <1>3
  <1>5. f[m] = f[m - 1] \o s[m]
    BY <1>3
  <1>6. f[m] \in Seq(T)
    <2>1. s[m] \in Seq(T)
      BY <1>0, <1>1
    <2>2. QED
      BY <1>4, <1>5, <2>1, ConcatProperties, Zenon
  <1>7. QED
    BY <1>1, <1>6, Zenon

LEMMA FlattenFirst ==
  ASSUME NEW T, NEW s \in Seq(Seq(T)), s # <<>>
  PROVE  /\ FlattenSeq(s) \in Seq(T) /\ FlattenSeq(Tail(s)) \in Seq(T)
         /\ FlattenSeq(s) = s[1] \o FlattenSeq(Tail(s))
  <1> DEFINE t == Tail(s)
  <1>1. /\ t \in Seq(Seq(T)) /\ Len(s) \in Nat \ {0} /\ Len(t) = Len(s) - 1
        /\ \A i \in 1 .. Len(t) : t[i] = s[i + 1]
    OBVIOUS
  <1> HIDE DEF t
  <1>2. PICK f : /\ FlattenSeq(s) = f[Len(s)] /\ f[1] = s[1]
                 /\ \A i \in 1 .. Len(s) - 1 : f[i + 1] = f[i] \o s[i + 1]
    BY <1>1, FlattenIs, Zenon
  <1>3. \A i \in 1 .. Len(s) : f[i] \in Seq(T) /\ s[i] \in Seq(T)
    <2>1. \A i \in 1 .. Len(s) : s[i] \in Seq(T)
      OBVIOUS
    <2>2. QED
      BY <1>2, <2>1, FlattenType, Zenon
  <1>4. CASE Len(s) = 1
    <2>1. t = <<>>
      BY <1>1, <1>4
    <2>2. FlattenSeq(t) = <<>>
      BY <2>1 DEF FlattenSeq
    <2>3. 1 \in 1 .. Len(s)
      BY <1>1
    <2>4. s[1] \in Seq(T) /\ FlattenSeq(s) = s[1]
      BY <1>2, <1>3, <1>4, <2>3
    <2>5. s[1] \o <<>> = s[1] /\ <<>> \in Seq(T)
      BY <2>4
    <2>6. QED
      BY <2>2, <2>4, <2>5 DEF t
  <1>5. CASE Len(s) # 1
    <2>1. Len(t) \in Nat \ {0}
      BY <1>1, <1>5
    <2>2. PICK g : /\ FlattenSeq(t) = g[Len(t)] /\ g[1] = t[1]
                   /\ \A i \in 1 .. Len(t) - 1 : g[i + 1] = g[i] \o t[i + 1]
      BY <2>1, FlattenIs, Zenon
    <2>3. \A i \in 1 .. Len(t) : g[i] \in Seq(T) /\ t[i] \in Seq(T)
      <3>1. \A i \in 1 .. Len(t) : t[i] \in Seq(T)
        BY <1>1
      <3>2. QED
        BY <1>1, <2>2, <3>1, FlattenType, Zenon
    <2> DEFINE Fails == {i \in 1 .. Len(t) : f[i + 1] # s[1] \o g[i]}
    <2>4. Fails = {}
      <3> SUFFICES ASSUME Fails # {} PROVE FALSE
        OBVIOUS
      <3>1. PICK m \in Fails : \A k \in Fails : m <= k
        <4>1. \A i \in 1 .. Len(t) : i \in Nat
          OBVIOUS
        <4>2. Fails \in SUBSET Nat
          BY <4>1, Zenon
        <4>3. QED
          BY <4>2, LeastExists, Zenon
      <3>2. 1 \in 1 .. Len(s) - 1 /\ 1 \in 1 .. Len(s) /\ 1 \in 1 .. Len(t) /\ m \in 1 .. Len(t)
        BY <1>1, <2>1
      <3>3. m # 1
        <4>1. f[1 + 1] = f[1] \o s[1 + 1] /\ t[1] = s[1 + 1]
          BY <1>1, <1>2, <3>2, Zenon
        <4>2. f[1 + 1] = s[1] \o g[1]
          BY <1>2, <2>2, <4>1
        <4>3. QED
          BY <4>2
      <3>4. /\ m - 1 \in 1 .. Len(t) /\ m - 1 \in 1 .. Len(t) - 1
            /\ m - 1 + 1 = m /\ ~ (m <= m - 1) /\ m \in 1 .. Len(s) - 1
        BY <1>1, <3>2, <3>3
      <3>5. f[m] = s[1] \o g[m - 1]
        BY <3>1, <3>4
      <3>6. f[m + 1] = f[m] \o s[m + 1] /\ g[m] = g[m - 1] \o t[m] /\ t[m] = s[m + 1]
        BY <1>1, <1>2, <2>2, <3>2, <3>4
      <3>7. s[1] \in Seq(T) /\ g[m - 1] \in Seq(T) /\ t[m] \in Seq(T)
        BY <1>3, <2>3, <3>2, <3>4, Zenon
      <3>8. (s[1] \o g[m - 1]) \o t[m] = s[1] \o (g[m - 1] \o t[m])
        <4>1. \A a, b, c \in Seq(T) : (a \o b) \o c = a \o (b \o c)
          BY ConcatAssociative, SMTT(40)
        <4>2. QED
          BY <3>7, <4>1, Zenon
      <3>9. f[m + 1] = s[1] \o g[m]
        BY <3>5, <3>6, <3>8, Zenon
      <3>10. QED
        BY <3>1, <3>9
    <2>5. Len(t) \in 1 .. Len(t) /\ Len(t) + 1 = Len(s) /\ Len(s) \in 1 .. Len(s)
      BY <1>1, <2>1
    <2>6. f[Len(t) + 1] = s[1] \o g[Len(t)]
      BY <2>4, <2>5, Zenon
    <2>7. QED
      BY <1>2, <1>3, <2>2, <2>3, <2>5, <2>6, Zenon DEF t
  <1>6. QED
    BY <1>4, <1>5

LEMMA FlattenLast ==
  ASSUME NEW T, NEW s \in Seq(Seq(T)), NEW x \in Seq(T)
  PROVE  FlattenSeq(Append(s, x)) = FlattenSeq(s) \o x
  <1> DEFINE t == Append(s, x)
  <1>1. /\ t \in Seq(Seq(T)) /\ Len(s) \in Nat /\ Len(t) = Len(s) + 1
        /\ \A i \in 1 .. Len(s) : t[i] = s[i]
        /\ t[Len(s) + 1] = x
    BY AppendProperties
  <1> HIDE DEF t
  <1>2. PICK g : /\ FlattenSeq(t) = g[Len(t)] /\ g[1] = t[1]
                 /\ \A i \in 1 .. Len(t) - 1 : g[i + 1] = g[i] \o t[i + 1]
    <2>1. Len(t) \in Nat \ {0}
      BY <1>1
    <2>2. QED
      BY <2>1, FlattenIs, Zenon
  <1>3. CASE Len(s) = 0
    <2>1. s = <<>>
      BY <1>3
    <2>2. FlattenSeq(s) = <<>>
      BY <2>1 DEF FlattenSeq
    <2>3. FlattenSeq(t) = x
      BY <1>1, <1>2, <1>3
    <2>4. <<>> \o x = x
      OBVIOUS
    <2>5. QED
      BY <2>2, <2>3, <2>4 DEF t
  <1>4. CASE Len(s) # 0
    <2>1. PICK f : /\ FlattenSeq(s) = f[Len(s)] /\ f[1] = s[1]
                   /\ \A i \in 1 .. Len(s) - 1 : f[i + 1] = f[i] \o s[i + 1]
      <3>1. Len(s) \in Nat \ {0}
        BY <1>1, <1>4
      <3>2. QED
        BY <3>1, FlattenIs, Zenon
    <2> DEFINE Fails == {i \in 1 .. Len(s) : g[i] # f[i]}
    <2>2. Fails = {}
      <3> SUFFICES ASSUME Fails # {} PROVE FALSE
        OBVIOUS
      <3>1. PICK m \in Fails : \A k \in Fails : m <= k
        <4>1. Fails \in SUBSET Nat
          BY <1>1
        <4>2. QED
          BY <4>1, LeastExists, Zenon
      <3>2. m # 1
        <4>1. 1 \in 1 .. Len(s)
          BY <1>1, <1>4
        <4>2. QED
          BY <1>1, <1>2, <2>1, <3>1, <4>1
      <3>3. /\ m - 1 \in 1 .. Len(s) /\ m - 1 \in 1 .. Len(s) - 1 /\ m - 1 \in 1 .. Len(t) - 1
            /\ m - 1 + 1 = m /\ ~ (m <= m - 1) /\ m \in 1 .. Len(s)
        BY <1>1, <3>1, <3>2
      <3>4. g[m - 1] = f[m - 1] /\ t[m] = s[m]
        BY <1>1, <3>1, <3>3
      <3>5. g[m] = g[m - 1] \o t[m] /\ f[m] = f[m - 1] \o s[m]
        BY <1>2, <2>1, <3>3
      <3>6. QED
        BY <3>1, <3>4, <3>5
    <2>3. Len(s) \in 1 .. Len(s) /\ Len(s) \in 1 .. Len(t) - 1
      BY <1>1, <1>4
    <2>4. g[Len(s) + 1] = g[Len(s)] \o t[Len(s) + 1] /\ g[Len(s)] = f[Len(s)]
      BY <1>2, <2>2, <2>3
    <2>5. QED
      BY <1>1, <1>2, <2>1, <2>4 DEF t
  <1>5. QED
    BY <1>3, <1>4

===============================================================================
