-------------------------- MODULE Toolkits_proofs --------------------------
(***************************************************************************)
(* What the toolkits keep whatever they are given: the tools' schemas, the *)
(* guardrails' audit trail, the pipeline's two indexes and the memories.   *)
(* The first section is what the others need of sequences, proved by       *)
(* induction: to show that all numbers, or all sequences, are in a set, it *)
(* is enough that the set holds the first and the next of each.            *)
(***************************************************************************)
EXTENDS RAGPipeline, Guardrails, AgentTools, Memory, FiniteSetTheorems,
  SequenceTheorems, NaturalsInduction, WellFoundedInduction, TLAPS

-----------------------------------------------------------------------------
(* Induction over sets of numbers, and what it says of sequences.          *)

\* A set of natural numbers has a least element, and so induction over a set of
\* them: the theorems on induction of the library take an operator.
LEMMA LeastNat ==
  ASSUME NEW T \in SUBSET Nat, T # {}
  PROVE  \E m \in T : \A n \in T : m <= n
<1> DEFINE R == OpToRel(<, Nat)
<1>1. IsWellFoundedOn(R, Nat)
  BY NatLessThanWellFounded
<1>2. R = {p \in Nat \X Nat : p[1] < p[2]}
  BY Zenon DEF OpToRel
<1> HIDE DEF R
<1>3. PICK m \in T : \A n \in T : ~(<<n, m>> \in R)
  BY <1>1, WFMin
<1>4. ASSUME NEW n \in T
      PROVE  m <= n
  <2>1. ~(<<n, m>> \in {p \in Nat \X Nat : p[1] < p[2]})
    BY <1>2, <1>3
  <2>2. m \in Nat /\ n \in Nat
    OBVIOUS
  <2>3. ~(n < m)
    BY <2>1, <2>2
  <2> QED  BY <2>2, <2>3
<1> QED BY <1>4

\* A set that holds 0 and the next of each number it holds has them all.
LEMMA SetInduction ==
  ASSUME NEW S, 0 \in S, \A n \in Nat : n \in S => n + 1 \in S
  PROVE  Nat \subseteq S
<1> DEFINE T == Nat \ S
<1>1. CASE T # {}
  <2>1. PICK m \in T : \A n \in T : m <= n
    BY <1>1, LeastNat
  <2>2. m # 0 /\ m - 1 \in Nat /\ m - 1 \in S
    BY <2>1
  <2>3. (m - 1) + 1 = m
    BY <2>2
  <2> QED BY <2>1, <2>2, <2>3
<1> QED BY <1>1

\* A function that is as FlattenSeq's up to n.
FlattensUpTo(f, seqs, n) ==
  \A i \in 1 .. n : f[i] = IF i = 1 THEN seqs[i] ELSE f[i - 1] \o seqs[i]
IsFlattening(f, seqs) ==
  f = [i \in 1 .. Len(seqs) |-> IF i = 1 THEN seqs[i] ELSE f[i - 1] \o seqs[i]]

\* What is in two sequences, one after the other.
LEMMA ConcatElements ==
  ASSUME NEW X, NEW s \in Seq(X), NEW t \in Seq(X)
  PROVE  s \o t \in Seq(X) /\ ToSet(s \o t) = ToSet(s) \union ToSet(t)
<1> DEFINE u == s \o t
<1>1. /\ u \in Seq(X) /\ Len(s) \in Nat /\ Len(t) \in Nat
      /\ DOMAIN u = 1 .. Len(s) + Len(t) /\ DOMAIN s = 1 .. Len(s) /\ DOMAIN t = 1 .. Len(t)
      /\ \A i \in 1 .. Len(s) : u[i] = s[i]
      /\ \A i \in 1 .. Len(t) : u[Len(s) + i] = t[i]
  OBVIOUS
<1> HIDE DEF u
<1>2. ToSet(s) \union ToSet(t) \subseteq ToSet(u)
  <2>1. \A i \in DOMAIN s : i \in DOMAIN u /\ u[i] = s[i]
    BY <1>1
  <2>2. \A i \in DOMAIN t : Len(s) + i \in DOMAIN u /\ u[Len(s) + i] = t[i]
    BY <1>1
  <2> QED  BY <2>1, <2>2 DEF ToSet
<1>3. ToSet(u) \subseteq ToSet(s) \union ToSet(t)
  <2>1. ASSUME NEW i \in DOMAIN u
        PROVE  u[i] \in ToSet(s) \union ToSet(t)
    <3>1. CASE i <= Len(s)
      <4>1. i \in DOMAIN s /\ u[i] = s[i]
        BY <1>1, <3>1
      <4> QED  BY <4>1 DEF ToSet
    <3>2. CASE i > Len(s)
      <4>1. i - Len(s) \in DOMAIN t /\ Len(s) + (i - Len(s)) = i
        BY <1>1, <3>2
      <4>2. u[i] = t[i - Len(s)]
        BY <1>1, <4>1
      <4> QED  BY <4>1, <4>2 DEF ToSet
    <3> QED  BY <1>1, <3>1, <3>2
  <2> QED  BY <2>1 DEF ToSet
<1> QED  BY <1>1, <1>2, <1>3 DEF u

\* One more sequence.
LEMMA FlattenOneMore ==
  ASSUME NEW X, NEW seqs \in Seq(Seq(X)), NEW n \in Nat, n + 1 <= Len(seqs),
         NEW f \in [1 .. n -> Seq(X)], FlattensUpTo(f, seqs, n)
  PROVE  \E g \in [1 .. n + 1 -> Seq(X)] : FlattensUpTo(g, seqs, n + 1)
<1>1. PICK next \in Seq(X) : next = IF n = 0 THEN seqs[n + 1] ELSE f[n] \o seqs[n + 1]
  <2>1. n + 1 \in 1 .. Len(seqs) /\ seqs[n + 1] \in Seq(X)
    OBVIOUS
  <2>2. n # 0 => f[n] \in Seq(X)
    OBVIOUS
  <2>3. n # 0 => f[n] \o seqs[n + 1] \in Seq(X)
    BY <2>1, <2>2, ConcatProperties
  <2> QED  BY <2>1, <2>3
<1> DEFINE g == [i \in 1 .. n + 1 |-> IF i <= n THEN f[i] ELSE next]
<1>2. /\ \A i \in 1 .. n : g[i] = f[i]
      /\ g[n + 1] = next
  OBVIOUS
<1>3. g \in [1 .. n + 1 -> Seq(X)]
  OBVIOUS
<1>4. n = 0 => next = seqs[n + 1]
  BY <1>1
<1>5. n # 0 => next = f[n] \o seqs[n + 1]
  BY <1>1
<1> HIDE DEF g
<1>6. ASSUME NEW i \in 1 .. n + 1
      PROVE  g[i] = IF i = 1 THEN seqs[i] ELSE g[i - 1] \o seqs[i]
  <2>1. CASE i = n + 1
    <3>1. CASE n = 0
      BY <1>2, <1>4, <2>1, <3>1
    <3>2. CASE n # 0
      <4>1. i # 1 /\ i - 1 = n /\ n \in 1 .. n
        BY <2>1, <3>2
      <4>2. g[i - 1] = f[n] /\ g[i] = f[n] \o seqs[i]
        BY <1>2, <1>5, <2>1, <3>2, <4>1
      <4> QED  BY <4>1, <4>2
    <3> QED  BY <3>1, <3>2
  <2>2. CASE i \in 1 .. n
    <3>1. i # 1 => i - 1 \in 1 .. n
      BY <2>2
    <3> QED  BY <1>2, <2>2, <3>1 DEF FlattensUpTo
  <2> QED  BY <2>1, <2>2
<1> QED  BY <1>3, <1>6 DEF FlattensUpTo

\* FlattenSeq's recursion defines a function.
LEMMA FlatteningExists ==
  ASSUME NEW X, NEW seqs \in Seq(Seq(X))
  PROVE  \E f \in [1 .. Len(seqs) -> Seq(X)] : IsFlattening(f, seqs)
<1> DEFINE S == {n \in Nat : n <= Len(seqs) =>
                   \E f \in [1 .. n -> Seq(X)] : FlattensUpTo(f, seqs, n)}
<1>1. 0 \in S
  <2>1. [i \in 1 .. 0 |-> <<>>] \in [1 .. 0 -> Seq(X)]
    OBVIOUS
  <2>2. FlattensUpTo([i \in 1 .. 0 |-> <<>>], seqs, 0)
    BY DEF FlattensUpTo
  <2> QED  BY <2>1, <2>2
<1>2. ASSUME NEW n \in Nat, n \in S
      PROVE  n + 1 \in S
  <2>1. n + 1 <= Len(seqs) => n <= Len(seqs)
    OBVIOUS
  <2> QED  BY <1>2, <2>1, FlattenOneMore
<1>3. Nat \subseteq S
  <2> HIDE DEF S
  <2> QED  BY <1>1, <1>2, SetInduction
<1>4. PICK f \in [1 .. Len(seqs) -> Seq(X)] : FlattensUpTo(f, seqs, Len(seqs))
  BY <1>3
<1>5. f = [i \in 1 .. Len(seqs) |-> IF i = 1 THEN seqs[i] ELSE f[i - 1] \o seqs[i]]
  BY <1>4 DEF FlattensUpTo
<1> QED  BY <1>5 DEF IsFlattening

\* A flattened sequence holds what its parts do.
LEMMA FlattenSeqProperties ==
  ASSUME NEW X, NEW seqs \in Seq(Seq(X))
  PROVE  /\ FlattenSeq(seqs) \in Seq(X)
         /\ \A n \in DOMAIN seqs : ToSet(seqs[n]) \subseteq ToSet(FlattenSeq(seqs))
<1> DEFINE N == Len(seqs)
           F == CHOOSE f : IsFlattening(f, seqs)
           S == {n \in Nat : n \in 1 .. N =>
                   F[n] \in Seq(X) /\ \A i \in 1 .. n : ToSet(seqs[i]) \subseteq ToSet(F[n])}
<1>1. N \in Nat /\ DOMAIN seqs = 1 .. N /\ \A i \in 1 .. N : seqs[i] \in Seq(X)
  OBVIOUS
<1>2. CASE N = 0
  BY <1>1, <1>2 DEF FlattenSeq
<1>3. CASE N # 0
  <2>1. FlattenSeq(seqs) = F[N]
    BY <1>3, Zenon DEF FlattenSeq, IsFlattening
  <2>2. IsFlattening(F, seqs)
    BY FlatteningExists
  <2>3. \A i \in 1 .. N : F[i] = IF i = 1 THEN seqs[i] ELSE F[i - 1] \o seqs[i]
    BY <2>2 DEF IsFlattening
  <2> HIDE DEF F
  <2>4. 0 \in S
    OBVIOUS
  <2>5. ASSUME NEW n \in Nat, n \in S
        PROVE  n + 1 \in S
    <3> SUFFICES ASSUME n + 1 \in 1 .. N
                 PROVE  /\ F[n + 1] \in Seq(X)
                        /\ \A i \in 1 .. n + 1 : ToSet(seqs[i]) \subseteq ToSet(F[n + 1])
      OBVIOUS
    <3>1. seqs[n + 1] \in Seq(X)
      BY <1>1
    <3>2. CASE n = 0
      <4>1. F[n + 1] = seqs[n + 1] /\ 1 .. n + 1 = {n + 1}
        BY <2>3, <3>2
      <4> QED  BY <3>1, <4>1
    <3>3. CASE n # 0
      <4>1. n \in 1 .. N /\ n + 1 # 1 /\ (n + 1) - 1 = n
        BY <1>1, <3>3
      <4>2. F[n + 1] = F[n] \o seqs[n + 1]
        BY <2>3, <4>1
      <4>3. F[n] \in Seq(X) /\ \A i \in 1 .. n : ToSet(seqs[i]) \subseteq ToSet(F[n])
        BY <2>5, <4>1
      <4>4. /\ F[n + 1] \in Seq(X)
            /\ ToSet(F[n + 1]) = ToSet(F[n]) \union ToSet(seqs[n + 1])
        BY <3>1, <4>2, <4>3, ConcatElements
      <4>5. \A i \in 1 .. n + 1 : i \in 1 .. n \/ i = n + 1
        OBVIOUS
      <4> QED  BY <4>3, <4>4, <4>5
    <3> QED  BY <3>2, <3>3
  <2>6. Nat \subseteq S
    <3> HIDE DEF S
    <3> QED  BY <2>4, <2>5, SetInduction
  <2>7. F[N] \in Seq(X) /\ \A i \in 1 .. N : ToSet(seqs[i]) \subseteq ToSet(F[N])
    <3>1. N \in 1 .. N
      BY <1>1, <1>3
    <3>2. N \in S
      <4> HIDE DEF S
      <4> QED  BY <1>1, <2>6
    <3> QED  BY <3>1, <3>2
  <2> QED  BY <1>1, <2>1, <2>7
<1> QED  BY <1>2, <1>3

\* Two sequences that start with the same ones are flattened alike so far.
LEMMA FlattensAlike ==
  ASSUME NEW seqs, NEW other, NEW n \in Nat, \A i \in 1 .. n : seqs[i] = other[i],
         NEW f, NEW g, FlattensUpTo(f, seqs, n), FlattensUpTo(g, other, n)
  PROVE  \A i \in 1 .. n : f[i] = g[i]
<1> DEFINE S == {m \in Nat : m \in 1 .. n => f[m] = g[m]}
<1>1. 0 \in S
  OBVIOUS
<1>2. ASSUME NEW m \in Nat, m \in S
      PROVE  m + 1 \in S
  <2> SUFFICES ASSUME m + 1 \in 1 .. n
               PROVE  f[m + 1] = g[m + 1]
    OBVIOUS
  <2>1. (m + 1) - 1 = m /\ seqs[m + 1] = other[m + 1]
    OBVIOUS
  <2>2. CASE m = 0
    <3>1. f[m + 1] = seqs[m + 1] /\ g[m + 1] = other[m + 1]
      BY <2>2 DEF FlattensUpTo
    <3> QED  BY <2>1, <3>1
  <2>3. CASE m # 0
    <3>1. m + 1 # 1 /\ f[m] = g[m]
      BY <1>2, <2>3
    <3>2. f[m + 1] = f[m] \o seqs[m + 1] /\ g[m + 1] = g[m] \o other[m + 1]
      BY <2>1, <3>1 DEF FlattensUpTo
    <3> QED  BY <2>1, <3>1, <3>2
  <2> QED  BY <2>2, <2>3
<1>3. Nat \subseteq S
  <2> HIDE DEF S
  <2> QED  BY <1>1, <1>2, SetInduction
<1>4. \A i \in 1 .. n : i \in S
  <2> HIDE DEF S
  <2> QED  BY <1>3
<1> QED  BY <1>4

\* FlattenSeq is the last value of its recursion.
LEMMA FlattenSeqIs ==
  ASSUME NEW X, NEW seqs \in Seq(Seq(X)), seqs # <<>>
  PROVE  \E f : FlattensUpTo(f, seqs, Len(seqs)) /\ FlattenSeq(seqs) = f[Len(seqs)]
<1> DEFINE F == CHOOSE f : IsFlattening(f, seqs)
<1>1. Len(seqs) \in Nat /\ Len(seqs) # 0
  OBVIOUS
<1>2. FlattenSeq(seqs) = F[Len(seqs)]
  BY <1>1, Zenon DEF FlattenSeq, IsFlattening
<1>3. IsFlattening(F, seqs)
  BY FlatteningExists
<1> HIDE DEF F
<1>4. FlattensUpTo(F, seqs, Len(seqs))
  BY <1>3 DEF IsFlattening, FlattensUpTo
<1> QED  BY <1>2, <1>4

\* What an element more does to a sequence.
LEMMA AppendElements ==
  ASSUME NEW X, NEW s \in Seq(X), NEW x \in X
  PROVE  /\ Append(s, x) \in Seq(X) /\ Append(s, x) # <<>>
         /\ Len(s) \in Nat /\ Len(Append(s, x)) = Len(s) + 1
         /\ Append(s, x)[Len(s) + 1] = x
         /\ \A i \in 1 .. Len(s) : Append(s, x)[i] = s[i]
<1>1. Len(Append(s, x)) = Len(s) + 1 /\ Len(s) \in Nat
  OBVIOUS
<1>2. Append(s, x) # <<>>
  BY <1>1
<1> QED  BY <1>1, <1>2

\* One sequence more to flatten.
LEMMA FlattenSeqAppend ==
  ASSUME NEW X, NEW seqs \in Seq(Seq(X)), NEW s \in Seq(X)
  PROVE  FlattenSeq(Append(seqs, s)) = FlattenSeq(seqs) \o s
<1> DEFINE more == Append(seqs, s)
           n == Len(seqs)
<1>1. /\ more \in Seq(Seq(X)) /\ more # <<>> /\ n \in Nat /\ Len(more) = n + 1
      /\ more[n + 1] = s /\ \A i \in 1 .. n : more[i] = seqs[i]
  <2>1. seqs \in Seq(Seq(X)) /\ s \in Seq(X)
    OBVIOUS
  <2> QED  BY <2>1, AppendElements
<1> HIDE DEF more, n
<1>2. PICK g : FlattensUpTo(g, more, n + 1) /\ FlattenSeq(more) = g[n + 1]
  BY <1>1, FlattenSeqIs
<1>3. CASE seqs = <<>>
  <2>1. FlattenSeq(seqs) = <<>> /\ n = 0
    BY <1>3 DEF FlattenSeq, n
  <2>2. g[n + 1] = s
    BY <1>1, <1>2, <2>1 DEF FlattensUpTo
  <2> QED  BY <1>2, <2>1, <2>2, ConcatEmptySeq DEF more
<1>4. CASE seqs # <<>>
  <2>1. PICK f : FlattensUpTo(f, seqs, n) /\ FlattenSeq(seqs) = f[n]
    BY <1>4, FlattenSeqIs DEF n
  <2>2. n \in 1 .. n /\ n + 1 \in 1 .. n + 1 /\ n + 1 # 1 /\ (n + 1) - 1 = n
    <3>1. n # 0
      BY <1>4 DEF n
    <3> QED  BY <1>1, <3>1
  <2>3. FlattensUpTo(g, more, n)
    BY <1>1, <1>2 DEF FlattensUpTo
  <2>4. g[n] = f[n]
    <3>1. n \in Nat /\ \A i \in 1 .. n : more[i] = seqs[i]
      BY <1>1
    <3>2. \A i \in 1 .. n : g[i] = f[i]
      BY <2>1, <2>3, <3>1, FlattensAlike
    <3> QED  BY <2>2, <3>2
  <2>5. g[n + 1] = g[n] \o s
    BY <1>1, <1>2, <2>2 DEF FlattensUpTo
  <2> QED  BY <1>2, <2>1, <2>4, <2>5 DEF more
<1> QED  BY <1>3, <1>4

\* Induction over sequences, in the form of a set.
LEMMA SeqInduction ==
  ASSUME NEW X, NEW S, <<>> \in S, \A s \in Seq(X), x \in X : s \in S => Append(s, x) \in S
  PROVE  Seq(X) \subseteq S
<1> DEFINE T == {n \in Nat : \A s \in Seq(X) : Len(s) = n => s \in S}
<1>1. 0 \in T
  <2>1. \A s \in Seq(X) : Len(s) = 0 => s = <<>>
    OBVIOUS
  <2> QED  BY <2>1
<1>2. ASSUME NEW n \in Nat, n \in T
      PROVE  n + 1 \in T
  <2> SUFFICES ASSUME NEW s \in Seq(X), Len(s) = n + 1
               PROVE  s \in S
    OBVIOUS
  <2> DEFINE front == SubSeq(s, 1, n)
  <2>1. front \in Seq(X) /\ Len(front) = n /\ s[n + 1] \in X
    OBVIOUS
  <2>2. s = Append(front, s[n + 1])
    OBVIOUS
  <2>3. front \in S
    BY <1>2, <2>1
  <2> HIDE DEF front
  <2> QED  BY <2>1, <2>2, <2>3
<1>3. Nat \subseteq T
  <2> HIDE DEF T
  <2> QED  BY <1>1, <1>2, SetInduction
<1>4. \A s \in Seq(X) : Len(s) \in Nat
  OBVIOUS
<1> QED  BY <1>3, <1>4

\* What of a list is among a set: of each position, itself or nothing.
Picks(s, some) == [i \in DOMAIN s |-> IF s[i] \in some THEN <<s[i]>> ELSE <<>>]

\* What Among picks at each position.
LEMMA PicksTyped ==
  ASSUME NEW X, NEW s \in Seq(X), NEW some
  PROVE  Picks(s, some) \in Seq(Seq(X)) /\ Len(Picks(s, some)) = Len(s)
<1>1. DOMAIN s = 1 .. Len(s) /\ Len(s) \in Nat /\ \A i \in 1 .. Len(s) : s[i] \in X
  OBVIOUS
<1>2. \A i \in 1 .. Len(s) : (IF s[i] \in some THEN <<s[i]>> ELSE <<>>) \in Seq(X)
  BY <1>1
<1> QED  BY <1>1, <1>2 DEF Picks

\* Nothing is among no turns.
LEMMA AmongEmpty ==
  ASSUME NEW some
  PROVE  Among(<<>>, some) = <<>>
<1>1. Picks(<<>>, some) = <<>>
  BY DEF Picks
<1>2. FlattenSeq(<<>>) = <<>>
  BY DEF FlattenSeq
<1> QED  BY <1>1, <1>2 DEF Among, Picks

\* One turn more to choose among.
LEMMA AmongAppend ==
  ASSUME NEW X, NEW s \in Seq(X), NEW x \in X, NEW some
  PROVE  /\ x \in some => Among(Append(s, x), some) = Append(Among(s, some), x)
         /\ x \notin some => Among(Append(s, x), some) = Among(s, some)
         /\ Among(s, some) \in Seq(X)
<1> DEFINE pick == IF x \in some THEN <<x>> ELSE <<>>
<1>1. pick \in Seq(X)
  OBVIOUS
<1>2. Picks(s, some) \in Seq(Seq(X)) /\ Len(Picks(s, some)) = Len(s)
  BY PicksTyped
<1>3. /\ Append(s, x) \in Seq(X) /\ Len(Append(s, x)) = Len(s) + 1
      /\ Picks(Append(s, x), some) \in Seq(Seq(X))
      /\ Len(Picks(Append(s, x), some)) = Len(s) + 1
  <2>1. Append(s, x) \in Seq(X) /\ Len(Append(s, x)) = Len(s) + 1
    OBVIOUS
  <2>2. /\ Picks(Append(s, x), some) \in Seq(Seq(X))
        /\ Len(Picks(Append(s, x), some)) = Len(Append(s, x))
    BY <2>1, PicksTyped, Zenon
  <2> QED  BY <2>1, <2>2, Zenon
<1>4. Picks(Append(s, x), some) = Append(Picks(s, some), pick)
  <2> DEFINE p == Picks(Append(s, x), some)
             q == Append(Picks(s, some), pick)
  <2>1. /\ q \in Seq(Seq(X)) /\ Len(q) = Len(s) + 1 /\ Len(s) \in Nat
        /\ q[Len(s) + 1] = pick /\ \A i \in 1 .. Len(s) : q[i] = Picks(s, some)[i]
    <3>1. /\ q \in Seq(Seq(X)) /\ Len(q) = Len(Picks(s, some)) + 1
          /\ q[Len(Picks(s, some)) + 1] = pick
          /\ \A i \in 1 .. Len(Picks(s, some)) : q[i] = Picks(s, some)[i]
      BY <1>1, <1>2, AppendElements
    <3>2. Len(s) \in Nat
      OBVIOUS
    <3> QED  BY <1>2, <3>1, <3>2
  <2>2. p \in Seq(Seq(X)) /\ Len(p) = Len(s) + 1
    BY <1>3, Zenon
  <2>3. p[Len(s) + 1] = pick
    BY DEF Picks
  <2>4. \A i \in 1 .. Len(s) : p[i] = Picks(s, some)[i]
    BY DEF Picks
  <2> HIDE DEF p, q
  <2>5. \A i \in 1 .. Len(p) : p[i] = q[i]
    <3>1. \A i \in 1 .. Len(s) + 1 : i \in 1 .. Len(s) \/ i = Len(s) + 1
      BY <2>1
    <3> QED  BY <2>1, <2>2, <2>3, <2>4, <3>1
  <2>6. p = q
    BY <2>1, <2>2, <2>5, SeqEqual
  <2> QED  BY <2>6 DEF p, q
<1>5. FlattenSeq(Append(Picks(s, some), pick)) = FlattenSeq(Picks(s, some)) \o pick
  BY <1>1, <1>2, FlattenSeqAppend
<1>6. Among(Append(s, x), some) = Among(s, some) \o pick
  BY <1>4, <1>5 DEF Among, Picks
<1>7. Among(s, some) \in Seq(X)
  BY <1>2, FlattenSeqProperties DEF Among, Picks
<1>8. x \in some => Among(s, some) \o pick = Append(Among(s, some), x)
  BY <1>7
<1>9. x \notin some => Among(s, some) \o pick = Among(s, some)
  BY <1>7
<1> QED  BY <1>6, <1>7, <1>8, <1>9

\* What a list holds, with an element more.
LEMMA AppendSet ==
  ASSUME NEW X, NEW s \in Seq(X), NEW x \in X
  PROVE  ToSet(Append(s, x)) = ToSet(s) \union {x}
<1>1. <<x>> \in Seq(X) /\ ToSet(<<x>>) = {x} /\ Append(s, x) = s \o <<x>>
  BY DEF ToSet
<1>2. ToSet(s \o <<x>>) = ToSet(s) \union ToSet(<<x>>)
  BY <1>1, ConcatElements, Zenon
<1> QED  BY <1>1, <1>2, Zenon

\* What is picked is what the list and the set have in common; a list within the
\* set is picked whole.
LEMMA AmongElements ==
  ASSUME NEW X, NEW some
  PROVE  \A s \in Seq(X) : /\ Among(s, some) \in Seq(X)
                           /\ ToSet(Among(s, some)) = ToSet(s) \cap some
                           /\ ToSet(s) \subseteq some => Among(s, some) = s
                           /\ ToSet(s) \cap some = {} => Among(s, some) = <<>>
<1> DEFINE Good(s) == /\ Among(s, some) \in Seq(X)
                      /\ ToSet(Among(s, some)) = ToSet(s) \cap some
                      /\ ToSet(s) \subseteq some => Among(s, some) = s
                      /\ ToSet(s) \cap some = {} => Among(s, some) = <<>>
           S == {s \in Seq(X) : Good(s)}
<1>1. <<>> \in S
  <2>1. ToSet(<<>>) = {} /\ <<>> \in Seq(X)
    BY DEF ToSet
  <2> QED  BY <2>1, AmongEmpty
<1>2. ASSUME NEW s \in Seq(X), NEW x \in X, s \in S
      PROVE  Append(s, x) \in S
  <2>1. Good(s)
    BY <1>2
  <2>2. ToSet(Append(s, x)) = ToSet(s) \union {x} /\ Append(s, x) \in Seq(X)
    BY AppendSet
  <2>3. CASE x \in some
    <3>1. Among(Append(s, x), some) = Append(Among(s, some), x)
      BY <2>3, AmongAppend
    <3>2. ToSet(Append(Among(s, some), x)) = ToSet(Among(s, some)) \union {x}
      BY <2>1, AppendSet
    <3>3. Append(Among(s, some), x) \in Seq(X)
      BY <2>1
    <3>4. ToSet(Append(s, x)) \subseteq some => Append(Among(s, some), x) = Append(s, x)
      BY <2>1, <2>2
    <3> DEFINE longer == Append(s, x)
               found == Append(Among(s, some), x)
    <3> HIDE DEF longer, found
    <3>5. /\ Among(longer, some) = found /\ found \in Seq(X) /\ longer \in Seq(X)
          /\ ToSet(longer) = ToSet(s) \union {x}
          /\ ToSet(found) = ToSet(Among(s, some)) \union {x}
          /\ ToSet(longer) \subseteq some => found = longer
      BY <2>2, <3>1, <3>2, <3>3, <3>4, Zenon DEF longer, found
    <3>6. Good(longer)
      BY <2>1, <2>3, <3>5
    <3> QED  BY <3>5, <3>6 DEF longer
  <2>4. CASE x \notin some
    <3>1. Among(Append(s, x), some) = Among(s, some)
      BY <2>4, AmongAppend
    <3> QED  BY <2>1, <2>2, <2>4, <3>1
  <2> QED  BY <2>3, <2>4
<1>3. Seq(X) \subseteq S
  <2> HIDE DEF S
  <2> QED  BY <1>1, <1>2, SeqInduction
<1> QED  BY <1>3

\* Only what the list holds of the set counts.
LEMMA AmongSame ==
  ASSUME NEW X, NEW s \in Seq(X), NEW some, NEW others,
         ToSet(s) \cap some = ToSet(s) \cap others
  PROVE  Among(s, some) = Among(s, others)
<1>1. \A i \in DOMAIN s : s[i] \in some <=> s[i] \in others
  BY DEF ToSet
<1>2. Picks(s, some) = Picks(s, others)
  BY <1>1 DEF Picks
<1> QED  BY <1>2 DEF Among, Picks

\* Of two lists, one after the other, what is picked of each.
LEMMA AmongConcat ==
  ASSUME NEW X, NEW s \in Seq(X), NEW some
  PROVE  \A t \in Seq(X) : Among(s \o t, some) = Among(s, some) \o Among(t, some)
<1> DEFINE S == {t \in Seq(X) : Among(s \o t, some) = Among(s, some) \o Among(t, some)}
<1>1. Among(s, some) \in Seq(X)
  BY AmongElements
<1>2. <<>> \in S
  <2>1. s \o <<>> = s /\ Among(s, some) \o <<>> = Among(s, some) /\ <<>> \in Seq(X)
    BY <1>1
  <2> QED  BY <2>1, AmongEmpty
<1>3. ASSUME NEW t \in Seq(X), NEW x \in X, t \in S
      PROVE  Append(t, x) \in S
  <2>1. s \o t \in Seq(X) /\ Append(t, x) \in Seq(X)
    OBVIOUS
  <2> DEFINE u == s \o t
  <2>2. u \in Seq(X) /\ s \o Append(t, x) = Append(u, x)
    OBVIOUS
  <2>3. Among(u, some) = Among(s, some) \o Among(t, some)
    BY <1>3
  <2> HIDE DEF u
  <2>4. Among(t, some) \in Seq(X)
    BY AmongElements
  <2>5. CASE x \in some
    <3>1. Among(s \o Append(t, x), some) = Append(Among(u, some), x)
      <4>1. Among(Append(u, x), some) = Append(Among(u, some), x)
        BY <2>2, <2>5, AmongAppend
      <4> QED  BY <2>2, <4>1, Zenon
    <3>2. Among(Append(t, x), some) = Append(Among(t, some), x)
      BY <2>5, AmongAppend
    <3>3. Append(Among(s, some) \o Among(t, some), x) = Among(s, some) \o Append(Among(t, some), x)
      <4>1. \A v, w \in Seq(X) : v \o Append(w, x) = Append(v \o w, x)
        OBVIOUS
      <4> QED  BY <1>1, <2>4, <4>1, Zenon
    <3> QED  BY <2>1, <2>3, <3>1, <3>2, <3>3
  <2>6. CASE x \notin some
    <3>1. Among(s \o Append(t, x), some) = Among(u, some)
      <4>1. Among(Append(u, x), some) = Among(u, some)
        BY <2>2, <2>6, AmongAppend
      <4> QED  BY <2>2, <4>1, Zenon
    <3>2. Among(Append(t, x), some) = Among(t, some)
      BY <2>6, AmongAppend
    <3> QED  BY <2>1, <2>3, <3>1, <3>2
  <2> QED  BY <2>5, <2>6
<1>4. Seq(X) \subseteq S
  <2> HIDE DEF S
  <2> QED  BY <1>2, <1>3, SeqInduction
<1> QED  BY <1>4

\* The least of a set of natural numbers, the greatest of a bounded set.
LEMMA MinIsLeast ==
  ASSUME NEW S \in SUBSET Nat, S # {}
  PROVE  Min(S) \in S /\ \A x \in S : Min(S) <= x
<1>1. \E x \in S : \A y \in S : x <= y
  BY LeastNat
<1> QED  BY <1>1 DEF Min

\* A greatest element is the maximum.
LEMMA MaxIs ==
  ASSUME NEW S, \A x \in S : x \in Int, NEW m \in S, \A x \in S : x <= m
  PROVE  Max(S) = m
<1>1. \A x \in S : m >= x
  OBVIOUS
<1>2. Max(S) \in S /\ \A x \in S : Max(S) >= x
  BY <1>1, Zenon DEF Max
<1> QED  BY <1>2

\* A bounded set of numbers has its maximum.
LEMMA MaxIsGreatest ==
  ASSUME NEW low \in Int, NEW high \in Int, NEW S \in SUBSET (low .. high), S # {}
  PROVE  Max(S) \in S /\ \A x \in S : x <= Max(S)
<1> DEFINE T == {high - x : x \in S}
<1>1. T \in SUBSET Nat /\ T # {}
  <2>1. \A x \in S : high - x \in Nat
    OBVIOUS
  <2>2. T # {}
    BY Zenon
  <2> QED  BY <2>1, <2>2, Zenon
<1>2. PICK m \in T : \A n \in T : m <= n
  BY <1>1, LeastNat
<1>3. PICK x \in S : m = high - x
  BY <1>2
<1>4. ASSUME NEW y \in S
      PROVE  y <= x
  <2>1. high - y \in T /\ x \in Int /\ y \in Int
    OBVIOUS
  <2>2. high - x <= high - y
    BY <1>2, <1>3, <2>1
  <2> QED  BY <2>1, <2>2
<1>5. \A y \in S : y \in Int
  OBVIOUS
<1> QED  BY <1>4, <1>5, MaxIs

\* A function on the sets of positions that folds, from the left, what step says
\* of each position.
FoldsTo(f, base, step, n) ==
  \A s \in SUBSET (1 .. n) :
    f[s] = IF s = {} THEN base ELSE step[<<f[s \ {Max(s)}], Max(s)>>]

\* From the first m positions to the next.
LEMMA FoldOneMore ==
  ASSUME NEW A, NEW base \in A, NEW m \in Nat, NEW n \in Nat, m + 1 <= n,
         NEW step \in [A \X (1 .. n) -> A],
         NEW f \in [SUBSET (1 .. m) -> A], FoldsTo(f, base, step, m)
  PROVE  \E g \in [SUBSET (1 .. m + 1) -> A] : FoldsTo(g, base, step, m + 1)
<1> DEFINE g == [s \in SUBSET (1 .. m + 1) |->
                   IF m + 1 \in s THEN step[<<f[s \ {m + 1}], m + 1>>] ELSE f[s]]
<1>1. \A x \in 1 .. m + 1 : x \in Int /\ x <= m + 1 /\ (x # m + 1 => x \in 1 .. m)
  OBVIOUS
<1>2. \A s \in SUBSET (1 .. m + 1) :
        /\ s \ {m + 1} \in SUBSET (1 .. m)
        /\ m + 1 \notin s => s \in SUBSET (1 .. m)
  BY <1>1
<1>3. ASSUME NEW s \in SUBSET (1 .. m + 1), m + 1 \in s
      PROVE  Max(s) = m + 1
  <2>1. \A x \in s : x \in Int /\ x <= m + 1
    BY <1>1
  <2> QED  BY <1>3, <2>1, MaxIs
<1>4. g \in [SUBSET (1 .. m + 1) -> A]
  <2>1. m + 1 \in 1 .. n
    OBVIOUS
  <2>2. \A s \in SUBSET (1 .. m + 1) :
          /\ m + 1 \in s => step[<<f[s \ {m + 1}], m + 1>>] \in A
          /\ m + 1 \notin s => f[s] \in A
    BY <1>2, <2>1
  <2> QED  BY <2>2
<1>5. \A s \in SUBSET (1 .. m + 1) :
        g[s] = IF m + 1 \in s THEN step[<<f[s \ {m + 1}], m + 1>>] ELSE f[s]
  OBVIOUS
<1> HIDE DEF g
<1>6. ASSUME NEW s \in SUBSET (1 .. m + 1)
      PROVE  g[s] = IF s = {} THEN base ELSE step[<<g[s \ {Max(s)}], Max(s)>>]
  <2>1. CASE m + 1 \in s
    <3>1. s \ {m + 1} \in SUBSET (1 .. m + 1) /\ m + 1 \notin s \ {m + 1} /\ s # {}
      BY <2>1
    <3>2. g[s \ {m + 1}] = f[s \ {m + 1}]
      BY <1>5, <3>1
    <3>3. g[s] = step[<<f[s \ {m + 1}], m + 1>>]
      BY <1>5, <2>1
    <3>4. Max(s) = m + 1
      BY <1>3, <2>1
    <3> QED  BY <3>1, <3>2, <3>3, <3>4, Zenon
  <2>2. CASE m + 1 \notin s
    <3>1. s \in SUBSET (1 .. m)
      BY <1>2, <2>2
    <3>2. s \ {Max(s)} \in SUBSET (1 .. m + 1) /\ m + 1 \notin s \ {Max(s)}
      BY <2>2
    <3>3. g[s] = f[s] /\ g[s \ {Max(s)}] = f[s \ {Max(s)}]
      BY <1>5, <2>2, <3>2
    <3>4. f[s] = IF s = {} THEN base ELSE step[<<f[s \ {Max(s)}], Max(s)>>]
      BY <3>1 DEF FoldsTo
    <3> QED  BY <3>3, <3>4, Zenon
  <2> QED  BY <2>1, <2>2
<1> QED  BY <1>4, <1>6 DEF FoldsTo

CanFold(A, base, step, n) == \E f \in [SUBSET (1 .. n) -> A] : FoldsTo(f, base, step, n)

\* Whatever a step makes of each position, there is a function that folds it.
LEMMA FoldExists ==
  ASSUME NEW A, NEW base \in A, NEW n \in Nat, NEW step \in [A \X (1 .. n) -> A]
  PROVE  CanFold(A, base, step, n)
<1> DEFINE M == {m \in Nat : m <= n => CanFold(A, base, step, m)}
<1>1. 0 \in M
  <2> DEFINE f == [s \in SUBSET (1 .. 0) |-> base]
  <2>1. f \in [SUBSET (1 .. 0) -> A]
    OBVIOUS
  <2>2. \A s \in SUBSET (1 .. 0) : s = {} /\ f[s] = base
    <3>1. 1 .. 0 = {}
      OBVIOUS
    <3> QED  BY <3>1
  <2> HIDE DEF f
  <2>3. FoldsTo(f, base, step, 0)
    BY <2>2 DEF FoldsTo
  <2>4. CanFold(A, base, step, 0)
    BY <2>1, <2>3 DEF CanFold
  <2> QED  BY <2>4
<1>2. ASSUME NEW m \in Nat, m \in M
      PROVE  m + 1 \in M
  <2> SUFFICES ASSUME m + 1 <= n
               PROVE  CanFold(A, base, step, m + 1)
    OBVIOUS
  <2>1. PICK f \in [SUBSET (1 .. m) -> A] : FoldsTo(f, base, step, m)
    <3>1. CanFold(A, base, step, m)
      BY <1>2
    <3> QED  BY <3>1 DEF CanFold
  <2> QED  BY <2>1, FoldOneMore DEF CanFold
<1>3. Nat \subseteq M
  <2> HIDE DEF M
  <2> QED  BY <1>1, <1>2, SetInduction
<1>4. n \in M
  <2> HIDE DEF M
  <2> QED  BY <1>3
<1> QED  BY <1>4

\* The last of the first n positions.
LEMMA LastPosition ==
  ASSUME NEW n \in Nat \ {0}
  PROVE  Max(1 .. n) = n /\ (1 .. n) \ {n} = 1 .. n - 1 /\ 1 .. n # {}
<1>1. n \in 1 .. n /\ \A x \in 1 .. n : x <= n /\ x \in Nat
  OBVIOUS
<1>2. Max(1 .. n) = n
  BY <1>1 DEF Max
<1> QED  BY <1>1, <1>2

SumsTo(f, s) == f[0] = 0 /\ \A n \in 1 .. Len(s) : f[n] = f[n - 1] + s[n]

\* SumOf adds the numbers up, one after the other.
LEMMA SumOfIs ==
  ASSUME NEW s \in Seq(Int)
  PROVE  \E f \in [0 .. Len(s) -> Int] : SumsTo(f, s) /\ SumOf(s) = f[Len(s)]
<1> DEFINE L == Len(s)
           IsSum(f) == f = [S \in SUBSET DOMAIN s |->
                              IF S = {} THEN 0 ELSE f[S \ {Max(S)}] + s[Max(S)]]
           F == CHOOSE f : IsSum(f)
           step == [p \in Int \X (1 .. L) |-> p[1] + s[p[2]]]
<1>1. L \in Nat /\ DOMAIN s = 1 .. L /\ \A n \in 1 .. L : s[n] \in Int
  OBVIOUS
<1>2. SumOf(s) = F[DOMAIN s]
  BY Zenon DEF SumOf, FoldLeft, MapThenFoldSet
<1>3. step \in [Int \X (1 .. L) -> Int]
  BY <1>1
<1>4. PICK f \in [SUBSET (1 .. L) -> Int] : FoldsTo(f, 0, step, L)
  <2> HIDE DEF step, L
  <2>1. 0 \in Int
    OBVIOUS
  <2>2. CanFold(Int, 0, step, L)
    BY <1>1, <1>3, <2>1, FoldExists
  <2> QED  BY <2>2 DEF CanFold
<1>5. ASSUME NEW S \in SUBSET (1 .. L)
      PROVE  f[S] = IF S = {} THEN 0 ELSE f[S \ {Max(S)}] + s[Max(S)]
  <2>1. f[S] = IF S = {} THEN 0 ELSE step[<<f[S \ {Max(S)}], Max(S)>>]
    BY <1>4 DEF FoldsTo
  <2>2. CASE S # {}
    <3>1. Max(S) \in 1 .. L
      <4>1. 1 \in Int /\ L \in Int
        BY <1>1
      <4>2. Max(S) \in S
        BY <2>2, <4>1, MaxIsGreatest
      <4> QED  BY <4>2
    <3>2. S \ {Max(S)} \in SUBSET (1 .. L)
      OBVIOUS
    <3>3. f[S \ {Max(S)}] \in Int
      BY <3>2
    <3> DEFINE x == f[S \ {Max(S)}]
    <3> HIDE DEF x
    <3>4. step[<<x, Max(S)>>] = x + s[Max(S)]
      BY <3>1, <3>3 DEF x
    <3> QED  BY <2>1, <2>2, <3>4 DEF x
  <2> QED  BY <2>1, <2>2
<1>6. IsSum(f)
  BY <1>1, <1>5
<1>7. IsSum(F)
  BY <1>6, Zenon
<1>8. \A S \in SUBSET (1 .. L) : F[S] = IF S = {} THEN 0 ELSE F[S \ {Max(S)}] + s[Max(S)]
  BY <1>1, <1>7
<1> HIDE DEF F, step
<1> DEFINE g == [n \in 0 .. L |-> F[1 .. n]]
<1>9. F[1 .. 0] = 0
  <2>1. 1 .. 0 = {}
    OBVIOUS
  <2> QED  BY <1>8, <2>1
<1>10. \A n \in 1 .. L : F[1 .. n] = F[1 .. n - 1] + s[n]
  <2> SUFFICES ASSUME NEW n \in 1 .. L
               PROVE  F[1 .. n] = F[1 .. n - 1] + s[n]
    OBVIOUS
  <2>1. n \in Nat \ {0} /\ 1 .. n \in SUBSET (1 .. L)
    BY <1>1
  <2>2. Max(1 .. n) = n /\ (1 .. n) \ {n} = 1 .. n - 1 /\ 1 .. n # {}
    BY <2>1, LastPosition
  <2> QED  BY <1>8, <2>1, <2>2, Zenon
<1>11. \A n \in 0 .. L : F[1 .. n] \in Int
  <2> DEFINE N == {n \in Nat : n <= L => F[1 .. n] \in Int}
  <2>1. 0 \in N
    BY <1>9
  <2>2. ASSUME NEW n \in Nat, n \in N
        PROVE  n + 1 \in N
    <3> SUFFICES ASSUME n + 1 <= L
                 PROVE  F[1 .. n + 1] \in Int
      OBVIOUS
    <3>1. n + 1 \in 1 .. L /\ (n + 1) - 1 = n /\ F[1 .. n] \in Int
      BY <1>1, <2>2
    <3>2. F[1 .. n + 1] = F[1 .. n] + s[n + 1]
      BY <1>10, <3>1
    <3> QED  BY <1>1, <3>1, <3>2
  <2>3. Nat \subseteq N
    <3> HIDE DEF N
    <3> QED  BY <2>1, <2>2, SetInduction
  <2>4. \A n \in 0 .. L : n \in N
    <3> HIDE DEF N
    <3> QED  BY <2>3
  <2> QED  BY <1>1, <2>4
<1>12. g \in [0 .. L -> Int] /\ g[0] = 0 /\ g[L] = F[1 .. L]
  BY <1>1, <1>9, <1>11
<1>13. \A n \in 1 .. L : g[n] = g[n - 1] + s[n]
  <2>1. \A n \in 1 .. L : n \in 0 .. L /\ n - 1 \in 0 .. L
    BY <1>1
  <2> QED  BY <1>10, <2>1
<1>14. SumOf(s) = g[L]
  BY <1>1, <1>2, <1>12
<1> HIDE DEF g
<1> QED  BY <1>12, <1>13, <1>14 DEF SumsTo

\* Sums that run over the same numbers are the same.
LEMMA SumsAlike ==
  ASSUME NEW s, NEW t, NEW n \in Nat, \A i \in 1 .. n : s[i] = t[i], n <= Len(s), n <= Len(t),
         Len(s) \in Nat, Len(t) \in Nat, NEW f, NEW g, SumsTo(f, s), SumsTo(g, t)
  PROVE  f[n] = g[n]
<1> DEFINE N == {m \in Nat : m <= n => f[m] = g[m]}
<1>1. 0 \in N
  BY DEF SumsTo
<1>2. ASSUME NEW m \in Nat, m \in N
      PROVE  m + 1 \in N
  <2> SUFFICES ASSUME m + 1 <= n
               PROVE  f[m + 1] = g[m + 1]
    OBVIOUS
  <2>1. /\ m + 1 \in 1 .. n /\ m + 1 \in 1 .. Len(s) /\ m + 1 \in 1 .. Len(t)
        /\ (m + 1) - 1 = m /\ f[m] = g[m]
    BY <1>2
  <2>2. f[m + 1] = f[m] + s[m + 1] /\ g[m + 1] = g[m] + t[m + 1]
    BY <2>1 DEF SumsTo
  <2> QED  BY <2>1, <2>2
<1>3. Nat \subseteq N
  <2> HIDE DEF N
  <2> QED  BY <1>1, <1>2, SetInduction
<1>4. n \in N
  <2> HIDE DEF N
  <2> QED  BY <1>3
<1> QED  BY <1>4

\* One number more.
LEMMA SumOfAppend ==
  ASSUME NEW s \in Seq(Int), NEW x \in Int
  PROVE  SumOf(s) \in Int /\ SumOf(Append(s, x)) = SumOf(s) + x
<1> DEFINE t == Append(s, x)
<1>1. /\ t \in Seq(Int) /\ Len(s) \in Nat /\ Len(t) = Len(s) + 1 /\ t[Len(s) + 1] = x
      /\ \A i \in 1 .. Len(s) : s[i] = t[i]
  BY AppendElements
<1> HIDE DEF t
<1>2. PICK f \in [0 .. Len(s) -> Int] : SumsTo(f, s) /\ SumOf(s) = f[Len(s)]
  BY SumOfIs
<1>3. PICK g \in [0 .. Len(t) -> Int] : SumsTo(g, t) /\ SumOf(t) = g[Len(t)]
  BY <1>1, SumOfIs
<1>4. g[Len(s) + 1] = g[Len(s)] + x
  <2>1. Len(s) + 1 \in 1 .. Len(t) /\ (Len(s) + 1) - 1 = Len(s)
    BY <1>1
  <2> QED  BY <1>1, <1>3, <2>1 DEF SumsTo
<1>5. g[Len(s)] = f[Len(s)]
  <2> DEFINE n == Len(s)
  <2>1. /\ n \in Nat /\ n <= Len(s) /\ n <= Len(t) /\ Len(s) \in Nat /\ Len(t) \in Nat
        /\ \A i \in 1 .. n : s[i] = t[i]
    BY <1>1
  <2>2. SumsTo(f, s) /\ SumsTo(g, t)
    BY <1>2, <1>3
  <2> HIDE DEF n
  <2>3. f[n] = g[n]
    BY <2>1, <2>2, SumsAlike
  <2> QED  BY <2>3 DEF n
<1>6. SumOf(s) \in Int
  <2>1. Len(s) \in 0 .. Len(s)
    BY <1>1
  <2> QED  BY <1>2, <2>1, Zenon
<1> QED  BY <1>1, <1>2, <1>3, <1>4, <1>5, <1>6 DEF t

\* No numbers add up to zero.
LEMMA SumOfEmpty == SumOf(<<>>) = 0
<1>1. PICK f : SumsTo(f, <<>>) /\ SumOf(<<>>) = f[Len(<<>>)]
  <2>1. <<>> \in Seq(Int)
    OBVIOUS
  <2> QED  BY <2>1, SumOfIs
<1> QED  BY <1>1 DEF SumsTo

\* Whole numbers add up to one.
LEMMA SumOfInt ==
  ASSUME NEW L \in Nat, NEW f, \A n \in 1 .. L : f[n] \in Int
  PROVE  SumOf([n \in 1 .. L |-> f[n]]) \in Int
<1> DEFINE s == [n \in 1 .. L |-> f[n]]
<1>1. s \in Seq(Int)
  OBVIOUS
<1> HIDE DEF s
<1>2. PICK g \in [0 .. Len(s) -> Int] : SumsTo(g, s) /\ SumOf(s) = g[Len(s)]
  BY <1>1, SumOfIs
<1>3. Len(s) \in 0 .. Len(s)
  BY <1>1
<1> QED  BY <1>2, <1>3 DEF s

\* Two sequences in one.
LEMMA FlattenPair ==
  ASSUME NEW X, NEW s \in Seq(X), NEW t \in Seq(X)
  PROVE  FlattenSeq(<<s, t>>) = s \o t
<1>1. <<>> \in Seq(Seq(X)) /\ Append(<<>>, s) \in Seq(Seq(X))
  OBVIOUS
<1>2. FlattenSeq(<<>>) = <<>>
  BY DEF FlattenSeq
<1>3. FlattenSeq(Append(<<>>, s)) = <<>> \o s
  BY <1>1, <1>2, FlattenSeqAppend, Zenon
<1>4. FlattenSeq(Append(Append(<<>>, s), t)) = FlattenSeq(Append(<<>>, s)) \o t
  BY <1>1, FlattenSeqAppend, Zenon
<1>5. <<>> \o s = s
  BY ConcatEmptySeq
<1>6. Append(Append(<<>>, s), t) = <<s, t>>
  <2> DEFINE l == Append(Append(<<>>, s), t)
             r == <<s, t>>
  <2>1. l \in Seq(Seq(X)) /\ Len(l) = 2 /\ l[1] = s /\ l[2] = t
    OBVIOUS
  <2>2. r \in Seq(Seq(X)) /\ Len(r) = 2 /\ r[1] = s /\ r[2] = t
    OBVIOUS
  <2> HIDE DEF l, r
  <2>3. \A i \in 1 .. Len(l) : l[i] = r[i]
    BY <2>1, <2>2
  <2>4. l \in Seq(Seq(X)) /\ r \in Seq(Seq(X)) /\ Len(l) = Len(r)
    BY <2>1, <2>2
  <2>5. l = r
    BY <2>3, <2>4, SeqEqual, Zenon
  <2> QED  BY <2>5 DEF l, r
<1> QED  BY <1>3, <1>4, <1>5, <1>6, Zenon

-----------------------------------------------------------------------------
(* Schemas and the values they accept.                                     *)

\* The schema of each annotation.
LEMMA JsonTypes ==
  /\ JsonType("str") = "string" /\ JsonType("none") = "string" /\ JsonType("Literal") = "string"
  /\ JsonType("int") = "integer" /\ JsonType("Optional") = "integer"
  /\ JsonType("float") = "number" /\ JsonType("bool") = "boolean"
  /\ JsonType("list") = "array" /\ JsonType("dict") = "object"
  BY DEF JsonType

\* What a schema's type accepts.
LEMMA AcceptedValues ==
  /\ Accepts("string") = {"str", "option"}
  /\ Accepts("integer") = {"int", "bool"}
  /\ Accepts("number") = {"int", "float", "bool"}
  /\ Accepts("boolean") = {"bool"}
  /\ Accepts("array") = {"list"}
  /\ Accepts("object") = Values
  BY DEF Accepts

\* What an annotation admits.
LEMMA AdmittedValues ==
  ASSUME NEW p
  PROVE  LET annotation == signature[p].annotation
         IN  /\ annotation = "Optional" => Admitted(p) = {"int", "null"}
             /\ annotation = "float" => Admitted(p) = {"float", "int"}
             /\ annotation = "Literal" => Admitted(p) = {"option"}
             /\ annotation \in {"str", "none"} => Admitted(p) = {"str", "option"}
             /\ annotation \in {"int", "bool", "list", "dict"} => Admitted(p) = {annotation}
  BY DEF Admitted

\* The schema of a parameter accepts the values its annotation admits except a
\* null, and besides them a bool for a number and anything for a dict.
LEMMA SchemaAgrees ==
  ASSUME signature \in Signatures, NEW p \in Parameters, NEW value \in Values
  PROVE  /\ Fits(p, value) =>
              \/ value \in Admitted(p) \ {"null"}
              \/ value = "bool" /\ signature[p].annotation \in {"int", "float", "Optional"}
              \/ signature[p].annotation = "dict"
         /\ ~Fits(p, value) => value \notin Admitted(p) \ {"null"}
<1> DEFINE annotation == signature[p].annotation
<1>1. annotation \in {"str", "int", "float", "bool", "list", "dict", "Literal", "Optional", "none"}
  BY ToolsAssumption DEF Signatures
<1>2. /\ annotation = "Optional" => Admitted(p) = {"int", "null"}
      /\ annotation = "float" => Admitted(p) = {"float", "int"}
      /\ annotation = "Literal" => Admitted(p) = {"option"}
      /\ annotation \in {"str", "none"} => Admitted(p) = {"str", "option"}
      /\ annotation \in {"int", "bool", "list", "dict"} => Admitted(p) = {annotation}
  BY AdmittedValues
<1>3. Fits(p, value) <=> value \in Accepts(JsonType(annotation)) /\ (annotation = "Literal" => value = "option")
  BY DEF Fits
<1> HIDE DEF annotation
<1>4. CASE annotation \in {"str", "none", "Literal"}
  BY <1>2, <1>3, <1>4, JsonTypes, AcceptedValues DEF annotation
<1>5. CASE annotation \in {"int", "Optional", "float"}
  BY <1>2, <1>3, <1>5, JsonTypes, AcceptedValues DEF annotation
<1>6. CASE annotation \in {"bool", "list", "dict"}
  BY <1>2, <1>3, <1>6, JsonTypes, AcceptedValues DEF annotation, Values
<1> QED  BY <1>1, <1>4, <1>5, <1>6

\* Every reachable call has a signature of the declared annotations, and is
\* judged as its property says.
ToolsInv == signature \in Signatures /\ ValidCallsBind

\* What validate answers, by what it finds wrong first.
LEMMA Verdicts ==
  ASSUME NEW args
  PROVE  /\ Missing(args) => Validate(args) = "missing"
         /\ ~Missing(args) /\ Unknown(args) => Validate(args) = "unknown"
         /\ ~Missing(args) /\ ~Unknown(args) /\ Misfit(args) => Validate(args) = "invalid"
         /\ ~Missing(args) /\ ~Unknown(args) /\ ~Misfit(args) => Validate(args) = "valid"
  BY DEF Validate

\* What a call may come to, by that answer.
LEMMA OutcomesOf ==
  ASSUME NEW args
  PROVE  /\ Validate(args) # "valid" => Outcomes_(args) = {Validate(args)}
         /\ Validate(args) = "valid" /\ ~Binds(args) => Outcomes_(args) = {"raised"}
         /\ Validate(args) = "valid" /\ Binds(args) => Outcomes_(args) = {"ok", "raised", "slow"}
  BY DEF Outcomes_

\* Every step of the tools keeps their invariant.
LEMMA ToolsInductive == ToolsInv /\ [ToolsNext]_toolvars => ToolsInv'
<1> SUFFICES ASSUME ToolsInv, [ToolsNext]_toolvars
             PROVE  ToolsInv'
  OBVIOUS
<1>1. CASE UNCHANGED toolvars
  BY <1>1 DEF toolvars, ToolsInv, ValidCallsBind, Binds, Admitted
<1>2. ASSUME NEW args \in ArgumentSets, Call(args)
      PROVE  ToolsInv'
  <2>1. /\ signature' = signature /\ signature \in Signatures
        /\ arguments' = args /\ outcome' \in Outcomes_(args)
    BY <1>2 DEF Call, ToolsInv
  <2>2. \A p \in DOMAIN args : args[p] \in Values
    BY DEF ArgumentSets
  <2>3. \A p \in Parameters : Admitted(p)' = Admitted(p)
    BY <2>1 DEF Admitted
  <2>4. Binds(arguments)' <=> Binds(args)
    BY <2>1 DEF Binds
  <2>5. CASE Missing(args)
    <3>1. outcome' = "missing"
      BY <2>1, <2>5, Verdicts, OutcomesOf
    <3>2. ~Binds(args)
      BY <2>5 DEF Missing, Required, Binds
    <3> QED  BY <2>1, <2>4, <3>1, <3>2 DEF ToolsInv, ValidCallsBind
  <2>6. CASE ~Missing(args) /\ Unknown(args)
    <3>1. outcome' = "unknown"
      BY <2>1, <2>6, Verdicts, OutcomesOf
    <3>2. ~(DOMAIN args \subseteq Parameters)
      BY <2>6 DEF Unknown
    <3> QED  BY <2>1, <3>1, <3>2 DEF ToolsInv, ValidCallsBind
  <2>7. CASE ~Missing(args) /\ ~Unknown(args) /\ Misfit(args)
    <3>1. outcome' = "invalid"
      BY <2>1, <2>7, Verdicts, OutcomesOf
    <3>2. PICK p \in DOMAIN args : ~Fits(p, args[p])
      BY <2>7 DEF Misfit
    <3>3. p \in Parameters
      BY <2>7 DEF Unknown
    <3>4. args[p] \notin Admitted(p) \ {"null"}
      BY <2>1, <2>2, <3>2, <3>3, SchemaAgrees
    <3> QED  BY <2>1, <2>3, <3>1, <3>3, <3>4 DEF ToolsInv, ValidCallsBind
  <2>8. CASE ~Missing(args) /\ ~Unknown(args) /\ ~Misfit(args)
    <3>1. /\ outcome' \in {"ok", "raised", "slow"}
          /\ outcome' # "raised" => Binds(args)
      BY <2>1, <2>8, Verdicts, OutcomesOf
    <3>2. DOMAIN args \subseteq Parameters
      BY <2>8 DEF Unknown
    <3>3. \A p \in Parameters \ DOMAIN args :
            signature[p].default \/ signature[p].annotation = "Optional"
      BY <2>8 DEF Missing, Required
    <3>4. \A p \in DOMAIN args :
            \/ args[p] \in Admitted(p) \ {"null"}
            \/ args[p] = "bool" /\ signature[p].annotation \in {"int", "float", "Optional"}
            \/ signature[p].annotation = "dict"
      BY <2>1, <2>2, <2>8, <3>2, SchemaAgrees DEF Misfit
    <3> QED  BY <2>1, <2>3, <2>4, <3>1, <3>2, <3>3, <3>4 DEF ToolsInv, ValidCallsBind
  <2> QED  BY <2>5, <2>6, <2>7, <2>8
<1> QED  BY <1>1, <1>2 DEF ToolsNext

\* The schema made from a function's signature agrees with the function
\* (tools.py:158): what Tool.validate lets through binds, but for an Optional
\* parameter left out, and what it refuses would not bind or is not of the
\* annotated type.
THEOREM ValidationAgreesWithBinding == ToolsSpec => []ValidCallsBind
<1>1. ToolsInit => ToolsInv
  BY DEF ToolsInit, ToolsInv, ValidCallsBind
<1>2. ToolsInv => ValidCallsBind
  BY DEF ToolsInv
<1> QED  BY <1>1, <1>2, ToolsInductive, PTL DEF ToolsSpec

-----------------------------------------------------------------------------
(* The audit trail.                                                        *)

Entries == [tool : ToolNames, decision : {"allowed", "approved", "blocked", "denied"}]
\* Two numbers, like Spent and Len(audit), for the proofs to speak of any trail.
GrantsOf(trail, n) == Cardinality({i \in 1 .. n : Granted(trail[i])})

GuardTyped ==
  /\ policy \in Policies
  /\ audit \in Seq(Entries) /\ executed \in Seq(ToolNames)
  /\ blocked \in Nat
  /\ current \in ToolNames \union {"none"}
  /\ delivered \in {"clean", "wrapped"}

\* Inductive as it stands: the types, and the property, which counts the grants
\* up to each entry.
GuardInv == GuardTyped /\ AuditAccountsForCalls

\* The grants among the first n entries are at most n, and an entry that grants
\* is one of those counted up to it and up to any later one.
LEMMA GrantsBounded ==
  ASSUME NEW trail, NEW n \in Nat, NEW m \in 0 .. n
  PROVE  /\ GrantsOf(trail, n) \in Nat
         /\ GrantsOf(trail, m) <= GrantsOf(trail, n)
         /\ m > 0 /\ Granted(trail[m]) => GrantsOf(trail, m) >= 1
<1> DEFINE G(k) == {i \in 1 .. k : Granted(trail[i])}
<1>1. IsFiniteSet(1 .. n)
  BY FS_Interval
<1>2. G(n) \subseteq 1 .. n /\ G(m) \subseteq G(n)
  OBVIOUS
<1>3. IsFiniteSet(G(n)) /\ IsFiniteSet(G(m))
  BY <1>1, <1>2, FS_Subset
<1>4. /\ Cardinality(G(n)) \in Nat /\ Cardinality(G(m)) \in Nat
      /\ Cardinality(G(m)) <= Cardinality(G(n))
  BY <1>2, <1>3, FS_Subset, FS_CardinalityType
<1>5. m > 0 /\ Granted(trail[m]) => Cardinality(G(m)) >= 1
  <2> SUFFICES ASSUME m > 0, Granted(trail[m])
               PROVE  Cardinality(G(m)) >= 1
    OBVIOUS
  <2>1. m \in G(m)
    OBVIOUS
  <2>2. Cardinality(G(m)) # 0
    BY <1>3, <2>1, FS_EmptySet
  <2> QED  BY <1>4, <2>2
<1> QED  BY <1>4, <1>5 DEF GrantsOf

\* An entry more leaves the counts of the earlier ones, and counts when it grants.
LEMMA GrantsOfAppend ==
  ASSUME NEW trail \in Seq(Entries), NEW entry \in Entries
  PROVE  LET longer == Append(trail, entry)
         IN  /\ \A n \in 0 .. Len(trail) : GrantsOf(longer, n) = GrantsOf(trail, n)
             /\ GrantsOf(longer, Len(longer)) =
                  GrantsOf(trail, Len(trail)) + (IF Granted(entry) THEN 1 ELSE 0)
<1> DEFINE longer == Append(trail, entry)
           size == Len(trail)
           G == {i \in 1 .. size : Granted(trail[i])}
           H == {i \in 1 .. size + 1 : Granted(longer[i])}
<1>1. /\ size \in Nat /\ Len(longer) = size + 1
      /\ \A i \in 1 .. size : longer[i] = trail[i]
      /\ longer[size + 1] = entry
  OBVIOUS
<1> HIDE DEF longer, size
<1>2. \A n \in 0 .. size : GrantsOf(longer, n) = GrantsOf(trail, n)
  <2> SUFFICES ASSUME NEW n \in 0 .. size
               PROVE  GrantsOf(longer, n) = GrantsOf(trail, n)
    OBVIOUS
  <2>1. {i \in 1 .. n : Granted(longer[i])} = {i \in 1 .. n : Granted(trail[i])}
    BY <1>1
  <2> QED  BY <2>1 DEF GrantsOf
<1>3. IsFiniteSet(G) /\ Cardinality(G) \in Nat /\ size + 1 \notin G
  <2>1. IsFiniteSet(1 .. size) /\ G \subseteq 1 .. size /\ size + 1 \notin 1 .. size
    BY <1>1, FS_Interval
  <2> QED  BY <2>1, FS_Subset, FS_CardinalityType
<1>4. CASE Granted(entry)
  <2>1. H = G \union {size + 1}
    BY <1>1, <1>4
  <2>2. Cardinality(H) = Cardinality(G) + 1
    BY <1>3, <2>1, FS_AddElement
  <2> QED  BY <1>1, <1>2, <1>4, <2>2 DEF GrantsOf, longer, size
<1>5. CASE ~Granted(entry)
  <2>1. H = G
    BY <1>1, <1>5
  <2>2. GrantsOf(longer, Len(longer)) = GrantsOf(trail, Len(trail))
    BY <1>1, <2>1 DEF GrantsOf, size
  <2> QED  BY <1>2, <1>3, <1>5, <2>2 DEF GrantsOf, longer, size
<1> QED  BY <1>4, <1>5

\* The counts the module speaks of are counts of the audit trail.
LEMMA CountedTrail ==
  ASSUME NEW trail \in Seq(Entries)
  PROVE  /\ Cardinality({i \in DOMAIN trail : Granted(trail[i])}) = GrantsOf(trail, Len(trail))
         /\ GrantsOf(trail, Len(trail)) \in Nat
<1>1. DOMAIN trail = 1 .. Len(trail) /\ Len(trail) \in Nat /\ 0 \in 0 .. Len(trail)
  OBVIOUS
<1> QED  BY <1>1, GrantsBounded DEF GrantsOf

\* The calls spent are the grants of the trail.
LEMMA SpentIsCounted ==
  /\ GuardTyped => Spent = GrantsOf(audit, Len(audit)) /\ Spent \in Nat
  /\ GuardTyped' => Spent' = GrantsOf(audit', Len(audit')) /\ Spent' \in Nat
  /\ \A n : GrantedUpTo(n) = GrantsOf(audit, n)
<1>1. \A n : GrantedUpTo(n) = GrantsOf(audit, n)
  BY DEF GrantedUpTo, GrantsOf
<1>2. ASSUME GuardTyped
      PROVE  Spent = GrantsOf(audit, Len(audit)) /\ Spent \in Nat
  BY <1>2, CountedTrail DEF Spent, GuardTyped
<1>3. ASSUME GuardTyped'
      PROVE  Spent' = GrantsOf(audit', Len(audit')) /\ Spent' \in Nat
  BY <1>3, CountedTrail DEF Spent, GuardTyped
<1> QED  BY <1>1, <1>2, <1>3

\* A granted entry is that of a call that ran or is about to.
LEMMA GrantHasCall ==
  ASSUME GuardInv, NEW n \in DOMAIN audit, Granted(audit[n])
  PROVE  GrantsOf(audit, n) \in 1 .. Len(Ran)
<1>1. /\ DOMAIN audit = 1 .. Len(audit) /\ Len(audit) \in Nat
      /\ Spent = GrantsOf(audit, Len(audit)) /\ Spent = Len(Ran)
  BY SpentIsCounted DEF GuardInv, GuardTyped, AuditAccountsForCalls
<1>2. /\ GrantsOf(audit, n) \in Nat /\ GrantsOf(audit, n) >= 1
      /\ GrantsOf(audit, Len(audit)) \in Nat
      /\ GrantsOf(audit, n) <= GrantsOf(audit, Len(audit))
  <2>1. n \in 0 .. Len(audit) /\ n > 0 /\ n \in Nat /\ n \in 0 .. n
    BY <1>1
  <2> QED  BY <1>1, <2>1, GrantsBounded
<1> QED  BY <1>1, <1>2

\* The policy's fields are what the code compares.
LEMMA PolicyTyped ==
  ASSUME policy \in Policies
  PROVE  /\ policy.max_calls \in Nat
         /\ policy.denied \subseteq ToolNames /\ policy.dangerous \subseteq ToolNames
  BY GuardrailsAssumption

\* What record adds to the trail has a record's type.
LEMMA RecordTyped ==
  ASSUME audit \in Seq(Entries), NEW name \in ToolNames,
         NEW decision \in {"allowed", "approved", "blocked", "denied"}, Record_(name, decision)
  PROVE  audit' \in Seq(Entries)
<1>1. [tool |-> name, decision |-> decision] \in Entries
  BY DEF Entries
<1> QED  BY <1>1 DEF Record_

\* Every step of the guardrails keeps their types.
LEMMA GuardTypedStep == GuardTyped /\ [GuardNext]_guardvars => GuardTyped'
<1> SUFFICES ASSUME GuardTyped, [GuardNext]_guardvars
             PROVE  GuardTyped'
  OBVIOUS
<1>1. CASE UNCHANGED guardvars
  BY <1>1 DEF guardvars, GuardTyped
<1>2. ASSUME NEW name \in ToolNames, Check(name)
      PROVE  GuardTyped'
  <2>1. \E decision \in {"allowed", "approved", "blocked", "denied"} : Record_(name, decision)
    BY <1>2 DEF Check, Blocks, Allows, Approves, Denies
  <2>2. audit' \in Seq(Entries)
    BY <2>1, RecordTyped DEF GuardTyped
  <2>3. current' \in {current, name} /\ UNCHANGED <<policy, blocked, executed, delivered>>
    BY <1>2 DEF Check, Blocks, Allows, Approves, Denies, Proceed, Stay
  <2> QED  BY <2>2, <2>3 DEF GuardTyped
<1>3. ASSUME NEW findings \in Findings, Execute(findings)
      PROVE  GuardTyped'
  <2>1. current \in ToolNames /\ executed' = Append(executed, current) /\ current' = "none" /\ policy' = policy
    BY <1>3 DEF Execute, GuardTyped
  <2>2. delivered' \in {"clean", "wrapped"}
    BY <1>3 DEF Execute, Neutralize
  <2>3. blocked' \in Nat /\ audit' \in Seq(Entries)
    BY <1>3, <2>1, RecordTyped DEF Execute, Counted, GuardTyped
  <2> QED  BY <2>1, <2>2, <2>3 DEF GuardTyped
<1> QED  BY <1>1, <1>2, <1>3 DEF GuardNext

\* What the trail says of one granted entry, the n-th of a trail whose calls are
\* listed in calls.
Accounted(trail, calls, n) ==
  LET name == calls[GrantsOf(trail, n)]
  IN  /\ trail[n].tool = name
      /\ name \notin policy.denied
      /\ policy.allowed = NoList \/ name \in policy.allowed
      /\ name \in policy.dangerous <=> trail[n].decision = "approved"

\* The property, with the grants as a count of their own.
LEMMA AuditIsAccounted ==
  AuditAccountsForCalls <=>
    /\ Spent = Len(Ran)
    /\ Spent <= policy.max_calls
    /\ \A n \in DOMAIN audit : Granted(audit[n]) => Accounted(audit, Ran, n)
    /\ blocked <= Len(executed)
    /\ delivered = "wrapped" => blocked > 0 /\ \E i \in DOMAIN audit :
         audit[i] = [tool |-> Last(executed), decision |-> "blocked"]
  BY SpentIsCounted DEF AuditAccountsForCalls, Accounted

\* A trail that grows by an entry still accounts for its earlier grants, when
\* the calls they stand for keep their places.
LEMMA AccountedAppend ==
  ASSUME GuardInv, NEW entry \in Entries, NEW calls,
         \A i \in 1 .. Len(Ran) : calls[i] = Ran[i],
         NEW n \in DOMAIN audit, Granted(audit[n])
  PROVE  Accounted(Append(audit, entry), calls, n)
<1>1. audit \in Seq(Entries) /\ n \in 0 .. Len(audit) /\ n \in 1 .. Len(audit)
  BY DEF GuardInv, GuardTyped
<1>2. GrantsOf(Append(audit, entry), n) = GrantsOf(audit, n)
  BY <1>1, GrantsOfAppend
<1>3. Append(audit, entry)[n] = audit[n]
  BY <1>1
<1>4. calls[GrantsOf(audit, n)] = Ran[GrantsOf(audit, n)]
  BY GrantHasCall
<1>5. Accounted(audit, Ran, n)
  BY AuditIsAccounted DEF GuardInv
<1> QED  BY <1>2, <1>3, <1>4, <1>5 DEF Accounted

\* An entry that grants nothing, while the calls stay: a refusal, a denial, an
\* output blocked.
LEMMA NothingGranted ==
  ASSUME GuardInv, GuardTyped', NEW entry \in Entries, ~Granted(entry),
         audit' = Append(audit, entry), Ran' = Ran, policy' = policy
  PROVE  /\ Spent' = Len(Ran') /\ Spent' <= policy'.max_calls
         /\ \A n \in DOMAIN audit' : Granted(audit'[n]) => Accounted(audit, Ran, n)'
<1>1. audit \in Seq(Entries) /\ Len(audit') = Len(audit) + 1 /\ audit'[Len(audit) + 1] = entry
  BY DEF GuardInv, GuardTyped
<1>2. Spent' = Spent
  <2>1. Spent' = GrantsOf(audit', Len(audit')) /\ Spent = GrantsOf(audit, Len(audit)) /\ Spent \in Nat
    BY SpentIsCounted DEF GuardInv
  <2> QED  BY <1>1, <2>1, GrantsOfAppend
<1>3. ASSUME NEW n \in DOMAIN audit', Granted(audit'[n])
      PROVE  Accounted(audit, Ran, n)'
  <2>1. n \in DOMAIN audit /\ audit'[n] = audit[n]
    BY <1>1, <1>3
  <2>2. Accounted(Append(audit, entry), Ran, n)
    BY <1>3, <2>1, AccountedAppend
  <2> QED  BY <2>2 DEF Accounted
<1> QED  BY <1>2, <1>3 DEF GuardInv, AuditAccountsForCalls

\* An entry that grants the call about to be made: the limit is not reached, and
\* the policy permits the call as the decision says.
LEMMA CallGranted ==
  ASSUME GuardInv, GuardTyped', NEW name \in ToolNames, NEW decision \in {"allowed", "approved"},
         Record_(name, decision), current = "none", current' = name, ~Refused(name),
         name \in policy.dangerous <=> decision = "approved",
         executed' = executed, policy' = policy
  PROVE  /\ Spent' = Len(Ran') /\ Spent' <= policy'.max_calls
         /\ \A n \in DOMAIN audit' : Granted(audit'[n]) => Accounted(audit, Ran, n)'
<1> DEFINE entry == [tool |-> name, decision |-> decision]
<1>1. /\ entry \in Entries /\ Granted(entry) /\ audit' = Append(audit, entry)
      /\ entry.tool = name /\ entry.decision = decision
  BY DEF Entries, Granted, Record_
<1> HIDE DEF entry
<1>2. /\ audit \in Seq(Entries) /\ Len(audit) \in Nat /\ DOMAIN audit = 1 .. Len(audit)
      /\ DOMAIN audit' = 1 .. Len(audit) + 1 /\ Len(audit') = Len(audit) + 1
      /\ audit'[Len(audit) + 1] = entry
      /\ \A n \in 1 .. Len(audit) : audit'[n] = audit[n]
  BY <1>1 DEF GuardInv, GuardTyped
<1>3. /\ name # "none" /\ Ran = executed /\ Ran' = Append(executed, name)
      /\ executed \in Seq(ToolNames)
  BY GuardrailsAssumption DEF Ran, GuardInv, GuardTyped
<1>4. /\ Len(Ran) \in Nat /\ Len(Ran') = Len(Ran) + 1 /\ Ran'[Len(Ran) + 1] = name
      /\ \A i \in 1 .. Len(Ran) : Ran'[i] = Ran[i]
  BY <1>3
<1>5. /\ Spent = Len(Ran) /\ Spent = GrantsOf(audit, Len(audit))
      /\ Spent' = GrantsOf(audit', Len(audit'))
  BY SpentIsCounted DEF GuardInv, AuditAccountsForCalls
<1>6. Spent' = Spent + 1
  BY <1>1, <1>2, <1>5, GrantsOfAppend
<1>7. Spent < policy.max_calls
  BY <1>4, <1>5, PolicyTyped DEF Refused, LimitReached, GuardInv, GuardTyped
<1>8. ASSUME NEW n \in DOMAIN audit', Granted(audit'[n])
      PROVE  Accounted(audit, Ran, n)'
  <2>1. CASE n \in DOMAIN audit
    <3>1. Accounted(Append(audit, entry), Ran', n)
      BY <1>1, <1>2, <1>4, <1>8, <2>1, AccountedAppend
    <3> QED  BY <1>1, <3>1 DEF Accounted
  <2>2. CASE n = Len(audit')
    <3>1. Ran'[GrantsOf(audit', n)] = name /\ audit'[n] = entry
      BY <1>2, <1>4, <1>5, <1>6, <2>2
    <3>2. /\ name \notin policy.denied
          /\ policy.allowed = NoList \/ name \in policy.allowed
      BY DEF Refused
    <3> QED  BY <1>1, <3>1, <3>2 DEF Accounted
  <2> QED  BY <1>2, <2>1, <2>2
<1> QED  BY <1>4, <1>5, <1>6, <1>7, <1>8, PolicyTyped DEF GuardInv, GuardTyped

\* What a call waiting and a wrapped result leave behind, when only the trail
\* grows: the wrapped result's entry is still there.
LEMMA WrappedKept ==
  ASSUME GuardInv, NEW entry \in Entries, audit' = Append(audit, entry),
         UNCHANGED <<blocked, executed, delivered>>
  PROVE  /\ blocked' <= Len(executed')
         /\ delivered' = "wrapped" => blocked' > 0 /\ \E i \in DOMAIN audit' :
              audit'[i] = [tool |-> Last(executed'), decision |-> "blocked"]
<1>1. \A i \in DOMAIN audit : i \in DOMAIN audit' /\ audit'[i] = audit[i]
  BY DEF GuardInv, GuardTyped
<1> QED  BY <1>1 DEF GuardInv, AuditAccountsForCalls

\* A check keeps the account of grants and calls.
LEMMA CheckAccounts ==
  ASSUME GuardInv, GuardTyped', NEW name \in ToolNames, Check(name)
  PROVE  AuditAccountsForCalls'
<1>1. current = "none" /\ UNCHANGED <<policy, blocked, executed, delivered>>
  BY DEF Check
<1>2. /\ Spent' = Len(Ran') /\ Spent' <= policy'.max_calls
      /\ \A n \in DOMAIN audit' : Granted(audit'[n]) => Accounted(audit, Ran, n)'
  <2>1. CASE Blocks(name) \/ Denies(name)
    <3>1. PICK decision \in {"blocked", "denied"} : Record_(name, decision)
      BY <2>1 DEF Blocks, Denies
    <3>2. /\ [tool |-> name, decision |-> decision] \in Entries
          /\ ~Granted([tool |-> name, decision |-> decision])
      BY <3>1 DEF Entries, Granted
    <3>3. Ran' = Ran /\ audit' = Append(audit, [tool |-> name, decision |-> decision])
      BY <1>1, <2>1, <3>1 DEF Blocks, Denies, Stay, Ran, Record_
    <3> QED  BY <1>1, <3>2, <3>3, NothingGranted
  <2>2. CASE Allows(name)
    <3>1. Record_(name, "allowed") /\ current' = name /\ ~Refused(name) /\ name \notin policy.dangerous
      BY <2>2 DEF Allows, Proceed
    <3> QED  BY <1>1, <3>1, CallGranted
  <2>3. CASE Approves(name)
    <3>1. Record_(name, "approved") /\ current' = name /\ ~Refused(name) /\ name \in policy.dangerous
      BY <2>3 DEF Approves, NeedsApproval, Proceed
    <3> QED  BY <1>1, <3>1, CallGranted
  <2> QED  BY <2>1, <2>2, <2>3 DEF Check
<1>3. /\ blocked' <= Len(executed')
      /\ delivered' = "wrapped" => blocked' > 0 /\ \E i \in DOMAIN audit' :
           audit'[i] = [tool |-> Last(executed'), decision |-> "blocked"]
  <2>1. PICK entry \in Entries : audit' = Append(audit, entry)
    <3>1. PICK decision \in {"allowed", "approved", "blocked", "denied"} : Record_(name, decision)
      BY DEF Check, Blocks, Allows, Approves, Denies
    <3>2. [tool |-> name, decision |-> decision] \in Entries
      BY DEF Entries
    <3> QED  BY <3>1, <3>2 DEF Record_
  <2> QED  BY <1>1, <2>1, WrappedKept
<1>4. (AuditIsAccounted)'
  BY AuditIsAccounted, PTL
<1> QED  BY <1>2, <1>3, <1>4

\* A result filtered: the call is among those that ran, as it was before, and
\* an entry for a blocked output grants nothing.
LEMMA ExecuteAccounts ==
  ASSUME GuardInv, GuardTyped', NEW findings \in Findings, Execute(findings)
  PROVE  AuditAccountsForCalls'
<1> DEFINE entry == [tool |-> current, decision |-> "blocked"]
<1>1. /\ current \in ToolNames /\ current # "none" /\ current' = "none"
      /\ executed' = Append(executed, current) /\ policy' = policy
      /\ executed \in Seq(ToolNames) /\ audit \in Seq(Entries)
      /\ Len(executed) \in Nat /\ blocked \in Nat /\ blocked <= Len(executed)
  BY DEF Execute, GuardInv, GuardTyped, AuditAccountsForCalls
<1>2. Ran' = Ran /\ Len(executed') = Len(executed) + 1 /\ Last(executed') = current
  BY <1>1 DEF Ran, Last
<1>3. entry \in Entries /\ ~Granted(entry)
  BY <1>1 DEF Entries, Granted
<1>4. (AuditIsAccounted)'
  BY AuditIsAccounted, PTL
<1> HIDE DEF entry
<1>5. CASE findings = {}
  <2>1. UNCHANGED <<blocked, audit>> /\ delivered' = "clean"
    BY <1>5 DEF Execute, Counted, Neutralize
  <2>2. Spent' = Spent
    BY <2>1 DEF Spent
  <2>3. \A n \in DOMAIN audit' : Granted(audit'[n]) => Accounted(audit, Ran, n)'
    BY <1>1, <1>2, <2>1, AuditIsAccounted DEF GuardInv, Accounted
  <2> QED  BY <1>1, <1>2, <1>4, <2>1, <2>2, <2>3 DEF GuardInv, AuditAccountsForCalls
<1>6. CASE findings # {}
  <2>1. blocked' = blocked + 1 /\ audit' = Append(audit, entry)
    BY <1>6 DEF Execute, Counted, Record_, entry
  <2>2. /\ Spent' = Len(Ran') /\ Spent' <= policy'.max_calls
        /\ \A n \in DOMAIN audit' : Granted(audit'[n]) => Accounted(audit, Ran, n)'
    BY <1>1, <1>2, <1>3, <2>1, NothingGranted
  <2>3. Len(audit) + 1 \in DOMAIN audit' /\ audit'[Len(audit) + 1] = entry
    BY <1>1, <2>1
  <2>4. \E i \in DOMAIN audit' : audit'[i] = [tool |-> Last(executed'), decision |-> "blocked"]
    BY <1>2, <2>3 DEF entry
  <2> QED  BY <1>1, <1>2, <1>4, <2>1, <2>2, <2>4
<1> QED  BY <1>5, <1>6

\* Every step of the guardrails keeps their invariant.
LEMMA GuardInductive == GuardInv /\ [GuardNext]_guardvars => GuardInv'
<1> SUFFICES ASSUME GuardInv, [GuardNext]_guardvars
             PROVE  GuardInv'
  OBVIOUS
<1>1. GuardTyped'
  BY GuardTypedStep DEF GuardInv
<1>2. CASE UNCHANGED guardvars
  BY <1>2 DEF guardvars, GuardInv, GuardTyped, AuditAccountsForCalls, Spent, Ran, GrantedUpTo
<1>3. ASSUME NEW name \in ToolNames, Check(name)
      PROVE  GuardInv'
  BY <1>1, <1>3, CheckAccounts DEF GuardInv
<1>4. ASSUME NEW findings \in Findings, Execute(findings)
      PROVE  GuardInv'
  BY <1>1, <1>4, ExecuteAccounts DEF GuardInv
<1> QED  BY <1>2, <1>3, <1>4 DEF GuardNext

\* The audit trail (guardrails.py) is the truth about the calls that ran, for
\* every policy and however calls, refusals and blocked outputs follow each
\* other: the calls granted are the calls executed, in order and within
\* max_calls, each one the policy permits.
THEOREM AuditIsTrue == GuardSpec => []AuditAccountsForCalls
<1>1. GuardInit => GuardInv
  <2> SUFFICES ASSUME GuardInit
               PROVE  GuardInv
    OBVIOUS
  <2>1. GuardTyped
    BY DEF GuardInit, GuardTyped
  <2>2. DOMAIN audit = {} /\ Ran = <<>> /\ Len(Ran) = 0 /\ blocked = 0 /\ executed = <<>>
    BY DEF GuardInit, Ran
  <2>3. Spent = 0
    BY <2>2, FS_EmptySet DEF Spent
  <2>4. policy.max_calls \in Nat
    BY <2>1, PolicyTyped DEF GuardTyped
  <2>5. delivered # "wrapped"
    BY DEF GuardInit
  <2> QED  BY <2>1, <2>2, <2>3, <2>4, <2>5 DEF GuardInv, AuditAccountsForCalls
<1>2. GuardInv => AuditAccountsForCalls
  BY DEF GuardInv
<1> QED  BY <1>1, <1>2, GuardInductive, PTL DEF GuardSpec

-----------------------------------------------------------------------------
(* What the pipeline has indexed.                                          *)

\* Of a set of positions, the last is one of them.
LEMMA MaxIsMember ==
  ASSUME NEW n \in Nat, NEW S \in SUBSET (1 .. n), S # {}
  PROVE  Max(S) \in S
<1>1. 1 \in Int /\ n \in Int
  OBVIOUS
<1> QED  BY <1>1, MaxIsGreatest

Chunk == [id : Contents \X Nat, source : Sources, text : Texts]

\* Ingesting adds to both indexes at once, so that the two are the same; and a
\* hash that no failed ingest left behind was recorded with its chunks.
RAGInv ==
  /\ docHashes \in [Sources -> Contents \union {NoContent}]
  /\ chunks \in Seq(Chunk)
  /\ bm25 = chunks
  /\ SkippedIsIndexed

\* What is assumed of the retrievers, fact by fact.
LEMMA RetrievalTypes ==
  /\ Cosine \in [Questions -> [Texts -> -100 .. 100]]
  /\ Reciprocal \in Seq(Nat \ {0})
  /\ MaxScore \in Nat
  BY RetrievalAssumption, Zenon

\* What is assumed of the pipeline, fact by fact.
LEMMA RAGTypes ==
  /\ Pieces \in [Contents -> Seq(Texts)]
  /\ Tokens \in [Texts -> Nat \ {0}]
  /\ FetchK <= Len(Reciprocal) /\ TopK <= Len(Gain)
  /\ MinScore \in -100 .. 100
  /\ {TopK, FetchK, MaxContext, MinChunk, MaxBatch, MaxChunks} \subseteq Nat
  BY RAGAssumption, Zenon

\* A batch is a sequence of documents.
LEMMA BatchTyped ==
  ASSUME NEW documents \in Batches
  PROVE  \E size \in Nat : documents \in [1 .. size -> Document]
<1>1. MaxBatch \in Nat
  BY RAGTypes
<1>2. PICK size \in 1 .. MaxBatch : documents \in [1 .. size -> Document]
  BY Zenon DEF Batches
<1>3. size \in Nat
  BY <1>1
<1> QED  BY <1>2, <1>3, Zenon

\* The chunks of a document, and of the new documents of a batch.
LEMMA SplitTyped ==
  ASSUME NEW document \in Document
  PROVE  Split(document) \in Seq(Chunk)
<1>1. document[1] \in Sources /\ document[2] \in Contents
  BY DEF Document
<1>2. Pieces[document[2]] \in Seq(Texts)
  BY <1>1, RAGTypes
<1>3. \A n \in 1 .. Len(Pieces[document[2]]) :
        [id |-> <<document[2], n>>, source |-> document[1], text |-> Pieces[document[2]][n]] \in Chunk
  BY <1>1, <1>2 DEF Chunk
<1> QED  BY <1>2, <1>3 DEF Split

\* The chunks of a batch are those of its new documents.
LEMMA FreshProperties ==
  ASSUME NEW documents \in Batches
  PROVE  /\ Fresh(documents) \in Seq(Chunk)
         /\ \A n \in NewDocs(documents) : ToSet(Split(documents[n])) \subseteq ToSet(Fresh(documents))
<1> DEFINE seqs == [n \in DOMAIN documents |-> IF IsNew(documents[n]) THEN Split(documents[n]) ELSE <<>>]
<1>1. PICK size \in Nat : documents \in [1 .. size -> Document]
  BY BatchTyped
<1>2. seqs \in Seq(Seq(Chunk))
  <2>1. \A n \in 1 .. size : (IF IsNew(documents[n]) THEN Split(documents[n]) ELSE <<>>) \in Seq(Chunk)
    BY <1>1, SplitTyped
  <2> QED  BY <1>1, <2>1
<1>3. /\ FlattenSeq(seqs) \in Seq(Chunk)
      /\ \A n \in DOMAIN seqs : ToSet(seqs[n]) \subseteq ToSet(FlattenSeq(seqs))
  <2> HIDE DEF seqs
  <2> QED  BY <1>2, FlattenSeqProperties
<1>4. \A n \in NewDocs(documents) : n \in DOMAIN seqs /\ seqs[n] = Split(documents[n])
  BY DEF NewDocs
<1> QED  BY <1>3, <1>4 DEF Fresh

\* The hash recorded for a source of the batch is one of its new documents'.
LEMMA RecordHashesProperties ==
  ASSUME NEW documents \in Batches, NEW s \in Sources
  PROVE  /\ s \notin SourcesOf(documents) => RecordHashes(documents)[s] = docHashes[s]
         /\ s \in SourcesOf(documents) =>
              \E n \in NewDocs(documents) : documents[n] = <<s, RecordHashes(documents)[s]>>
         /\ SourcesOf(documents) \subseteq Sources
<1>1. PICK size \in Nat : documents \in [1 .. size -> Document]
  BY BatchTyped
<1>2. NewDocs(documents) \subseteq 1 .. size
  BY <1>1 DEF NewDocs
<1>3. SourcesOf(documents) \subseteq Sources
  BY <1>1, <1>2 DEF SourcesOf, Document
<1>4. s \notin SourcesOf(documents) => RecordHashes(documents)[s] = docHashes[s]
  BY DEF RecordHashes
<1>5. ASSUME s \in SourcesOf(documents)
      PROVE  \E n \in NewDocs(documents) : documents[n] = <<s, RecordHashes(documents)[s]>>
  <2> DEFINE mine == {n \in NewDocs(documents) : documents[n][1] = s}
  <2>1. mine # {} /\ mine \subseteq 1 .. size
    BY <1>2, <1>5 DEF SourcesOf
  <2>2. Max(mine) \in mine
    BY <2>1, MaxIsMember
  <2>3. RecordHashes(documents)[s] = documents[Max(mine)][2]
    BY <1>5 DEF RecordHashes
  <2>4. documents[Max(mine)] \in Document /\ documents[Max(mine)][1] = s
    BY <1>1, <2>1, <2>2
  <2> HIDE DEF mine
  <2>5. documents[Max(mine)] = <<s, RecordHashes(documents)[s]>>
    BY <2>3, <2>4 DEF Document
  <2> QED  BY <2>2, <2>5 DEF mine
<1> QED  BY <1>3, <1>4, <1>5

\* The hashes recorded are hashes of contents.
LEMMA RecordHashesTyped ==
  ASSUME docHashes \in [Sources -> Contents \union {NoContent}], NEW documents \in Batches
  PROVE  RecordHashes(documents) \in [Sources -> Contents \union {NoContent}]
<1>1. PICK size \in Nat : documents \in [1 .. size -> Document]
  BY BatchTyped
<1>2. ASSUME NEW s \in Sources
      PROVE  RecordHashes(documents)[s] \in Contents \union {NoContent}
  <2>1. CASE s \in SourcesOf(documents)
    <3>1. PICK n \in NewDocs(documents) : documents[n] = <<s, RecordHashes(documents)[s]>>
      BY <2>1, RecordHashesProperties
    <3>2. documents[n] \in Document
      BY <1>1 DEF NewDocs
    <3> QED  BY <3>1, <3>2 DEF Document
  <2>2. CASE s \notin SourcesOf(documents)
    BY <2>2, RecordHashesProperties
  <2> QED  BY <2>1, <2>2
<1> QED  BY <1>2 DEF RecordHashes

\* An ingest that succeeds indexes what it records.
LEMMA IngestedIndexes ==
  ASSUME RAGInv, NEW documents \in Batches, Ingested(documents, Fresh(documents))
  PROVE  RAGInv'
<1> DEFINE fresh == Fresh(documents)
<1>1. /\ docHashes' = RecordHashes(documents)
      /\ chunks' = chunks \o fresh
      /\ bm25' = IF fresh = <<>> THEN bm25 ELSE chunks \o fresh
      /\ failed' = failed \ SourcesOf(documents)
  BY DEF Ingested
<1>2. chunks \in Seq(Chunk) /\ bm25 = chunks /\ fresh \in Seq(Chunk)
  BY FreshProperties DEF RAGInv
<1> HIDE DEF fresh
<1>3. chunks' \in Seq(Chunk) /\ bm25' = chunks'
  BY <1>1, <1>2
<1>4. ToSet(bm25) \subseteq ToSet(bm25') /\ ToSet(fresh) \subseteq ToSet(bm25')
  <2>1. ToSet(chunks \o fresh) = ToSet(chunks) \union ToSet(fresh)
    BY <1>2, ConcatElements
  <2>2. bm25' = chunks \o fresh /\ bm25 = chunks
    BY <1>1, <1>2, <1>3
  <2> QED  BY <2>1, <2>2 DEF ToSet
<1>5. ASSUME NEW s \in Sources, docHashes'[s] # NoContent, s \notin failed'
      PROVE  ToSet(Split(<<s, docHashes'[s]>>)) \subseteq ToSet(bm25')
  <2>1. CASE s \in SourcesOf(documents)
    <3>1. PICK n \in NewDocs(documents) : documents[n] = <<s, docHashes'[s]>>
      BY <1>1, <2>1, RecordHashesProperties
    <3>2. ToSet(Split(documents[n])) \subseteq ToSet(fresh)
      BY FreshProperties DEF fresh
    <3> QED  BY <1>4, <3>1, <3>2
  <2>2. CASE s \notin SourcesOf(documents)
    <3>1. docHashes'[s] = docHashes[s] /\ s \notin failed
      BY <1>1, <1>5, <2>2, RecordHashesProperties
    <3> QED  BY <1>4, <1>5, <3>1 DEF RAGInv, SkippedIsIndexed
  <2> QED  BY <2>1, <2>2
<1>6. docHashes' \in [Sources -> Contents \union {NoContent}]
  BY <1>1, RecordHashesTyped DEF RAGInv
<1>7. SkippedIsIndexed'
  BY <1>5 DEF SkippedIsIndexed, Split
<1> QED  BY <1>3, <1>6, <1>7 DEF RAGInv

\* One that fails remembers the sources it recorded for nothing.
LEMMA EmbeddingFailedIndexes ==
  ASSUME RAGInv, NEW documents \in Batches, EmbeddingFailed(documents, Fresh(documents))
  PROVE  RAGInv'
<1>1. /\ docHashes' = RecordHashes(documents)
      /\ failed' = failed \union SourcesOf(documents)
      /\ chunks' = chunks /\ bm25' = bm25
  BY DEF EmbeddingFailed
<1>2. ASSUME NEW s \in Sources, docHashes'[s] # NoContent, s \notin failed'
      PROVE  ToSet(Split(<<s, docHashes'[s]>>)) \subseteq ToSet(bm25')
  <2>1. docHashes'[s] = docHashes[s] /\ s \notin failed
    BY <1>1, <1>2, RecordHashesProperties
  <2> QED  BY <1>1, <1>2, <2>1 DEF RAGInv, SkippedIsIndexed
<1>3. docHashes' \in [Sources -> Contents \union {NoContent}]
  BY <1>1, RecordHashesTyped DEF RAGInv
<1>4. SkippedIsIndexed'
  BY <1>2 DEF SkippedIsIndexed, Split
<1> QED  BY <1>1, <1>3, <1>4 DEF RAGInv

\* Every step of the pipeline keeps the invariant.
LEMMA RAGInductive == RAGInv /\ [RAGNext]_ragvars => RAGInv'
<1> SUFFICES ASSUME RAGInv, [RAGNext]_ragvars
             PROVE  RAGInv'
  OBVIOUS
<1>1. ASSUME UNCHANGED <<docHashes, chunks, bm25, failed>>
      PROVE  RAGInv'
  BY <1>1 DEF RAGInv, SkippedIsIndexed, Split
<1>2. ASSUME NEW documents \in Batches, Ingest(documents)
      PROVE  RAGInv'
  BY <1>2, IngestedIndexes, EmbeddingFailedIndexes DEF Ingest
<1>3. ASSUME NEW s \in Sources, Delete(s)
      PROVE  RAGInv'
  BY <1>1, <1>3 DEF Delete
<1>4. ASSUME NEW q \in Questions, NEW where \in Filters, Answer(q, where)
      PROVE  RAGInv'
  BY <1>1, <1>4 DEF Answer
<1>5. CASE UNCHANGED ragvars
  BY <1>1, <1>5 DEF ragvars
<1> QED  BY <1>2, <1>3, <1>4, <1>5 DEF RAGNext

\* "Skips documents whose content hash is unchanged" (pipeline.py:156): for any
\* chunker, embedder and order of batches, deletes and questions, what an ingest
\* skips is whole in the index, unless a failed ingest recorded its hash.
THEOREM SkippingLosesNothing == RAGSpec => []SkippedIsIndexed
<1>1. RAGInit => RAGInv
  BY DEF RAGInit, RAGInv, SkippedIsIndexed
<1>2. RAGInv => SkippedIsIndexed
  BY DEF RAGInv
<1> QED  BY <1>1, <1>2, RAGInductive, PTL DEF RAGSpec

-----------------------------------------------------------------------------
(* What a retriever returns.                                               *)

\* What the assumption says of each constant.
LEMMA ConstantTypes ==
  /\ MaxContext \in Nat /\ MinChunk \in Nat /\ TopK \in Nat /\ FetchK \in Nat
  /\ \A c \in Chunk : Tokens[c.text] \in Nat \ {0}
  BY RAGTypes DEF Chunk

\* In a finite set with a strict order, the numbers of elements before each run
\* from none on, without a gap, in that order.
LEMMA BeforeCounts ==
  ASSUME NEW S, IsFiniteSet(S), NEW before \in [S -> SUBSET S],
         \A i \in S : i \notin before[i],
         \A i, j \in S : i # j => i \in before[j] \/ j \in before[i],
         \A i, j \in S : i \in before[j] => before[i] \subseteq before[j]
  PROVE  LET count == [i \in S |-> Cardinality(before[i])]
             C == Cardinality(S)
         IN  /\ C \in Nat /\ count \in [S -> 0 .. C - 1]
             /\ \A i, j \in S : (i \in before[j] <=> count[i] < count[j]) /\ (count[i] = count[j] => i = j)
             /\ \A k \in 0 .. C - 1 : \E i \in S : count[i] = k
<1> DEFINE C == Cardinality(S)
           P(i) == before[i]
           count == [i \in S |-> Cardinality(P(i))]
<1>1. C \in Nat
  BY FS_CardinalityType
<1>2. /\ \A i \in S : P(i) \subseteq S \ {i}
      /\ \A i, j \in S : i # j => i \in P(j) \/ j \in P(i)
      /\ \A i, j \in S : i \in P(j) => P(i) \subseteq P(j)
  OBVIOUS
<1> HIDE DEF P
<1>3. \A i \in S : IsFiniteSet(P(i)) /\ Cardinality(P(i)) \in 0 .. C - 1
  <2> SUFFICES ASSUME NEW i \in S
               PROVE  IsFiniteSet(P(i)) /\ Cardinality(P(i)) \in 0 .. C - 1
    OBVIOUS
  <2>1. IsFiniteSet(S \ {i}) /\ Cardinality(S \ {i}) = C - 1
    BY FS_RemoveElement
  <2>2. IsFiniteSet(P(i)) /\ Cardinality(P(i)) <= C - 1
    BY <1>2, <2>1, FS_Subset
  <2>3. Cardinality(P(i)) \in Nat
    BY <2>2, FS_CardinalityType
  <2> QED  BY <1>1, <2>2, <2>3
<1>4. \A i, j \in S : i \in P(j) => count[i] < count[j]
  <2> SUFFICES ASSUME NEW i \in S, NEW j \in S, i \in P(j)
               PROVE  Cardinality(P(i)) < Cardinality(P(j))
    OBVIOUS
  <2>1. P(i) \in SUBSET P(j) /\ P(i) # P(j)
    BY <1>2
  <2>2. Cardinality(P(i)) <= Cardinality(P(j)) /\ Cardinality(P(i)) # Cardinality(P(j))
    BY <1>3, <2>1, FS_Subset
  <2> QED  BY <1>3, <2>2
<1>5. count \in [S -> 0 .. C - 1]
  BY <1>3
<1>6. \A i, j \in S : count[i] = count[j] => i = j
  BY <1>2, <1>4, <1>5
<1>7. IsFiniteSet(0 .. C - 1) /\ Cardinality(0 .. C - 1) = C
  <2>1. Cardinality(0 .. C - 1) = IF 0 > C - 1 THEN 0 ELSE C - 1 - 0 + 1
    BY <1>1, FS_Interval
  <2>2. IsFiniteSet(0 .. C - 1)
    BY <1>1, FS_Interval
  <2> QED  BY <1>1, <2>1, <2>2
<1>8. \A k \in 0 .. C - 1 : \E i \in S : count[i] = k
  <2> HIDE DEF count, C
  <2>1. count \in Injection(S, 0 .. C - 1)
    BY <1>5, <1>6 DEF Injection, IsInjective
  <2>2. count \in Surjection(S, 0 .. C - 1)
    BY <1>7, <2>1, FS_Injection DEF C
  <2> QED  BY <2>2 DEF Surjection
<1>9. \A i, j \in S : count[i] < count[j] => i \in P(j)
  BY <1>2, <1>4, <1>5
<1> QED  BY <1>1, <1>4, <1>5, <1>6, <1>8, <1>9, Zenon DEF P

\* The pairs of a score and a position, those that others precede after them.
RankedPairs(T) ==
  [n \in 1 .. Cardinality(T) |-> CHOOSE p \in T : Cardinality(Preceding(p, T)) = n - 1]

\* Each of them once, those with a higher score first.
LEMMA PairsAreRanked ==
  ASSUME NEW S \in SUBSET (Int \X Nat), IsFiniteSet(S)
  PROVE  LET r == RankedPairs(S)
             C == Cardinality(S)
         IN  /\ C \in Nat /\ r \in [1 .. C -> S]
             /\ \A i \in S : \E n \in 1 .. C : r[n] = i
             /\ \A m, n \in 1 .. C : m < n => r[m] # r[n] /\ r[m][1] >= r[n][1]
             /\ \A p \in S, n \in 1 .. C : p = r[n] <=> Cardinality(Preceding(p, S)) = n - 1
             /\ \A m, n \in 1 .. C : r[m] \in Preceding(r[n], S) <=> m < n
<1> DEFINE C == Cardinality(S)
           P(i) == Preceding(i, S)
           count == [i \in S |-> Cardinality(P(i))]
           r == RankedPairs(S)
<1>1. C \in Nat
  BY FS_CardinalityType
<1>2. /\ \A i \in S : P(i) \subseteq S \ {i}
      /\ \A i, j \in S : i # j => i \in P(j) \/ j \in P(i)
      /\ \A i, j \in S : i \in P(j) => P(i) \subseteq P(j)
      /\ \A i, j \in S : i \in P(j) => i[1] >= j[1]
  <2>1. \A i, j \in S : /\ i[1] \in Int /\ i[2] \in Nat /\ i = <<i[1], i[2]>>
                        /\ j \in P(i) <=> j[1] > i[1] \/ (j[1] = i[1] /\ j[2] < i[2])
    BY DEF Preceding
  <2>2. \A i \in S : P(i) \subseteq S
    BY DEF Preceding
  <2> HIDE DEF P
  <2>3. \A i \in S : i \notin P(i)
    BY <2>1
  <2>4. \A i, j \in S : i # j => i \in P(j) \/ j \in P(i)
    BY <2>1
  <2>5. \A i, j, k \in S : i \in P(j) /\ k \in P(i) => k \in P(j)
    BY <2>1
  <2>6. \A i, j \in S : i \in P(j) => i[1] >= j[1]
    BY <2>1
  <2> QED  BY <2>2, <2>3, <2>4, <2>5, <2>6
<1> HIDE DEF P
<1>3. /\ count \in [S -> 0 .. C - 1]
      /\ \A i, j \in S : i \in P(j) <=> count[i] < count[j]
      /\ \A i, j \in S : count[i] = count[j] => i = j
      /\ \A k \in 0 .. C - 1 : \E i \in S : count[i] = k
  <2> DEFINE before == [i \in S |-> P(i)]
  <2>1. before \in [S -> SUBSET S] /\ \A i \in S : before[i] = P(i)
    BY <1>2
  <2>2. count = [i \in S |-> Cardinality(before[i])]
    BY <2>1
  <2>3. /\ \A i \in S : i \notin before[i]
        /\ \A i, j \in S : i # j => i \in before[j] \/ j \in before[i]
        /\ \A i, j \in S : i \in before[j] => before[i] \subseteq before[j]
    BY <1>2, <2>1
  <2> HIDE DEF before, count
  <2> QED  BY <2>1, <2>2, <2>3, BeforeCounts
<1>4. \A n \in 1 .. C : r[n] \in S /\ count[r[n]] = n - 1
  <2> SUFFICES ASSUME NEW n \in 1 .. C
               PROVE  r[n] \in S /\ count[r[n]] = n - 1
    OBVIOUS
  <2>1. n - 1 \in 0 .. C - 1
    BY <1>1
  <2>2. \E i \in S : Cardinality(P(i)) = n - 1
    BY <1>3, <2>1
  <2>3. r[n] = CHOOSE i \in S : Cardinality(P(i)) = n - 1
    BY DEF RankedPairs, P
  <2> QED  BY <2>2, <2>3
<1>5. r \in [1 .. C -> S]
  <2>1. r = [n \in 1 .. C |-> r[n]]
    BY DEF RankedPairs
  <2> HIDE DEF r
  <2> QED  BY <1>4, <2>1
<1> HIDE DEF r, count
<1>6. \A i \in S : \E n \in 1 .. C : r[n] = i
  <2> SUFFICES ASSUME NEW i \in S
               PROVE  \E n \in 1 .. C : r[n] = i
    OBVIOUS
  <2>1. count[i] \in 0 .. C - 1 /\ count[i] + 1 \in 1 .. C /\ (count[i] + 1) - 1 = count[i]
    BY <1>1, <1>3
  <2>2. r[count[i] + 1] \in S /\ count[r[count[i] + 1]] = count[i]
    BY <1>4, <2>1
  <2> QED  BY <1>3, <2>1, <2>2
<1>7. \A m, n \in 1 .. C : m < n => r[m] # r[n] /\ r[m][1] >= r[n][1]
  <2> SUFFICES ASSUME NEW m \in 1 .. C, NEW n \in 1 .. C, m < n
               PROVE  r[m] # r[n] /\ r[m][1] >= r[n][1]
    OBVIOUS
  <2>1. /\ r[m] \in S /\ r[n] \in S
        /\ count[r[m]] = m - 1 /\ count[r[n]] = n - 1 /\ m - 1 < n - 1
    BY <1>4
  <2>2. ~(count[r[n]] < count[r[m]]) /\ r[m] # r[n]
    BY <2>1
  <2>3. r[m] \in P(r[n])
    BY <1>2, <1>3, <2>1, <2>2
  <2> QED  BY <1>2, <2>1, <2>2, <2>3
<1>8. \A p \in S, n \in 1 .. C : p = r[n] <=> Cardinality(P(p)) = n - 1
  <2>1. \A p \in S : count[p] = Cardinality(P(p))
    BY DEF count
  <2> QED  BY <1>3, <1>4, <2>1
<1>9. \A m, n \in 1 .. C : r[m] \in P(r[n]) <=> m < n
  <2> SUFFICES ASSUME NEW m \in 1 .. C, NEW n \in 1 .. C
               PROVE  r[m] \in P(r[n]) <=> m < n
    OBVIOUS
  <2>1. /\ r[m] \in S /\ r[n] \in S /\ count[r[m]] = m - 1 /\ count[r[n]] = n - 1
        /\ m - 1 < n - 1 <=> m < n
    BY <1>4
  <2> QED  BY <1>3, <2>1
<1> QED  BY <1>1, <1>5, <1>6, <1>7, <1>8, <1>9 DEF r, P

\* A ranking of a finite set of positions: each of them once, those with a higher
\* score first.
LEMMA RankedProperties ==
  ASSUME NEW S \in SUBSET Nat, IsFiniteSet(S), NEW score, \A i \in S : score[i] \in Int
  PROVE  LET r == Ranked(S, score)
             C == Cardinality(S)
         IN  /\ C \in Nat /\ r \in [1 .. C -> S]
             /\ \A i \in S : \E n \in 1 .. C : r[n] = i
             /\ \A m, n \in 1 .. C : m < n => r[m] # r[n] /\ score[r[m]] >= score[r[n]]
<1> DEFINE C == Cardinality(S)
           T == {<<score[i], i>> : i \in S}
           pair == [i \in S |-> <<score[i], i>>]
           p == RankedPairs(T)
           r == Ranked(S, score)
<1>1. T \in SUBSET (Int \X Nat) /\ \A t \in T : t[2] \in S /\ t[1] = score[t[2]]
  OBVIOUS
<1>2. IsFiniteSet(T) /\ Cardinality(T) = C
  <2>1. pair \in Bijection(S, T)
    <3>1. \A i, j \in S : pair[i] = pair[j] => i = j
      OBVIOUS
    <3>2. pair \in [S -> T]
      OBVIOUS
    <3>3. \A t \in T : \E i \in S : pair[i] = t
      OBVIOUS
    <3> HIDE DEF pair, T
    <3> QED  BY <3>1, <3>2, <3>3 DEF Bijection, Injection, Surjection, IsInjective
  <2> HIDE DEF pair, T
  <2>2. pair \in Surjection(S, T) /\ pair \in Injection(S, T)
    BY <2>1 DEF Bijection
  <2> QED  BY <2>2, FS_Surjection
<1>3. \A i \in S : <<score[i], i>> \in T
  OBVIOUS
<1>4. r = [n \in 1 .. C |-> (CHOOSE t \in T : Cardinality(Preceding(t, T)) = n - 1)[2]]
  BY Zenon DEF Ranked
<1>11. r = [n \in 1 .. C |-> r[n]]
  BY DEF Ranked
<1> HIDE DEF T, r
<1>5. /\ C \in Nat /\ p \in [1 .. C -> T]
      /\ \A t \in T : \E n \in 1 .. C : p[n] = t
      /\ \A m, n \in 1 .. C : m < n => p[m] # p[n] /\ p[m][1] >= p[n][1]
  <2> HIDE DEF p
  <2> QED  BY <1>1, <1>2, PairsAreRanked DEF p
<1>6. \A n \in 1 .. C : r[n] = p[n][2]
  <2>1. \A n \in 1 .. C : p[n] = CHOOSE t \in T : Cardinality(Preceding(t, T)) = n - 1
    BY <1>2, Zenon DEF RankedPairs
  <2>2. \A n \in 1 .. C : r[n] = (CHOOSE t \in T : Cardinality(Preceding(t, T)) = n - 1)[2]
    BY <1>4, Zenon
  <2> QED  BY <2>1, <2>2, Zenon
<1> HIDE DEF p, C
<1>7. \A n \in 1 .. C : /\ p[n] \in T /\ r[n] \in S /\ p[n] = <<score[r[n]], r[n]>>
                       /\ p[n][1] = score[r[n]]
  <2>1. \A t \in T : t = <<score[t[2]], t[2]>>
    BY <1>1
  <2> QED  BY <1>1, <1>5, <1>6, <2>1
<1>8. r \in [1 .. C -> S]
  <2>1. \A n \in 1 .. C : r[n] \in S
    BY <1>7
  <2> QED  BY <1>11, <2>1
<1>9. \A i \in S : \E n \in 1 .. C : r[n] = i
  <2> SUFFICES ASSUME NEW i \in S
               PROVE  \E n \in 1 .. C : r[n] = i
    OBVIOUS
  <2>1. PICK n \in 1 .. C : p[n] = <<score[i], i>>
    BY <1>3, <1>5
  <2> QED  BY <1>6, <2>1
<1>10. \A m, n \in 1 .. C : m < n => r[m] # r[n] /\ score[r[m]] >= score[r[n]]
  <2> SUFFICES ASSUME NEW m \in 1 .. C, NEW n \in 1 .. C, m < n
               PROVE  r[m] # r[n] /\ score[r[m]] >= score[r[n]]
    OBVIOUS
  <2>1. p[m] # p[n] /\ p[m][1] >= p[n][1]
    BY <1>5
  <2>2. p[m] = <<score[r[m]], r[m]>> /\ p[n] = <<score[r[n]], r[n]>>
    BY <1>7
  <2>3. p[m][1] = score[r[m]] /\ p[n][1] = score[r[n]]
    BY <1>7
  <2>4. r[m] # r[n]
    BY <2>1, <2>2
  <2> QED  BY <2>1, <2>3, <2>4
<1> QED  BY <1>5, <1>8, <1>9, <1>10 DEF r, C

\* The first k of a sequence, or all of them.
LEMMA TakeProperties ==
  ASSUME NEW X, NEW s \in Seq(X), NEW k \in Nat
  PROVE  /\ Take(s, k) \in Seq(X)
         /\ Len(Take(s, k)) = IF k <= Len(s) THEN k ELSE Len(s)
         /\ \A n \in 1 .. Len(Take(s, k)) : n \in 1 .. Len(s) /\ Take(s, k)[n] = s[n]
<1> DEFINE m == Min({k, Len(s)})
<1>1. Len(s) \in Nat /\ {k, Len(s)} \in SUBSET Nat /\ {k, Len(s)} # {}
  OBVIOUS
<1>2. m \in {k, Len(s)} /\ \A x \in {k, Len(s)} : m <= x
  BY <1>1, MinIsLeast
<1> HIDE DEF m
<1>3. m \in Nat /\ m <= Len(s) /\ m = IF k <= Len(s) THEN k ELSE Len(s)
  BY <1>1, <1>2
<1>4. /\ SubSeq(s, 1, m) \in Seq(X) /\ Len(SubSeq(s, 1, m)) = m
      /\ \A n \in 1 .. m : SubSeq(s, 1, m)[n] = s[n]
  BY <1>1, <1>3
<1>5. Take(s, k) = SubSeq(s, 1, m)
  BY DEF Take, m
<1>6. \A n \in 1 .. m : n \in 1 .. Len(s)
  BY <1>1, <1>3
<1> QED  BY <1>3, <1>4, <1>5, <1>6, Zenon

\* The chunks a filter lets through, and sequences of chunks without a repeated id.
Allowed(where) == {c \in Chunk : c.source \in where}
DistinctIds(found) == \A i, j \in DOMAIN found : found[i].id = found[j].id => i = j

\* The first k positions of a ranking.
LEMMA RankedTake ==
  ASSUME NEW L \in Nat, NEW S \in SUBSET (1 .. L), NEW score, \A i \in S : score[i] \in Int,
         NEW k \in Nat
  PROVE  LET order == Take(Ranked(S, score), k)
         IN  /\ order \in Seq(S) /\ Len(order) <= k
             /\ \A n \in DOMAIN order : order[n] = Ranked(S, score)[n]
             /\ \A m, n \in DOMAIN order : order[m] = order[n] => m = n
<1> DEFINE r == Ranked(S, score)
           C == Cardinality(S)
           order == Take(r, k)
<1>1. S \in SUBSET Nat /\ IsFiniteSet(S)
  <2>1. IsFiniteSet(1 .. L)
    BY FS_Interval
  <2>2. IsFiniteSet(S)
    BY <2>1, FS_Subset, Zenon
  <2> QED  BY <2>2
<1>2. /\ C \in Nat /\ r \in [1 .. C -> S]
      /\ \A m, n \in 1 .. C : m < n => r[m] # r[n]
  BY <1>1, RankedProperties
<1> HIDE DEF r, C
<1>3. r \in Seq(S) /\ Len(r) = C
  BY <1>2
<1>4. /\ order \in Seq(S) /\ Len(order) = IF k <= Len(r) THEN k ELSE Len(r)
      /\ \A n \in 1 .. Len(order) : n \in 1 .. Len(r) /\ order[n] = r[n]
  BY <1>3, TakeProperties
<1> HIDE DEF order
<1>5. Len(order) <= k /\ DOMAIN order = 1 .. Len(order)
  BY <1>2, <1>3, <1>4
<1>6. ASSUME NEW m \in DOMAIN order, NEW n \in DOMAIN order, order[m] = order[n]
      PROVE  m = n
  <2>1. m \in 1 .. C /\ n \in 1 .. C /\ r[m] = r[n]
    BY <1>3, <1>4, <1>5, <1>6
  <2>2. ~(m < n) /\ ~(n < m)
    BY <1>2, <2>1
  <2> QED  BY <1>2, <2>1, <2>2
<1> QED  BY <1>4, <1>5, <1>6 DEF r, order

\* What stands at positions of an index, in the order of those positions.
LEMMA PickedTyped ==
  ASSUME NEW S, NEW X, NEW index, \A i \in S : index[i] \in X, NEW order \in Seq(S)
  PROVE  /\ [n \in DOMAIN order |-> index[order[n]]] \in Seq(X)
         /\ Len([n \in DOMAIN order |-> index[order[n]]]) = Len(order)
<1>1. Len(order) \in Nat /\ DOMAIN order = 1 .. Len(order) /\ \A n \in DOMAIN order : order[n] \in S
  OBVIOUS
<1>2. \A n \in 1 .. Len(order) : index[order[n]] \in X
  BY <1>1
<1> QED  BY <1>1, <1>2

\* The positions a filter lets through.
LEMMA FilteredProperties ==
  ASSUME NEW index \in Seq(Chunk), NEW where
  PROVE  /\ Len(index) \in Nat /\ Filtered(index, where) \in SUBSET (1 .. Len(index))
         /\ \A i \in Filtered(index, where) : index[i] \in Allowed(where)
  BY DEF Filtered, Allowed

\* BM25 returns at most k chunks, which the filter lets through.
LEMMA BM25Allowed ==
  ASSUME NEW index \in Seq(Chunk), NEW where, NEW score \in [Texts -> Int], NEW k \in Nat
  PROVE  BM25(index, score, k, where) \in Seq(Allowed(where)) /\ Len(BM25(index, score, k, where)) <= k
<1> DEFINE hits == {i \in Filtered(index, where) : score[index[i].text] > 0}
           weight == [i \in hits |-> score[index[i].text]]
           order == Take(Ranked(hits, weight), k)
<1>1. /\ Len(index) \in Nat /\ hits \in SUBSET (1 .. Len(index))
      /\ \A i \in hits : index[i] \in Allowed(where)
  BY FilteredProperties
<1>2. \A i \in hits : weight[i] \in Int
  <2>1. \A c \in Allowed(where) : c.text \in Texts
    BY DEF Allowed, Chunk
  <2> QED  BY <1>1, <2>1
<1> HIDE DEF hits, weight
<1>3. /\ order \in Seq(hits) /\ Len(order) <= k
      /\ \A n \in DOMAIN order : order[n] = Ranked(hits, weight)[n]
  BY <1>1, <1>2, RankedTake
<1> HIDE DEF order
<1>4. /\ [n \in DOMAIN order |-> index[order[n]]] \in Seq(Allowed(where))
      /\ Len([n \in DOMAIN order |-> index[order[n]]]) = Len(order)
  <2>1. order \in Seq(hits) /\ \A i \in hits : index[i] \in Allowed(where)
    BY <1>1, <1>3
  <2> QED  BY <2>1, PickedTyped
<1>5. BM25(index, score, k, where) = [n \in DOMAIN order |-> index[Ranked(hits, weight)[n]]]
  BY Zenon DEF BM25, hits, weight, order
<1>6. BM25(index, score, k, where) = [n \in DOMAIN order |-> index[order[n]]]
  BY <1>3, <1>5, Zenon
<1> QED  BY <1>3, <1>4, <1>6, Zenon

\* A similarity is a number of hundredths.
LEMMA CosineTyped == \A q \in Questions, t \in Texts : Cosine[q][t] \in -100 .. 100 /\ Cosine[q][t] \in Int
<1>1. \A q \in Questions, t \in Texts : Cosine[q][t] \in -100 .. 100
  BY RetrievalTypes
<1> QED  BY <1>1

\* The nearest of some chunks the filter lets through are at most k of them.
LEMMA NearestAllowed ==
  ASSUME NEW index \in Seq(Chunk), NEW where, NEW q \in Questions, NEW k \in Nat,
         NEW candidates \in SUBSET Filtered(index, where),
         NEW found \in Nearest(index, q, k, candidates)
  PROVE  found \in Seq(Allowed(where)) /\ Len(found) <= k
<1> DEFINE score == [i \in candidates |-> Cosine[q][index[i].text]]
           best == Take(Ranked(candidates, score), k)
<1>1. /\ Len(index) \in Nat /\ candidates \in SUBSET (1 .. Len(index))
      /\ \A i \in candidates : index[i] \in Allowed(where)
  <2>1. /\ Len(index) \in Nat /\ Filtered(index, where) \in SUBSET (1 .. Len(index))
        /\ \A i \in Filtered(index, where) : index[i] \in Allowed(where)
    BY FilteredProperties
  <2> QED  BY <2>1
<1>2. \A i \in candidates : score[i] \in Int
  <2>1. \A c \in Allowed(where) : c.text \in Texts
    BY DEF Allowed, Chunk
  <2>2. \A t \in Texts : Cosine[q][t] \in Int
    BY CosineTyped
  <2> QED  BY <1>1, <2>1, <2>2
<1>3. PICK p \in [DOMAIN best -> candidates] : found = [n \in DOMAIN best |-> index[p[n]]]
  BY Zenon DEF Nearest
<1> HIDE DEF score
<1>4. best \in Seq(candidates) /\ Len(best) <= k
  BY <1>1, <1>2, RankedTake
<1> HIDE DEF best
<1>5. p \in Seq(candidates) /\ Len(p) = Len(best) /\ DOMAIN p = DOMAIN best
  BY <1>3, <1>4
<1>6. [n \in DOMAIN p |-> index[p[n]]] \in Seq(Allowed(where))
  BY <1>1, <1>5, PickedTyped
<1>7. Len([n \in DOMAIN p |-> index[p[n]]]) = Len(p)
  BY <1>1, <1>5, PickedTyped
<1>8. found = [n \in DOMAIN p |-> index[p[n]]]
  BY <1>3, <1>5, Zenon
<1> QED  BY <1>4, <1>5, <1>6, <1>7, <1>8, Zenon

\* The store returns at most k chunks, which the filter lets through.
LEMMA SearchesAllowed ==
  ASSUME NEW index \in Seq(Chunk), NEW where, NEW q \in Questions, NEW k \in Nat,
         NEW found \in Searches(index, q, k, where)
  PROVE  found \in Seq(Allowed(where)) /\ Len(found) <= k
<1>1. found \in Nearest(index, q, k, Filtered(index, where))
  BY Zenon DEF Searches
<1> QED  BY <1>1, NearestAllowed

\* A rank's vote is a number.
LEMMA ReciprocalTyped ==
  Len(Reciprocal) \in Nat /\ \A r \in 1 .. Len(Reciprocal) : Reciprocal[r] \in Nat \ {0}
<1>1. Reciprocal \in Seq(Nat \ {0})
  BY RetrievalTypes
<1> QED  BY <1>1

\* The fusion of two rankings, no longer than the table of votes: chunks of
\* theirs, each id once.
LEMMA FuseProperties ==
  ASSUME NEW X \in SUBSET Chunk, NEW dense \in Seq(X), NEW sparse \in Seq(X),
         Len(dense) <= Len(Reciprocal), Len(sparse) <= Len(Reciprocal)
  PROVE  Fuse(<<dense, sparse>>) \in Seq(X) /\ DistinctIds(Fuse(<<dense, sparse>>))
<1> DEFINE rankings == <<dense, sparse>>
           all == FlattenSeq(rankings)
           ids == {all[i].id : i \in DOMAIN all}
           First(id) == Min({i \in DOMAIN all : all[i].id = id})
           Votes(ranking, id) ==
             SumOf([r \in DOMAIN ranking |-> IF ranking[r].id = id THEN Reciprocal[r] ELSE 0])
           Total(id) == SumOf([n \in DOMAIN rankings |-> Votes(rankings[n], id)])
           firsts == {First(id) : id \in ids}
           weight == [i \in firsts |-> Total(all[i].id)]
           ordered == Ranked(firsts, weight)
           fused == [n \in DOMAIN ordered |-> all[ordered[n]]]
<1>1. Fuse(rankings) = fused
  BY Zenon DEF Fuse
<1>2. all \in Seq(X)
  <2>1. all = dense \o sparse
    BY FlattenPair, Zenon
  <2>2. dense \o sparse \in Seq(X)
    OBVIOUS
  <2> QED  BY <2>1, <2>2, Zenon
<1>3. \A id : Total(id) \in Int
  <2>1. ASSUME NEW ranking \in Seq(X), NEW id, Len(ranking) <= Len(Reciprocal)
        PROVE  Votes(ranking, id) \in Int
    <3> DEFINE vote == [r \in DOMAIN ranking |-> IF ranking[r].id = id THEN Reciprocal[r] ELSE 0]
               L == Len(ranking)
    <3>1. L \in Nat /\ DOMAIN ranking = 1 .. L
      OBVIOUS
    <3>2. \A r \in 1 .. L : Reciprocal[r] \in Int
      BY <2>1, <3>1, ReciprocalTyped
    <3>3. \A r \in 1 .. L : vote[r] \in Int
      BY <3>1, <3>2
    <3>4. vote = [r \in 1 .. L |-> vote[r]]
      BY <3>1
    <3> HIDE DEF vote, L
    <3>5. SumOf(vote) \in Int
      BY <3>1, <3>3, <3>4, SumOfInt
    <3> QED  BY <3>5 DEF vote
  <2> HIDE DEF Votes
  <2>2. ASSUME NEW id
        PROVE  Total(id) \in Int
    <3> DEFINE total == [n \in DOMAIN rankings |-> Votes(rankings[n], id)]
    <3>1. \A n \in 1 .. 2 : rankings[n] \in Seq(X) /\ Len(rankings[n]) <= Len(Reciprocal)
      OBVIOUS
    <3>2. DOMAIN rankings = 1 .. 2
      OBVIOUS
    <3> HIDE DEF rankings
    <3>3. \A n \in 1 .. 2 : total[n] \in Int
      BY <2>1, <3>1, <3>2
    <3>4. total = [n \in 1 .. 2 |-> total[n]]
      BY <3>2
    <3> HIDE DEF total
    <3>5. SumOf(total) \in Int
      BY <3>3, <3>4, SumOfInt
    <3> QED  BY <3>5 DEF total
  <2> QED  BY <2>2
<1> HIDE DEF all, Total
<1>4. ASSUME NEW id \in ids
      PROVE  First(id) \in DOMAIN all /\ all[First(id)].id = id
  <2> DEFINE at == {i \in DOMAIN all : all[i].id = id}
  <2>1. at \in SUBSET Nat /\ at # {}
    BY <1>2
  <2>2. Min(at) \in at
    <3> HIDE DEF at
    <3> QED  BY <2>1, MinIsLeast
  <2> QED  BY <2>2
<1> HIDE DEF First
<1>5. firsts \in SUBSET (1 .. Len(all)) /\ Len(all) \in Nat
  BY <1>2, <1>4
<1>6. \A i \in firsts : all[i] \in X
  <2>1. \A i \in 1 .. Len(all) : all[i] \in X
    BY <1>2
  <2> HIDE DEF firsts
  <2> QED  BY <1>5, <2>1
<1>7. \A i, j \in firsts : all[i].id = all[j].id => i = j
  BY <1>4
<1>8. \A i \in firsts : weight[i] \in Int
  BY <1>3
<1> HIDE DEF firsts, weight
<1>9. firsts \in SUBSET Nat /\ IsFiniteSet(firsts)
  <2>1. IsFiniteSet(1 .. Len(all))
    BY <1>5, FS_Interval
  <2>2. IsFiniteSet(firsts)
    BY <1>5, <2>1, FS_Subset, Zenon
  <2> QED  BY <1>5, <2>2
<1> DEFINE C == Cardinality(firsts)
<1>10. /\ C \in Nat /\ ordered \in [1 .. C -> firsts]
       /\ \A m, n \in 1 .. C : m < n => ordered[m] # ordered[n]
  BY <1>8, <1>9, RankedProperties
<1> HIDE DEF ordered, C
<1>11. fused \in Seq(X)
  <2>1. ordered \in Seq(firsts)
    BY <1>10
  <2> QED  BY <1>6, <2>1, PickedTyped
<1>12. DistinctIds(fused)
  <2> SUFFICES ASSUME NEW i \in DOMAIN fused, NEW j \in DOMAIN fused, fused[i].id = fused[j].id
               PROVE  i = j
    BY Zenon DEF DistinctIds
  <2>1. i \in 1 .. C /\ j \in 1 .. C /\ ordered[i] \in firsts /\ ordered[j] \in firsts
    BY <1>10
  <2>2. fused[i] = all[ordered[i]] /\ fused[j] = all[ordered[j]]
    OBVIOUS
  <2>3. ordered[i] = ordered[j]
    BY <1>7, <2>1, <2>2
  <2>4. ~(i < j) /\ ~(j < i)
    BY <1>10, <2>1, <2>3
  <2> QED  BY <2>1, <2>4
<1> QED  BY <1>1, <1>11, <1>12, Zenon

\* A reranker returns at most k of what it is given, and repeats no id by itself.
LEMMA RerankProperties ==
  ASSUME NEW X \in SUBSET Chunk, NEW found \in Seq(X), NEW score \in [Texts -> Int], NEW k \in Nat
  PROVE  LET best == Rerank(found, score, k)
         IN  /\ best \in Seq(X) /\ Len(best) <= k
             /\ DistinctIds(found) => DistinctIds(best)
<1> DEFINE L == Len(found)
           weight == [i \in DOMAIN found |-> score[found[i].text]]
           order == Take(Ranked(DOMAIN found, weight), k)
           best == [n \in DOMAIN order |-> found[order[n]]]
<1>1. /\ L \in Nat /\ DOMAIN found \in SUBSET (1 .. L) /\ \A i \in DOMAIN found : found[i] \in X
      /\ \A c \in X : c.text \in Texts
  BY DEF Chunk
<1>2. \A i \in DOMAIN found : weight[i] \in Int
  BY <1>1
<1>3. Rerank(found, score, k) = best
  BY Zenon DEF Rerank
<1> HIDE DEF weight, L
<1>4. /\ order \in Seq(DOMAIN found) /\ Len(order) <= k
      /\ \A m, n \in DOMAIN order : order[m] = order[n] => m = n
  BY <1>1, <1>2, RankedTake
<1> HIDE DEF order
<1>5. best \in Seq(X) /\ Len(best) = Len(order)
  BY <1>1, <1>4, PickedTyped
<1>6. ASSUME DistinctIds(found)
      PROVE  DistinctIds(best)
  <2> SUFFICES ASSUME NEW i \in DOMAIN best, NEW j \in DOMAIN best, best[i].id = best[j].id
               PROVE  i = j
    BY Zenon DEF DistinctIds
  <2>1. i \in DOMAIN order /\ j \in DOMAIN order /\ best[i] = found[order[i]] /\ best[j] = found[order[j]]
    OBVIOUS
  <2>2. order[i] \in DOMAIN found /\ order[j] \in DOMAIN found
    BY <1>4, <2>1
  <2>3. order[i] = order[j]
    BY <1>6, <2>1, <2>2 DEF DistinctIds
  <2> QED  BY <1>4, <2>1, <2>3
<1> HIDE DEF best
<1> QED  BY <1>3, <1>4, <1>5, <1>6, Zenon

\* The first k of a sequence repeat no id that it does not.
LEMMA TakeDistinct ==
  ASSUME NEW found \in Seq(Chunk), NEW k \in Nat, DistinctIds(found)
  PROVE  DistinctIds(Take(found, k))
<1>1. /\ Take(found, k) \in Seq(Chunk)
      /\ \A n \in 1 .. Len(Take(found, k)) : n \in 1 .. Len(found) /\ Take(found, k)[n] = found[n]
  BY TakeProperties
<1>2. DOMAIN Take(found, k) = 1 .. Len(Take(found, k)) /\ DOMAIN found = 1 .. Len(found)
  BY <1>1
<1> QED  BY <1>1, <1>2, Zenon DEF DistinctIds

\* Both searches fused: only chunks the filter lets through, each id once.
LEMMA HybridProperties ==
  ASSUME NEW index \in Seq(Chunk), NEW q \in Questions, NEW where, NEW k \in Nat,
         NEW dense \in Seq(Allowed(where)), Len(dense) <= FetchK, NEW score \in Scores(q)
  PROVE  LET r == Hybrid(dense, BM25(index, score, FetchK, where), k)
         IN  r \in Seq(Allowed(where)) /\ DistinctIds(r)
<1> DEFINE X == Allowed(where)
           sparse == BM25(index, score, FetchK, where)
           fused == Fuse(<<dense, sparse>>)
<1>1. X \in SUBSET Chunk
  BY DEF Allowed
<1>2. sparse \in Seq(X) /\ Len(sparse) <= FetchK
  <2>1. score \in [Texts -> Int] /\ FetchK \in Nat
    BY ConstantTypes, RetrievalTypes DEF Scores
  <2> QED  BY <2>1, BM25Allowed
<1>3. dense \in Seq(X)
  OBVIOUS
<1>4. Hybrid(dense, sparse, k) = Take(fused, k)
  BY DEF Hybrid
<1> HIDE DEF X, sparse
<1>5. fused \in Seq(X) /\ DistinctIds(fused)
  <2>1. Len(dense) <= Len(Reciprocal) /\ Len(sparse) <= Len(Reciprocal)
    <3>1. Len(dense) \in Nat /\ Len(sparse) \in Nat
      BY <1>2, <1>3
    <3>2. FetchK \in Nat /\ FetchK <= Len(Reciprocal)
      BY RAGTypes
    <3> QED  BY <1>2, <3>1, <3>2, ReciprocalTyped
  <2> QED  BY <1>1, <1>2, <1>3, <2>1, FuseProperties
<1> HIDE DEF fused
<1>6. Take(fused, k) \in Seq(X)
  BY <1>5, TakeProperties
<1>7. fused \in Seq(Chunk)
  BY <1>1, <1>5
<1>8. DistinctIds(Take(fused, k))
  BY <1>5, <1>7, TakeDistinct
<1> QED  BY <1>4, <1>6, <1>8, Zenon DEF X, sparse

\* The same of what either retriever returns.
LEMMA FirstFoundProperties ==
  ASSUME config \in Configs, store \in Seq(Chunk), bm25 \in Seq(Chunk),
         NEW q \in Questions, NEW where, NEW k \in Nat, NEW r \in FirstFound(q, where, k)
  PROVE  r \in Seq(Allowed(where)) /\ (config.hybrid => DistinctIds(r))
<1>1. FetchK \in Nat
  BY ConstantTypes
<1>2. CASE config.hybrid
  <2>1. PICK dense \in Searches(store, q, FetchK, where), score \in Scores(q) :
          r = Hybrid(dense, BM25(bm25, score, FetchK, where), k)
    BY <1>2 DEF FirstFound
  <2>2. dense \in Seq(Allowed(where)) /\ Len(dense) <= FetchK
    BY <1>1, SearchesAllowed
  <2> QED  BY <2>1, <2>2, HybridProperties
<1>3. CASE ~config.hybrid
  <2>1. r \in Searches(store, q, k, where)
    BY <1>3 DEF FirstFound
  <2> QED  BY <1>3, <2>1, SearchesAllowed
<1> QED  BY <1>2, <1>3

\* What is retrieved for a question: chunks the filter lets through, no more than
\* top_k, each id once when the search is hybrid.
LEMMA RetrievedProperties ==
  ASSUME config \in Configs, store \in Seq(Chunk), bm25 \in Seq(Chunk),
         NEW q \in Questions, NEW where, NEW hits \in Retrieved(q, where)
  PROVE  /\ hits \in Seq(Allowed(where)) /\ Len(hits) <= TopK
         /\ config.hybrid => DistinctIds(hits)
<1> DEFINE X == Allowed(where)
<1>1. X \in SUBSET Chunk
  BY DEF Allowed
<1>2. TopK \in Nat /\ FetchK \in Nat
  BY ConstantTypes
<1>3. \A k \in Nat : \A r \in FirstFound(q, where, k) :
        r \in Seq(X) /\ (config.hybrid => DistinctIds(r))
  BY FirstFoundProperties
<1> HIDE DEF X
<1>4. CASE config.reranker
  <2>1. PICK r \in FirstFound(q, where, FetchK), score \in [Texts -> 0 .. MaxScore] :
          hits = Rerank(r, score, TopK)
    BY <1>4 DEF Retrieved
  <2>2. score \in [Texts -> Int]
    BY RetrievalTypes
  <2>3. r \in Seq(X) /\ (config.hybrid => DistinctIds(r))
    BY <1>2, <1>3
  <2>4. /\ Rerank(r, score, TopK) \in Seq(X) /\ Len(Rerank(r, score, TopK)) <= TopK
        /\ DistinctIds(r) => DistinctIds(Rerank(r, score, TopK))
    BY <1>1, <1>2, <2>2, <2>3, RerankProperties
  <2> QED  BY <2>1, <2>3, <2>4, Zenon DEF X
<1>5. CASE ~config.reranker
  <2>1. PICK r \in FirstFound(q, where, TopK) : hits = Take(r, TopK)
    BY <1>5 DEF Retrieved
  <2>2. r \in Seq(X) /\ (config.hybrid => DistinctIds(r))
    BY <1>2, <1>3
  <2>3. r \in Seq(Chunk) /\ Len(r) \in Nat
    BY <1>1, <2>2
  <2>4. /\ Take(r, TopK) \in Seq(X)
        /\ Len(Take(r, TopK)) = IF TopK <= Len(r) THEN TopK ELSE Len(r)
    BY <1>2, <2>2, TakeProperties
  <2>5. Len(Take(r, TopK)) <= TopK
    BY <1>2, <2>3, <2>4
  <2>6. DistinctIds(r) => DistinctIds(Take(r, TopK))
    BY <1>2, <2>3, TakeDistinct
  <2> QED  BY <2>1, <2>2, <2>4, <2>5, <2>6, Zenon DEF X
<1> QED  BY <1>4, <1>5

\* A relevance above zero is the cosine of a vector of the store.
LEMMA RelevanceProperties ==
  ASSUME store \in Seq(Chunk), NEW q \in Questions, NEW found
  PROVE  /\ Relevance(q, found) \in Int
         /\ Relevance(q, found) > 0 =>
              \E n \in DOMAIN found : \E t \in VectorFor(store, found[n].id) :
                Cosine[q][t] = Relevance(q, found)
<1> DEFINE near(n) == {Cosine[q][t] : t \in VectorFor(store, found[n].id)}
           all == {0} \union UNION {near(n) : n \in DOMAIN found}
<1>1. ASSUME NEW id, NEW t \in VectorFor(store, id)
      PROVE  t \in Texts
  <2> DEFINE at == {i \in DOMAIN store : store[i].id = id}
  <2>1. at # {} /\ t = store[Min(at)].text
    BY DEF VectorFor
  <2>2. at \in SUBSET Nat /\ at \subseteq DOMAIN store
    OBVIOUS
  <2> HIDE DEF at
  <2>3. Min(at) \in DOMAIN store
    BY <2>1, <2>2, MinIsLeast
  <2>4. store[Min(at)] \in Chunk
    BY <2>3
  <2> QED  BY <2>1, <2>4 DEF Chunk
<1>2. \A n \in DOMAIN found : near(n) \in SUBSET (-100 .. 100)
  BY <1>1, CosineTyped
<1>3. all \in SUBSET (-100 .. 100) /\ all # {}
  <2> HIDE DEF near
  <2>1. 0 \in -100 .. 100
    OBVIOUS
  <2> QED  BY <1>2, <2>1
<1>4. Relevance(q, found) = Max(all)
  BY Zenon DEF Relevance
<1>5. Max(all) \in all
  <2>1. -100 \in Int /\ 100 \in Int
    OBVIOUS
  <2> HIDE DEF all
  <2> QED  BY <1>3, <2>1, MaxIsGreatest, Zenon
<1>6. Max(all) \in Int
  <2> DEFINE m == Max(all)
  <2>1. m \in all
    BY <1>5
  <2> HIDE DEF all, m
  <2>2. m \in -100 .. 100
    BY <1>3, <2>1
  <2>3. m \in Int
    BY <2>2
  <2> QED  BY <2>3 DEF m
<1>7. Max(all) = 0 \/ \E n \in DOMAIN found : Max(all) \in near(n)
  <2> DEFINE m == Max(all)
  <2>1. m \in all
    BY <1>5
  <2> HIDE DEF m
  <2>2. m = 0 \/ \E n \in DOMAIN found : m \in near(n)
    BY <2>1, Zenon
  <2> QED  BY <2>2 DEF m
<1> DEFINE m == Max(all)
<1> HIDE DEF m
<1>8. m \in Int /\ Relevance(q, found) = m /\ (m = 0 \/ \E n \in DOMAIN found : m \in near(n))
  BY <1>4, <1>6, <1>7, Zenon DEF m
<1>9. m > 0 => m # 0
  OBVIOUS
<1>10. m > 0 => \E n \in DOMAIN found : \E t \in VectorFor(store, found[n].id) : Cosine[q][t] = m
  BY <1>8, <1>9, Zenon
<1> QED  BY <1>8, <1>10, Zenon

-----------------------------------------------------------------------------
(* What fits the context.                                                  *)

\* fit_to_budget's scan, a chunk at a time.
Scans == [out : Seq(Chunk), used : Int, done : BOOLEAN]
ScanStart == [out |-> <<>>, used |-> 0, done |-> FALSE]
Scanned(acc, c) ==
  CASE acc.done -> acc
    [] ~acc.done /\ acc.used + Tokens[c.text] <= MaxContext ->
         [acc EXCEPT !.out = Append(@, c), !.used = @ + Tokens[c.text]]
    [] OTHER -> [acc EXCEPT !.done = MaxContext - acc.used < MinChunk]
TokenCounts(s) == [n \in DOMAIN s |-> Tokens[s[n].text]]

\* The chunks kept are some of the first n, in their order; their tokens are
\* counted; and as long as none is kept, none of the n fits, or the first that
\* fits was kept first.
InOrderOf(out, ranked, n) ==
  \E place \in [DOMAIN out -> 1 .. n] :
    /\ \A i, j \in DOMAIN out : i < j => place[i] < place[j]
    /\ \A i \in DOMAIN out : out[i] = ranked[place[i]]
NoneFits(ranked, n) == \A k \in 1 .. n : Tokens[ranked[k].text] > MaxContext
FirstIsKept(acc, ranked, n) ==
  \/ NoneFits(ranked, n) /\ acc = ScanStart
  \/ \E k \in 1 .. n : /\ NoneFits(ranked, k - 1)
                       /\ Tokens[ranked[k].text] <= MaxContext
                       /\ acc.out # <<>> /\ acc.out[1] = ranked[k]
ScanInv(acc, ranked, n) ==
  /\ acc \in Scans
  /\ InOrderOf(acc.out, ranked, n)
  /\ acc.used = SumOf(TokenCounts(acc.out)) /\ acc.used <= MaxContext
  /\ MaxContext >= MinChunk => FirstIsKept(acc, ranked, n)

\* Before the first chunk.
LEMMA ScanBegins ==
  ASSUME NEW ranked \in Seq(Chunk)
  PROVE  ScanInv(ScanStart, ranked, 0)
<1>1. TokenCounts(<<>>) = <<>> /\ DOMAIN <<>> = {} /\ <<>> \in Seq(Chunk)
  BY DEF TokenCounts
<1>2. ScanStart \in Scans /\ ScanStart.out = <<>> /\ ScanStart.used = 0
  BY DEF ScanStart, Scans
<1>3. InOrderOf(<<>>, ranked, 0)
  <2>1. [i \in {} |-> i] \in [{} -> 1 .. 0]
    OBVIOUS
  <2> QED  BY <1>1, <2>1 DEF InOrderOf
<1>4. FirstIsKept(ScanStart, ranked, 0)
  BY DEF FirstIsKept, NoneFits
<1> QED  BY <1>1, <1>2, <1>3, <1>4, SumOfEmpty, ConstantTypes DEF ScanInv

\* A chunk more, after the others.
LEMMA InOrderMore ==
  ASSUME NEW ranked \in Seq(Chunk), NEW n \in Nat, n + 1 \in 1 .. Len(ranked),
         NEW out \in Seq(Chunk), InOrderOf(out, ranked, n)
  PROVE  /\ InOrderOf(out, ranked, n + 1)
         /\ InOrderOf(Append(out, ranked[n + 1]), ranked, n + 1)
<1> DEFINE L == Len(out)
           more == Append(out, ranked[n + 1])
<1>1. PICK place \in [DOMAIN out -> 1 .. n] :
        /\ \A i, j \in DOMAIN out : i < j => place[i] < place[j]
        /\ \A i \in DOMAIN out : out[i] = ranked[place[i]]
  BY DEF InOrderOf
<1>2. /\ L \in Nat /\ DOMAIN out = 1 .. L /\ DOMAIN more = 1 .. L + 1
      /\ more[L + 1] = ranked[n + 1] /\ \A i \in 1 .. L : more[i] = out[i]
  OBVIOUS
<1>3. InOrderOf(out, ranked, n + 1)
  <2>1. place \in [DOMAIN out -> 1 .. n + 1]
    OBVIOUS
  <2> QED  BY <1>1, <2>1 DEF InOrderOf
<1> DEFINE longer == [i \in 1 .. L + 1 |-> IF i = L + 1 THEN n + 1 ELSE place[i]]
<1>4. /\ longer \in [1 .. L + 1 -> 1 .. n + 1] /\ longer[L + 1] = n + 1
      /\ \A i \in 1 .. L : longer[i] = place[i] /\ place[i] \in 1 .. n
  <2>1. \A i \in 1 .. L : i \in 1 .. L + 1 /\ i # L + 1 /\ place[i] \in 1 .. n
    BY <1>2
  <2>2. \A i \in 1 .. L + 1 : i # L + 1 => i \in 1 .. L
    BY <1>2
  <2>3. L + 1 \in 1 .. L + 1 /\ n + 1 \in 1 .. n + 1 /\ 1 .. n \subseteq 1 .. n + 1
    BY <1>2
  <2> QED  BY <2>1, <2>2, <2>3
<1> HIDE DEF longer, more, L
<1>5. \A i, j \in 1 .. L + 1 : i < j => longer[i] < longer[j]
  <2> SUFFICES ASSUME NEW i \in 1 .. L + 1, NEW j \in 1 .. L + 1, i < j
               PROVE  longer[i] < longer[j]
    OBVIOUS
  <2>1. i \in 1 .. L /\ (j \in 1 .. L \/ j = L + 1)
    BY <1>2
  <2>2. CASE j \in 1 .. L
    <3>1. place[i] < place[j]
      BY <1>1, <1>2, <2>1, <2>2
    <3> QED  BY <1>4, <2>1, <2>2, <3>1
  <2>3. CASE j = L + 1
    <3>1. longer[i] \in 1 .. n /\ longer[j] = n + 1
      BY <1>4, <2>1, <2>3
    <3> QED  BY <3>1
  <2> QED  BY <2>1, <2>2, <2>3
<1>6. \A i \in 1 .. L + 1 : more[i] = ranked[longer[i]]
  <2> SUFFICES ASSUME NEW i \in 1 .. L + 1
               PROVE  more[i] = ranked[longer[i]]
    OBVIOUS
  <2>1. i \in 1 .. L \/ i = L + 1
    BY <1>2
  <2> QED  BY <1>1, <1>2, <1>4, <2>1
<1>7. InOrderOf(more, ranked, n + 1)
  BY <1>2, <1>4, <1>5, <1>6 DEF InOrderOf
<1> QED  BY <1>3, <1>7 DEF more

\* The tokens of a chunk more.
LEMMA CountsMore ==
  ASSUME NEW out \in Seq(Chunk), NEW c \in Chunk
  PROVE  /\ TokenCounts(out) \in Seq(Int)
         /\ TokenCounts(Append(out, c)) = Append(TokenCounts(out), Tokens[c.text])
<1>1. \A d \in Chunk : Tokens[d.text] \in Int
  BY ConstantTypes
<1>2. Len(out) \in Nat /\ DOMAIN out = 1 .. Len(out) /\ \A i \in 1 .. Len(out) : out[i] \in Chunk
  OBVIOUS
<1>3. TokenCounts(out) \in Seq(Int) /\ Len(TokenCounts(out)) = Len(out)
  BY <1>1, <1>2 DEF TokenCounts
<1> DEFINE more == Append(out, c)
           left == TokenCounts(more)
           right == Append(TokenCounts(out), Tokens[c.text])
<1>4. /\ more \in Seq(Chunk) /\ Len(more) = Len(out) + 1 /\ DOMAIN more = 1 .. Len(out) + 1
      /\ more[Len(out) + 1] = c /\ \A i \in 1 .. Len(out) : more[i] = out[i]
  OBVIOUS
<1>5. Tokens[c.text] \in Int
  BY <1>1
<1>6. /\ right \in Seq(Int) /\ Len(right) = Len(out) + 1
      /\ right[Len(out) + 1] = Tokens[c.text]
      /\ \A i \in 1 .. Len(out) : right[i] = TokenCounts(out)[i]
  BY <1>3, <1>5, AppendElements
<1> HIDE DEF more, right
<1>7. /\ left \in Seq(Int) /\ Len(left) = Len(out) + 1
      /\ \A i \in 1 .. Len(out) + 1 : left[i] = Tokens[more[i].text]
  <2>1. \A i \in 1 .. Len(out) + 1 : Tokens[more[i].text] \in Int
    BY <1>1, <1>4
  <2> QED  BY <1>2, <1>4, <2>1 DEF TokenCounts
<1> HIDE DEF left
<1>8. \A i \in 1 .. Len(left) : left[i] = right[i]
  <2> SUFFICES ASSUME NEW i \in 1 .. Len(left)
               PROVE  left[i] = right[i]
    OBVIOUS
  <2>1. i \in 1 .. Len(out) + 1 /\ (i \in 1 .. Len(out) \/ i = Len(out) + 1)
    BY <1>2, <1>7
  <2>2. left[i] = Tokens[more[i].text]
    BY <1>7, <2>1
  <2>3. CASE i \in 1 .. Len(out)
    <3>1. right[i] = TokenCounts(out)[i] /\ more[i] = out[i]
      BY <1>4, <1>6, <2>3
    <3>2. TokenCounts(out)[i] = Tokens[out[i].text]
      BY <1>2, <2>3 DEF TokenCounts
    <3> QED  BY <2>2, <3>1, <3>2
  <2>4. CASE i = Len(out) + 1
    <3>1. right[i] = Tokens[c.text] /\ more[i] = c
      BY <1>4, <1>6, <2>4
    <3> QED  BY <2>2, <3>1
  <2> QED  BY <2>1, <2>3, <2>4
<1>9. left = right
  BY <1>6, <1>7, <1>8, SeqEqual
<1> QED  BY <1>3, <1>9 DEF left, right, more

\* One chunk of the scan.
LEMMA ScanStep ==
  ASSUME NEW ranked \in Seq(Chunk), NEW n \in Nat, n + 1 \in 1 .. Len(ranked),
         NEW acc, ScanInv(acc, ranked, n)
  PROVE  ScanInv(Scanned(acc, ranked[n + 1]), ranked, n + 1)
<1> DEFINE c == ranked[n + 1]
           next == Scanned(acc, c)
<1>1. c \in Chunk /\ Tokens[c.text] \in Nat \ {0}
  BY ConstantTypes
<1>2. /\ acc \in Scans /\ InOrderOf(acc.out, ranked, n)
      /\ acc.used = SumOf(TokenCounts(acc.out)) /\ acc.used <= MaxContext
      /\ MaxContext >= MinChunk => FirstIsKept(acc, ranked, n)
  BY DEF ScanInv
<1>3. acc.out \in Seq(Chunk) /\ acc.used \in Int /\ acc.done \in BOOLEAN
  BY <1>2 DEF Scans
<1> HIDE DEF c
<1>4. InOrderOf(acc.out, ranked, n + 1) /\ InOrderOf(Append(acc.out, c), ranked, n + 1)
  BY <1>2, <1>3, InOrderMore DEF c
<1>5. \A k \in 1 .. n + 1 : k \in 1 .. n \/ k = n + 1
  OBVIOUS
<1>6. \A k \in 1 .. n : k \in 1 .. n + 1
  OBVIOUS
<1>7. CASE acc.done
  <2>1. next = acc
    BY <1>7 DEF Scanned
  <2>2. MaxContext >= MinChunk => FirstIsKept(acc, ranked, n + 1)
    <3>1. acc # ScanStart
      BY <1>7 DEF ScanStart
    <3> QED  BY <1>2, <1>6, <3>1 DEF FirstIsKept
  <2> QED  BY <1>2, <1>4, <2>1, <2>2 DEF ScanInv, c
<1>8. CASE ~acc.done /\ acc.used + Tokens[c.text] <= MaxContext
  <2>1. next = [acc EXCEPT !.out = Append(@, c), !.used = @ + Tokens[c.text]]
    BY <1>8 DEF Scanned
  <2>2. /\ next.out = Append(acc.out, c) /\ next.used = acc.used + Tokens[c.text]
        /\ next.done = acc.done /\ next \in Scans
    <3> DEFINE longer == Append(acc.out, c)
               more == acc.used + Tokens[c.text]
    <3>1. longer \in Seq(Chunk) /\ more \in Int
      BY <1>1, <1>3
    <3> HIDE DEF longer, more, next
    <3>2. next = [acc EXCEPT !.out = longer, !.used = more]
      BY <2>1, Zenon DEF longer, more
    <3>3. next.out = longer /\ next.used = more /\ next.done = acc.done /\ next \in Scans
      BY <1>2, <3>1, <3>2 DEF Scans
    <3> QED  BY <3>3, Zenon DEF longer, more
  <2>3. next.used = SumOf(TokenCounts(next.out))
    <3>1. /\ TokenCounts(acc.out) \in Seq(Int)
          /\ TokenCounts(Append(acc.out, c)) = Append(TokenCounts(acc.out), Tokens[c.text])
      BY <1>1, <1>3, CountsMore
    <3> DEFINE counts == TokenCounts(acc.out)
               tokens == Tokens[c.text]
    <3>2. counts \in Seq(Int) /\ tokens \in Int
      BY <1>1, <3>1
    <3> HIDE DEF counts, tokens
    <3>3. SumOf(Append(counts, tokens)) = SumOf(counts) + tokens
      BY <3>2, SumOfAppend
    <3> QED  BY <1>2, <2>2, <3>1, <3>3, Zenon DEF counts, tokens
  <2>4. MaxContext >= MinChunk => FirstIsKept(next, ranked, n + 1)
    <3> SUFFICES ASSUME MaxContext >= MinChunk
                 PROVE  FirstIsKept(next, ranked, n + 1)
      OBVIOUS
    <3> DEFINE out == acc.out
    <3>0. Append(out, c) # <<>> /\ (out # <<>> => Append(out, c)[1] = out[1]) /\ (out = <<>> => Append(out, c)[1] = c)
      <4>1. out \in Seq(Chunk)
        BY <1>3
      <4> HIDE DEF out
      <4> QED  BY <1>1, <4>1
    <3>1. CASE NoneFits(ranked, n) /\ acc = ScanStart
      <4>1. acc.out = <<>> /\ acc.used = 0
        BY <3>1 DEF ScanStart
      <4>2. Tokens[ranked[n + 1].text] <= MaxContext
        BY <1>1, <1>8, <4>1 DEF c
      <4>3. next.out # <<>> /\ next.out[1] = ranked[n + 1]
        BY <2>2, <3>0, <4>1 DEF c
      <4>4. (n + 1) - 1 = n /\ n + 1 \in 1 .. n + 1
        OBVIOUS
      <4> HIDE DEF next
      <4> QED  BY <3>1, <4>2, <4>3, <4>4, Zenon DEF FirstIsKept
    <3>2. CASE \E k \in 1 .. n : /\ NoneFits(ranked, k - 1)
                                 /\ Tokens[ranked[k].text] <= MaxContext
                                 /\ acc.out # <<>> /\ acc.out[1] = ranked[k]
      <4>1. next.out # <<>> /\ (acc.out # <<>> => next.out[1] = acc.out[1])
        BY <2>2, <3>0
      <4> HIDE DEF next
      <4> QED  BY <1>6, <3>2, <4>1 DEF FirstIsKept
    <3> QED  BY <1>2, <3>1, <3>2 DEF FirstIsKept
  <2>5. next.used <= MaxContext
    BY <1>8, <2>2
  <2>6. InOrderOf(next.out, ranked, n + 1)
    BY <1>4, <2>2, Zenon
  <2> HIDE DEF next
  <2>7. ScanInv(next, ranked, n + 1)
    BY <2>2, <2>3, <2>4, <2>5, <2>6 DEF ScanInv
  <2> QED  BY <2>7 DEF next, c
<1>9. CASE ~acc.done /\ ~(acc.used + Tokens[c.text] <= MaxContext)
  <2>1. next = [acc EXCEPT !.done = MaxContext - acc.used < MinChunk]
    BY <1>9 DEF Scanned
  <2>2. next.out = acc.out /\ next.used = acc.used /\ next \in Scans
    <3> DEFINE full == MaxContext - acc.used < MinChunk
    <3>1. full \in BOOLEAN
      OBVIOUS
    <3> HIDE DEF full, next
    <3>2. next = [acc EXCEPT !.done = full]
      BY <2>1, Zenon DEF full
    <3> QED  BY <1>2, <3>1, <3>2, Zenon DEF Scans
  <2>3. MaxContext >= MinChunk => FirstIsKept(next, ranked, n + 1)
    <3> SUFFICES ASSUME MaxContext >= MinChunk
                 PROVE  FirstIsKept(next, ranked, n + 1)
      OBVIOUS
    <3>1. CASE NoneFits(ranked, n) /\ acc = ScanStart
      <4>1. acc.used = 0 /\ acc.done = FALSE
        BY <3>1 DEF ScanStart
      <4>2. Tokens[ranked[n + 1].text] > MaxContext
        BY <1>1, <1>9, <4>1, ConstantTypes DEF c
      <4>3. NoneFits(ranked, n + 1)
        BY <1>5, <3>1, <4>2 DEF NoneFits
      <4>4. (MaxContext - acc.used < MinChunk) = FALSE
        BY <4>1, ConstantTypes
      <4>5. next = [acc EXCEPT !.done = FALSE]
        BY <2>1, <4>4
      <4>6. next = ScanStart
        BY <3>1, <4>5 DEF ScanStart
      <4> QED  BY <4>3, <4>6, Zenon DEF FirstIsKept
    <3>2. CASE \E k \in 1 .. n : /\ NoneFits(ranked, k - 1)
                                 /\ Tokens[ranked[k].text] <= MaxContext
                                 /\ acc.out # <<>> /\ acc.out[1] = ranked[k]
      <4> HIDE DEF next
      <4> QED  BY <1>6, <2>2, <3>2 DEF FirstIsKept
    <3> QED  BY <1>2, <3>1, <3>2 DEF FirstIsKept
  <2>4. InOrderOf(next.out, ranked, n + 1)
    BY <1>4, <2>2, Zenon
  <2>5. next.used = SumOf(TokenCounts(next.out)) /\ next.used <= MaxContext
    BY <1>2, <2>2, Zenon
  <2> HIDE DEF next
  <2>6. ScanInv(next, ranked, n + 1)
    BY <2>2, <2>3, <2>4, <2>5 DEF ScanInv
  <2> QED  BY <2>6 DEF next, c
<1>10. acc.done \/ ~acc.done
  OBVIOUS
<1> QED  BY <1>7, <1>8, <1>9, <1>10

\* A chunk scanned leaves a state of the scan.
LEMMA ScannedTyped ==
  ASSUME NEW acc \in Scans, NEW c \in Chunk
  PROVE  Scanned(acc, c) \in Scans
<1> DEFINE longer == Append(acc.out, c)
           more == acc.used + Tokens[c.text]
           full == MaxContext - acc.used < MinChunk
<1>1. acc.out \in Seq(Chunk) /\ acc.used \in Int /\ acc.done \in BOOLEAN
  BY DEF Scans
<1>2. longer \in Seq(Chunk) /\ more \in Int /\ full \in BOOLEAN
  BY <1>1, ConstantTypes
<1>3. Scanned(acc, c) \in {acc, [acc EXCEPT !.out = longer, !.used = more], [acc EXCEPT !.done = full]}
  BY DEF Scanned
<1> HIDE DEF longer, more, full
<1> QED  BY <1>2, <1>3 DEF Scans

FitsTo(g, ranked) ==
  /\ g[0] = ScanStart
  /\ \A n \in 1 .. Len(ranked) : g[n] = Scanned(g[n - 1], ranked[n])
  /\ FitToBudget(ranked) = g[Len(ranked)].out

\* fit_to_budget is its scan.
LEMMA FitToBudgetIs ==
  ASSUME NEW ranked \in Seq(Chunk)
  PROVE  \E g : FitsTo(g, ranked)
<1> DEFINE L == Len(ranked)
           IsFit(f) == f = [S \in SUBSET DOMAIN ranked |->
                              IF S = {} THEN ScanStart ELSE Scanned(f[S \ {Max(S)}], ranked[Max(S)])]
           F == CHOOSE f : IsFit(f)
           step == [p \in Scans \X (1 .. L) |-> Scanned(p[1], ranked[p[2]])]
<1>1. L \in Nat /\ DOMAIN ranked = 1 .. L /\ \A n \in 1 .. L : ranked[n] \in Chunk
  OBVIOUS
<1>2. FitToBudget(ranked) = F[DOMAIN ranked].out
  BY Zenon DEF FitToBudget, FoldLeft, MapThenFoldSet, Scanned, ScanStart
<1>3. step \in [Scans \X (1 .. L) -> Scans]
  BY <1>1, ScannedTyped
<1>4. PICK f \in [SUBSET (1 .. L) -> Scans] : FoldsTo(f, ScanStart, step, L)
  <2> HIDE DEF step, L
  <2>1. ScanStart \in Scans
    BY DEF ScanStart, Scans
  <2>2. CanFold(Scans, ScanStart, step, L)
    BY <1>1, <1>3, <2>1, FoldExists
  <2> QED  BY <2>2 DEF CanFold
<1>5. ASSUME NEW S \in SUBSET (1 .. L)
      PROVE  f[S] = IF S = {} THEN ScanStart ELSE Scanned(f[S \ {Max(S)}], ranked[Max(S)])
  <2>1. f[S] = IF S = {} THEN ScanStart ELSE step[<<f[S \ {Max(S)}], Max(S)>>]
    BY <1>4 DEF FoldsTo
  <2>2. CASE S # {}
    <3>1. Max(S) \in 1 .. L
      <4>1. 1 \in Int /\ L \in Int
        BY <1>1
      <4>2. Max(S) \in S
        BY <2>2, <4>1, MaxIsGreatest
      <4> QED  BY <4>2
    <3>2. S \ {Max(S)} \in SUBSET (1 .. L)
      OBVIOUS
    <3>3. f[S \ {Max(S)}] \in Scans
      BY <3>2
    <3> DEFINE x == f[S \ {Max(S)}]
               m == Max(S)
    <3>4. step[<<x, m>>] = Scanned(x, ranked[m])
      <4>1. x \in Scans /\ m \in 1 .. L
        BY <3>1, <3>3
      <4> HIDE DEF x, m
      <4> QED  BY <4>1
    <3> QED  BY <2>1, <2>2, <3>4, Zenon
  <2> QED  BY <2>1, <2>2, Zenon
<1>6. IsFit(f)
  <2>1. f = [S \in SUBSET (1 .. L) |-> f[S]]
    BY <1>4
  <2> QED  BY <1>1, <1>5, <2>1, Zenon
<1>7. IsFit(F)
  BY <1>6, Zenon
<1>8. \A S \in SUBSET (1 .. L) :
        F[S] = IF S = {} THEN ScanStart ELSE Scanned(F[S \ {Max(S)}], ranked[Max(S)])
  BY <1>1, <1>7, Zenon
<1> HIDE DEF F, step
<1> DEFINE g == [n \in 0 .. L |-> F[1 .. n]]
<1>9. F[1 .. 0] = ScanStart
  <2>1. 1 .. 0 = {}
    OBVIOUS
  <2> QED  BY <1>8, <2>1, Zenon
<1>10. \A n \in 1 .. L : F[1 .. n] = Scanned(F[1 .. n - 1], ranked[n])
  <2> SUFFICES ASSUME NEW n \in 1 .. L
               PROVE  F[1 .. n] = Scanned(F[1 .. n - 1], ranked[n])
    OBVIOUS
  <2>1. n \in Nat \ {0} /\ 1 .. n \in SUBSET (1 .. L)
    BY <1>1
  <2>2. Max(1 .. n) = n /\ (1 .. n) \ {n} = 1 .. n - 1 /\ 1 .. n # {}
    BY <2>1, LastPosition
  <2> QED  BY <1>8, <2>1, <2>2, Zenon
<1>11. \A n \in 0 .. L : g[n] = F[1 .. n]
  OBVIOUS
<1>12. \A n \in 1 .. L : n \in 0 .. L /\ n - 1 \in 0 .. L
  BY <1>1
<1>13. 0 \in 0 .. L /\ L \in 0 .. L
  BY <1>1
<1> HIDE DEF g
<1>14. FitsTo(g, ranked)
  BY <1>1, <1>2, <1>9, <1>10, <1>11, <1>12, <1>13, Zenon DEF FitsTo
<1> QED  BY <1>14

\* What fit_to_budget returns: chunks of the ranking in its order, within the
\* budget, the first of them the first that fits.
LEMMA FitToBudgetProperties ==
  ASSUME NEW ranked \in Seq(Chunk)
  PROVE  LET out == FitToBudget(ranked)
         IN  /\ out \in Seq(Chunk) /\ InOrderOf(out, ranked, Len(ranked))
             /\ SumOf(TokenCounts(out)) <= MaxContext
             /\ MaxContext >= MinChunk =>
                  \/ NoneFits(ranked, Len(ranked))
                  \/ \E k \in 1 .. Len(ranked) :
                       /\ NoneFits(ranked, k - 1) /\ Tokens[ranked[k].text] <= MaxContext
                       /\ out # <<>> /\ out[1] = ranked[k]
<1> DEFINE L == Len(ranked)
<1>1. L \in Nat
  OBVIOUS
<1>2. PICK g : FitsTo(g, ranked)
  BY FitToBudgetIs
<1> DEFINE N == {n \in Nat : n <= L => ScanInv(g[n], ranked, n)}
<1>3. 0 \in N
  BY <1>2, ScanBegins DEF FitsTo
<1>4. ASSUME NEW n \in Nat, n \in N
      PROVE  n + 1 \in N
  <2> SUFFICES ASSUME n + 1 <= L
               PROVE  ScanInv(g[n + 1], ranked, n + 1)
    OBVIOUS
  <2>1. n + 1 \in 1 .. L /\ (n + 1) - 1 = n /\ ScanInv(g[n], ranked, n)
    BY <1>4
  <2>2. g[n + 1] = Scanned(g[n], ranked[n + 1])
    BY <1>2, <2>1 DEF FitsTo
  <2> QED  BY <2>1, <2>2, ScanStep
<1>5. Nat \subseteq N
  <2> HIDE DEF N
  <2> QED  BY <1>3, <1>4, SetInduction
<1>6. ScanInv(g[L], ranked, L)
  <2>1. L \in N
    <3> HIDE DEF N, L
    <3> QED  BY <1>1, <1>5
  <2> QED  BY <1>1, <2>1
<1>7. FitToBudget(ranked) = g[L].out
  BY <1>2 DEF FitsTo
<1> DEFINE acc == g[L]
<1> HIDE DEF acc, L
<1>8. /\ acc.out \in Seq(Chunk) /\ InOrderOf(acc.out, ranked, L)
      /\ SumOf(TokenCounts(acc.out)) <= MaxContext
      /\ MaxContext >= MinChunk => FirstIsKept(acc, ranked, L)
  BY <1>6 DEF ScanInv, acc, Scans
<1>9. FirstIsKept(acc, ranked, L) =>
        \/ NoneFits(ranked, L)
        \/ \E k \in 1 .. L : /\ NoneFits(ranked, k - 1) /\ Tokens[ranked[k].text] <= MaxContext
                             /\ acc.out # <<>> /\ acc.out[1] = ranked[k]
  BY DEF FirstIsKept
<1>10. FitToBudget(ranked) = acc.out
  BY <1>7 DEF acc
<1> QED  BY <1>8, <1>9, <1>10, Zenon DEF L

-----------------------------------------------------------------------------
(* What an answer rests on.                                                *)

\* What an answer rests on, and the state it is made in.
AnswersInv ==
  /\ config \in Configs /\ store \in Seq(Chunk)
  /\ OnlyAllowedSources /\ GroundedAnswer

\* What was sent keeps the order of what was found, and so repeats no id that was
\* not repeated there.
LEMMA InOrderDistinct ==
  ASSUME NEW found \in Seq(Chunk), NEW sent \in Seq(Chunk), InOrderOf(sent, found, Len(found)),
         DistinctIds(found)
  PROVE  DistinctIds(sent)
<1>1. PICK place \in [DOMAIN sent -> 1 .. Len(found)] :
        /\ \A i, j \in DOMAIN sent : i < j => place[i] < place[j]
        /\ \A i \in DOMAIN sent : sent[i] = found[place[i]]
  BY DEF InOrderOf
<1> SUFFICES ASSUME NEW i \in DOMAIN sent, NEW j \in DOMAIN sent, sent[i].id = sent[j].id
             PROVE  i = j
  BY DEF DistinctIds
<1>2. i \in Nat /\ j \in Nat /\ DOMAIN found = 1 .. Len(found)
  OBVIOUS
<1>3. place[i] \in DOMAIN found /\ place[j] \in DOMAIN found /\ place[i] \in Nat
  BY <1>1, <1>2
<1>4. place[i] = place[j]
  BY <1>1, <1>3 DEF DistinctIds
<1>5. ~(i < j) /\ ~(j < i)
  BY <1>1, <1>3, <1>4
<1> QED  BY <1>2, <1>5

\* A reply made of what is retrieved keeps both promises.
LEMMA ReplyGrounded ==
  ASSUME config \in Configs, store \in Seq(Chunk), bm25 \in Seq(Chunk),
         NEW q \in Questions, NEW where, NEW hits \in Retrieved(q, where),
         config' = config, store' = store, answer' = Reply(q, where, hits)
  PROVE  OnlyAllowedSources' /\ GroundedAnswer'
<1> DEFINE sent == FitToBudget(hits)
           fits == {n \in DOMAIN hits : Tokens[hits[n].text] <= MaxContext}
<1>1. /\ hits \in Seq(Allowed(where)) /\ Len(hits) <= TopK
      /\ config.hybrid => DistinctIds(hits)
  BY RetrievedProperties
<1>2. hits \in Seq(Chunk) /\ Len(hits) \in Nat /\ DOMAIN hits = 1 .. Len(hits)
  <2>1. Allowed(where) \in SUBSET Chunk
    BY DEF Allowed
  <2> QED  BY <1>1, <2>1
<1>3. OnlyAllowedSources'
  <2>1. answer'.retrieved = hits /\ answer'.where = where
    BY DEF Reply
  <2>2. \A n \in DOMAIN hits : hits[n].source \in where
    <3>1. \A n \in DOMAIN hits : hits[n] \in Allowed(where)
      BY <1>1
    <3> QED  BY <3>1 DEF Allowed
  <2> QED  BY <2>1, <2>2, Zenon DEF OnlyAllowedSources
<1>4. CASE Refuses(q, hits)
  <2>1. answer'.outcome = "refused"
    BY <1>4 DEF Reply
  <2> QED  BY <1>3, <2>1 DEF GroundedAnswer
<1>5. CASE ~Refuses(q, hits)
  <2>1. /\ answer'.retrieved = hits /\ answer'.sources = sent /\ answer'.question = q
    BY <1>5 DEF Reply
  <2>2. MinScore > 0 => \E n \in DOMAIN hits : \E t \in VectorFor(store, hits[n].id) :
                          Cosine[q][t] >= MinScore
    <3> SUFFICES ASSUME MinScore > 0
                 PROVE  \E n \in DOMAIN hits : \E t \in VectorFor(store, hits[n].id) :
                          Cosine[q][t] >= MinScore
      OBVIOUS
    <3> DEFINE best == Relevance(q, hits)
    <3>1. /\ best \in Int
          /\ best > 0 => \E n \in DOMAIN hits : \E t \in VectorFor(store, hits[n].id) :
                           Cosine[q][t] = best
      BY RelevanceProperties
    <3>2. ~(best < MinScore)
      BY <1>5 DEF Refuses
    <3> HIDE DEF best
    <3>3. MinScore \in Int
      BY RAGTypes
    <3>4. best > 0 /\ best >= MinScore
      BY <3>1, <3>2, <3>3
    <3> QED  BY <3>1, <3>4
  <2>3. /\ sent \in Seq(Chunk) /\ InOrderOf(sent, hits, Len(hits))
        /\ SumOf(TokenCounts(sent)) <= MaxContext
        /\ MaxContext >= MinChunk =>
             \/ NoneFits(hits, Len(hits))
             \/ \E k \in 1 .. Len(hits) :
                  /\ NoneFits(hits, k - 1) /\ Tokens[hits[k].text] <= MaxContext
                  /\ sent # <<>> /\ sent[1] = hits[k]
    BY <1>2, FitToBudgetProperties
  <2> HIDE DEF sent
  <2>4. config.hybrid => \A i, j \in DOMAIN sent : sent[i].id = sent[j].id => i = j
    <3>1. config.hybrid => DistinctIds(sent)
      BY <1>1, <1>2, <2>3, InOrderDistinct
    <3> QED  BY <3>1 DEF DistinctIds
  <2>5. \E place \in [DOMAIN sent -> DOMAIN hits] :
          /\ \A i, j \in DOMAIN sent : i < j => place[i] < place[j]
          /\ \A i \in DOMAIN sent : sent[i] = hits[place[i]]
    BY <1>2, <2>3 DEF InOrderOf
  <2>6. SumOf([n \in DOMAIN sent |-> Tokens[sent[n].text]]) <= MaxContext
    BY <2>3 DEF TokenCounts
  <2>7. MaxContext >= MinChunk /\ fits # {} => sent # <<>> /\ sent[1] = hits[Min(fits)]
    <3> SUFFICES ASSUME MaxContext >= MinChunk, NEW i \in fits
                 PROVE  sent # <<>> /\ sent[1] = hits[Min(fits)]
      OBVIOUS
    <3>1. \A n \in DOMAIN hits : Tokens[hits[n].text] \in Nat
      BY <1>2, ConstantTypes
    <3>2. MaxContext \in Nat
      BY ConstantTypes
    <3>3. i \in DOMAIN hits /\ Tokens[hits[i].text] <= MaxContext
      OBVIOUS
    <3>4. ~NoneFits(hits, Len(hits))
      BY <1>2, <3>1, <3>2, <3>3 DEF NoneFits
    <3>5. PICK k \in 1 .. Len(hits) :
            /\ NoneFits(hits, k - 1) /\ Tokens[hits[k].text] <= MaxContext
            /\ sent # <<>> /\ sent[1] = hits[k]
      BY <2>3, <3>4
    <3>6. fits \in SUBSET Nat /\ k \in fits
      BY <1>2, <3>5
    <3>7. ASSUME NEW n \in fits
          PROVE  k <= n
      <4>1. n \in DOMAIN hits /\ Tokens[hits[n].text] <= MaxContext
        OBVIOUS
      <4>2. n \in 1 .. Len(hits) /\ ~(Tokens[hits[n].text] > MaxContext)
        BY <1>2, <3>1, <3>2, <4>1
      <4>3. n \notin 1 .. k - 1
        BY <3>5, <4>2 DEF NoneFits
      <4> QED  BY <4>2, <4>3
    <3> HIDE DEF fits
    <3>8. Min(fits) \in fits /\ \A x \in fits : Min(fits) <= x
      BY <3>6, MinIsLeast
    <3>9. Min(fits) = k
      <4> DEFINE m == Min(fits)
      <4>1. m \in Nat /\ k \in Nat /\ k <= m /\ m <= k
        BY <3>6, <3>7, <3>8
      <4> HIDE DEF m
      <4>2. m = k
        BY <4>1
      <4> QED  BY <4>2 DEF m
    <3> QED  BY <3>5, <3>9
  <2> HIDE DEF fits
  <2>8. Grounded(q, hits, sent, store, config.hybrid)
    BY <1>1, <2>2, <2>4, <2>5, <2>6, <2>7 DEF Grounded, fits
  <2> QED  BY <1>3, <2>1, <2>8, Zenon DEF GroundedAnswer
<1> QED  BY <1>3, <1>4, <1>5

\* A delete leaves chunks in the store.
LEMMA DeleteTyped ==
  ASSUME store \in Seq(Chunk), NEW source, Delete(source)
  PROVE  store' \in Seq(Chunk)
<1> DEFINE seqs == [n \in DOMAIN store |-> IF store[n].source = source THEN <<>> ELSE <<store[n]>>]
<1>1. \A n \in 1 .. Len(store) :
        (IF store[n].source = source THEN <<>> ELSE <<store[n]>>) \in Seq(Chunk)
  OBVIOUS
<1>2. seqs \in Seq(Seq(Chunk))
  <2>1. Len(store) \in Nat /\ DOMAIN store = 1 .. Len(store)
    OBVIOUS
  <2>2. \A n \in 1 .. Len(store) : seqs[n] \in Seq(Chunk)
    BY <1>1, <2>1
  <2>3. seqs = [n \in 1 .. Len(store) |-> seqs[n]]
    BY <2>1
  <2> HIDE DEF seqs
  <2> QED  BY <2>1, <2>2, <2>3
<1>3. store' = FlattenSeq(seqs)
  BY Zenon DEF Delete
<1> HIDE DEF seqs
<1>4. FlattenSeq(seqs) \in Seq(Chunk)
  BY <1>2, FlattenSeqProperties
<1> QED  BY <1>3, <1>4, Zenon

\* Only an answer can break the promises, and none does.
LEMMA AnswersInductive == RAGInv /\ AnswersInv /\ [RAGNext]_ragvars => AnswersInv'
<1> SUFFICES ASSUME RAGInv, AnswersInv, [RAGNext]_ragvars
             PROVE  AnswersInv'
  OBVIOUS
<1>1. config \in Configs /\ store \in Seq(Chunk) /\ bm25 \in Seq(Chunk)
  BY DEF AnswersInv, RAGInv
<1>2. ASSUME config' = config, store' \in Seq(Chunk), answer' = NoAnswer
      PROVE  AnswersInv'
  BY <1>1, <1>2 DEF AnswersInv, OnlyAllowedSources, GroundedAnswer
<1>3. ASSUME NEW documents \in Batches, Ingest(documents)
      PROVE  AnswersInv'
  <2>1. Fresh(documents) \in Seq(Chunk)
    BY FreshProperties
  <2>2. store \o Fresh(documents) \in Seq(Chunk)
    BY <1>1, <2>1, ConcatElements
  <2>3. CASE Ingested(documents, Fresh(documents))
    BY <1>2, <2>2, <2>3 DEF Ingested
  <2>4. CASE EmbeddingFailed(documents, Fresh(documents))
    BY <1>1, <1>2, <2>4 DEF EmbeddingFailed
  <2> QED  BY <1>3, <2>3, <2>4 DEF Ingest
<1>4. ASSUME NEW s \in Sources, Delete(s)
      PROVE  AnswersInv'
  <2>1. store' \in Seq(Chunk)
    BY <1>1, <1>4, DeleteTyped
  <2> QED  BY <1>2, <1>4, <2>1 DEF Delete
<1>5. ASSUME NEW q \in Questions, NEW where \in Filters, Answer(q, where)
      PROVE  AnswersInv'
  <2>1. config' = config /\ store' = store
    BY <1>5 DEF Answer
  <2>2. CASE \E hits \in Retrieved(q, where) : answer' = Reply(q, where, hits)
    <3>1. PICK hits \in Retrieved(q, where) : answer' = Reply(q, where, hits)
      BY <2>2
    <3>2. OnlyAllowedSources' /\ GroundedAnswer'
      BY <1>1, <2>1, <3>1, ReplyGrounded
    <3> QED  BY <1>1, <2>1, <3>2 DEF AnswersInv
  <2>3. CASE Raised(q, where)
    <3>1. answer'.retrieved = <<>> /\ answer'.outcome = "raised"
      BY <2>3 DEF Raised
    <3>2. OnlyAllowedSources' /\ GroundedAnswer'
      BY <3>1 DEF OnlyAllowedSources, GroundedAnswer
    <3> QED  BY <1>1, <2>1, <3>2 DEF AnswersInv
  <2> QED  BY <1>5, <2>2, <2>3 DEF Answer
<1>6. CASE UNCHANGED ragvars
  BY <1>6 DEF ragvars, AnswersInv, OnlyAllowedSources, GroundedAnswer
<1> QED  BY <1>3, <1>4, <1>5, <1>6 DEF RAGNext

\* Both invariants of the pipeline hold.
LEMMA RAGAlways == RAGSpec => [](RAGInv /\ AnswersInv)
<1>1. RAGInit => RAGInv /\ AnswersInv
  BY DEF RAGInit, RAGInv, SkippedIsIndexed, AnswersInv, OnlyAllowedSources, GroundedAnswer
<1> QED  BY <1>1, RAGInductive, AnswersInductive, PTL DEF RAGSpec

\* tenant_filter (vectorstore.py:76): for any chunks, scores and order of calls, a
\* filtered question is answered from no chunk the filter excludes.
THEOREM TenantsAreFiltered == RAGSpec => []OnlyAllowedSources
<1>1. RAGInv /\ AnswersInv => OnlyAllowedSources
  BY DEF AnswersInv
<1> QED  BY <1>1, RAGAlways, PTL

\* RAGPipeline.query: for any settings, retriever's scores and budget, an answer
\* that is not a refusal rests on a chunk that passes min_score, and cites the
\* chunks that fit, in their order, from the first that does.
THEOREM AnswersAreGrounded == RAGSpec => []GroundedAnswer
<1>1. RAGInv /\ AnswersInv => GroundedAnswer
  BY DEF AnswersInv
<1> QED  BY <1>1, RAGAlways, PTL

-----------------------------------------------------------------------------
(* What the scorecard makes of an answer's sources.                        *)

\* What the ranks of a set gain, of the first m: the sum SumFunctionOnSet makes.
GainOf(s, m) == SumOf([rank \in 1 .. m |-> IF rank \in s THEN Gain[rank] ELSE 0])

\* A gain is positive, and no rank gains more than one before it.
LEMMA GainTyped ==
  /\ Len(Gain) \in Nat /\ DOMAIN Gain = 1 .. Len(Gain)
  /\ \A r \in 1 .. Len(Gain) : Gain[r] \in Nat \ {0}
  /\ \A r, s \in 1 .. Len(Gain) : r < s => Gain[r] >= Gain[s]
<1>1. Gain \in Seq(Nat \ {0}) /\ \A r, s \in DOMAIN Gain : r < s => Gain[r] >= Gain[s]
  BY RAGAssumption, Zenon
<1> QED  BY <1>1

\* One rank more.
LEMMA GainOfNext ==
  ASSUME NEW s, NEW m \in Nat, m + 1 <= Len(Gain)
  PROVE  /\ GainOf(s, 0) = 0 /\ GainOf(s, m) \in Int
         /\ GainOf(s, m + 1) = GainOf(s, m) + (IF m + 1 \in s THEN Gain[m + 1] ELSE 0)
<1> DEFINE term == [rank \in 1 .. m + 1 |-> IF rank \in s THEN Gain[rank] ELSE 0]
           first == [rank \in 1 .. m |-> IF rank \in s THEN Gain[rank] ELSE 0]
           longer == Append(first, term[m + 1])
<1>1. Len(Gain) \in Nat /\ \A r \in 1 .. Len(Gain) : Gain[r] \in Nat
  BY GainTyped
<1>2. GainOf(s, 0) = 0
  <2>1. [rank \in 1 .. 0 |-> IF rank \in s THEN Gain[rank] ELSE 0] = <<>>
    OBVIOUS
  <2> QED  BY <2>1, SumOfEmpty DEF GainOf
<1>3. /\ term \in Seq(Int) /\ Len(term) = m + 1
      /\ term[m + 1] = IF m + 1 \in s THEN Gain[m + 1] ELSE 0
      /\ \A r \in 1 .. m : term[r] = IF r \in s THEN Gain[r] ELSE 0
  <2>1. \A r \in 1 .. m + 1 : r \in 1 .. Len(Gain) /\ (IF r \in s THEN Gain[r] ELSE 0) \in Int
    BY <1>1
  <2> QED  BY <2>1
<1>4. /\ first \in Seq(Int) /\ Len(first) = m
      /\ \A r \in 1 .. m : first[r] = IF r \in s THEN Gain[r] ELSE 0
  <2>1. \A r \in 1 .. m : r \in 1 .. Len(Gain) /\ (IF r \in s THEN Gain[r] ELSE 0) \in Int
    BY <1>1
  <2> QED  BY <2>1
<1>5. GainOf(s, m) = SumOf(first) /\ GainOf(s, m + 1) = SumOf(term)
  BY Zenon DEF GainOf
<1>6. term[m + 1] \in Int
  BY <1>3
<1> HIDE DEF term, first
<1>7. /\ longer \in Seq(Int) /\ Len(longer) = m + 1 /\ longer[m + 1] = term[m + 1]
      /\ \A r \in 1 .. m : longer[r] = first[r]
  BY <1>4, <1>6
<1>8. SumOf(first) \in Int /\ SumOf(longer) = SumOf(first) + term[m + 1]
  BY <1>4, <1>6, SumOfAppend
<1> HIDE DEF longer
<1>9. term = longer
  <2>1. \A r \in 1 .. m + 1 : term[r] = longer[r]
    <3>1. \A r \in 1 .. m + 1 : r \in 1 .. m \/ r = m + 1
      OBVIOUS
    <3> QED  BY <1>3, <1>4, <1>7, <3>1
  <2> QED  BY <1>3, <1>7, <2>1, SeqEqual
<1> QED  BY <1>2, <1>3, <1>5, <1>8, <1>9

\* One rank less.
LEMMA GainOfRest ==
  ASSUME NEW s, NEW x \in s, x \in 1 .. Len(Gain)
  PROVE  GainOf(s, Len(Gain)) = Gain[x] + GainOf(s \ {x}, Len(Gain))
<1> DEFINE N == Len(Gain)
           rest == s \ {x}
           S == {m \in Nat : m <= N =>
                   GainOf(s, m) = GainOf(rest, m) + (IF x <= m THEN Gain[x] ELSE 0)}
<1>1. N \in Nat /\ x \in Nat \ {0} /\ x <= N /\ \A r \in 1 .. N : Gain[r] \in Nat
  BY GainTyped
<1>2. \A r : r \in rest <=> r \in s /\ r # x
  OBVIOUS
<1> HIDE DEF rest, N
<1>3. 0 \in S
  <2>1. GainOf(s, 0) = 0 /\ GainOf(rest, 0) = 0
    <3>1. 0 \in Nat /\ 0 + 1 <= N
      BY <1>1
    <3> QED  BY <3>1, GainOfNext DEF N
  <2>2. ~(x <= 0)
    BY <1>1
  <2> QED  BY <2>1, <2>2
<1>4. ASSUME NEW m \in Nat, m \in S
      PROVE  m + 1 \in S
  <2> SUFFICES ASSUME m + 1 <= N
               PROVE  GainOf(s, m + 1) =
                        GainOf(rest, m + 1) + (IF x <= m + 1 THEN Gain[x] ELSE 0)
    OBVIOUS
  <2>1. /\ GainOf(s, m) \in Int /\ GainOf(rest, m) \in Int
        /\ GainOf(s, m + 1) = GainOf(s, m) + (IF m + 1 \in s THEN Gain[m + 1] ELSE 0)
        /\ GainOf(rest, m + 1) = GainOf(rest, m) + (IF m + 1 \in rest THEN Gain[m + 1] ELSE 0)
    BY GainOfNext DEF N
  <2>2. GainOf(s, m) = GainOf(rest, m) + (IF x <= m THEN Gain[x] ELSE 0)
    BY <1>1, <1>4
  <2>3. m + 1 \in 1 .. N /\ Gain[m + 1] \in Nat /\ Gain[x] \in Nat
    BY <1>1
  <2>4. CASE x = m + 1
    <3>1. m + 1 \in s /\ m + 1 \notin rest /\ ~(x <= m)
      BY <1>2, <2>4
    <3> QED  BY <2>1, <2>2, <2>3, <2>4, <3>1
  <2>5. CASE x # m + 1
    <3>1. (m + 1 \in s <=> m + 1 \in rest) /\ (x <= m + 1 <=> x <= m)
      BY <1>1, <1>2, <2>5
    <3> QED  BY <2>1, <2>2, <2>3, <3>1
  <2> QED  BY <2>4, <2>5
<1>5. Nat \subseteq S
  <2> HIDE DEF S
  <2> QED  BY <1>3, <1>4, SetInduction
<1>6. GainOf(s, N) = GainOf(rest, N) + Gain[x]
  BY <1>1, <1>5
<1>7. GainOf(rest, N) \in Int
  <2>1. N - 1 \in Nat /\ (N - 1) + 1 = N /\ N \in 1 .. N
    BY <1>1
  <2> DEFINE m == N - 1
  <2>2. m \in Nat /\ m + 1 = N /\ m + 1 \in 1 .. N
    BY <2>1
  <2> HIDE DEF m
  <2>3. /\ GainOf(rest, m) \in Int
        /\ GainOf(rest, m + 1) = GainOf(rest, m) + (IF m + 1 \in rest THEN Gain[m + 1] ELSE 0)
    BY <1>1, <2>2, GainOfNext DEF N
  <2>4. Gain[m + 1] \in Nat
    BY <1>1, <2>2
  <2> QED  BY <2>2, <2>3, <2>4
<1>8. Gain[x] \in Nat
  BY <1>1
<1> QED  BY <1>6, <1>7, <1>8 DEF N, rest

\* A gain is a natural number, and none without a rank.
LEMMA GainIsPositive ==
  ASSUME NEW s, NEW m \in Nat, m <= Len(Gain)
  PROVE  /\ GainOf(s, m) \in Nat
         /\ GainOf(s, m) = 0 <=> \A r \in 1 .. m : r \notin s
<1> DEFINE S == {k \in Nat : k <= m =>
                   /\ GainOf(s, k) \in Nat
                   /\ GainOf(s, k) = 0 <=> \A r \in 1 .. k : r \notin s}
<1>1. Len(Gain) \in Nat /\ \A r \in 1 .. Len(Gain) : Gain[r] \in Nat \ {0}
  BY GainTyped
<1>2. 0 \in S
  <2>1. GainOf(s, 0) = 0
    <3>1. [rank \in 1 .. 0 |-> IF rank \in s THEN Gain[rank] ELSE 0] = <<>>
      OBVIOUS
    <3> QED  BY <3>1, SumOfEmpty DEF GainOf
  <2> QED  BY <2>1
<1>3. ASSUME NEW k \in Nat, k \in S
      PROVE  k + 1 \in S
  <2> SUFFICES ASSUME k + 1 <= m
               PROVE  /\ GainOf(s, k + 1) \in Nat
                      /\ GainOf(s, k + 1) = 0 <=> \A r \in 1 .. k + 1 : r \notin s
    OBVIOUS
  <2>1. k + 1 <= Len(Gain) /\ k + 1 \in 1 .. Len(Gain)
    BY <1>1
  <2>2. GainOf(s, k + 1) = GainOf(s, k) + (IF k + 1 \in s THEN Gain[k + 1] ELSE 0)
    BY <2>1, GainOfNext
  <2>3. GainOf(s, k) \in Nat /\ (GainOf(s, k) = 0 <=> \A r \in 1 .. k : r \notin s)
    BY <1>3
  <2>4. \A r : r \in 1 .. k + 1 <=> r \in 1 .. k \/ r = k + 1
    OBVIOUS
  <2>5. Gain[k + 1] \in Nat \ {0}
    BY <1>1, <2>1
  <2> QED  BY <2>2, <2>3, <2>4, <2>5
<1>4. Nat \subseteq S
  <2> HIDE DEF S
  <2> QED  BY <1>2, <1>3, SetInduction
<1> QED  BY <1>4

\* A set of ranks is finite.
LEMMA RanksFinite ==
  ASSUME NEW s \in SUBSET (1 .. Len(Gain))
  PROVE  IsFiniteSet(s) /\ Cardinality(s) \in Nat
<1>1. 1 \in Int /\ Len(Gain) \in Int
  BY GainTyped
<1>2. IsFiniteSet(1 .. Len(Gain))
  BY <1>1, FS_Interval
<1>3. IsFiniteSet(s)
  BY <1>2, FS_Subset
<1> QED  BY <1>3, FS_CardinalityType

\* The best ranks gain at least what as many others do.
LEMMA FirstGainMost ==
  ASSUME NEW s \in SUBSET (1 .. Len(Gain))
  PROVE  GainOf(s, Len(Gain)) <= GainOf(1 .. Len(Gain), Cardinality(s))
<1> DEFINE N == Len(Gain)
           all == 1 .. N
           Count(m) == Cardinality(s \cap (1 .. m))
           S == {m \in Nat : m <= N =>
                   Count(m) \in 0 .. m /\ GainOf(s, m) <= GainOf(all, Count(m))}
<1>1. /\ N \in Nat /\ \A r \in 1 .. N : Gain[r] \in Nat
      /\ \A r, t \in 1 .. N : r < t => Gain[r] >= Gain[t]
  BY GainTyped
<1>2. \A m : IsFiniteSet(s \cap (1 .. m)) /\ Count(m) \in Nat
  <2>1. \A m : s \cap (1 .. m) \in SUBSET (1 .. Len(Gain))
    OBVIOUS
  <2> QED  BY <2>1, RanksFinite
<1>3. 0 \in S
  <2>1. s \cap (1 .. 0) = {}
    OBVIOUS
  <2>2. Count(0) = 0
    BY <2>1, FS_EmptySet
  <2>3. GainOf(s, 0) = 0 /\ GainOf(all, 0) = 0
    <3>1. \A t : [rank \in 1 .. 0 |-> IF rank \in t THEN Gain[rank] ELSE 0] = <<>>
      OBVIOUS
    <3> QED  BY <3>1, SumOfEmpty DEF GainOf
  <2> HIDE DEF Count
  <2> QED  BY <2>2, <2>3
<1>4. ASSUME NEW m \in Nat, m \in S
      PROVE  m + 1 \in S
  <2> SUFFICES ASSUME m + 1 <= N
               PROVE  /\ Count(m + 1) \in 0 .. m + 1
                      /\ GainOf(s, m + 1) <= GainOf(all, Count(m + 1))
    OBVIOUS
  <2> DEFINE c == Count(m)
  <2>1. c \in 0 .. m /\ GainOf(s, m) <= GainOf(all, c)
    BY <1>1, <1>4
  <2>2. Count(m + 1) = c + (IF m + 1 \in s THEN 1 ELSE 0)
    <3>1. CASE m + 1 \in s
      <4>1. s \cap (1 .. m + 1) = (s \cap (1 .. m)) \union {m + 1} /\ m + 1 \notin s \cap (1 .. m)
        BY <3>1
      <4>2. Cardinality((s \cap (1 .. m)) \union {m + 1}) = Cardinality(s \cap (1 .. m)) + 1
        BY <1>2, <4>1, FS_AddElement
      <4> QED  BY <3>1, <4>1, <4>2
    <3>2. CASE m + 1 \notin s
      <4>1. s \cap (1 .. m + 1) = s \cap (1 .. m)
        BY <3>2
      <4>2. c \in Nat
        BY <1>2
      <4>3. Count(m + 1) = c
        BY <4>1
      <4> HIDE DEF c, Count
      <4> QED  BY <3>2, <4>2, <4>3
    <3> QED  BY <3>1, <3>2
  <2> HIDE DEF c, Count
  <2>3. GainOf(s, m + 1) = GainOf(s, m) + (IF m + 1 \in s THEN Gain[m + 1] ELSE 0)
    BY GainOfNext
  <2>4. c \in Nat /\ c + 1 \in 1 .. N /\ c + 1 <= N /\ m + 1 \in 1 .. N /\ c + 1 <= m + 1
    BY <1>1, <2>1
  <2>5. GainOf(all, c + 1) = GainOf(all, c) + Gain[c + 1] /\ GainOf(all, c) \in Int
    BY <2>4, GainOfNext
  <2>6. Gain[c + 1] \in Nat /\ Gain[m + 1] \in Nat /\ Gain[c + 1] >= Gain[m + 1]
    <3>1. c + 1 = m + 1 \/ c + 1 < m + 1
      BY <2>4
    <3> QED  BY <1>1, <2>4, <3>1
  <2>7. GainOf(s, m) \in Int
    BY GainOfNext
  <2>8. CASE m + 1 \in s
    <3>1. Count(m + 1) = c + 1 /\ GainOf(s, m + 1) = GainOf(s, m) + Gain[m + 1]
      BY <2>2, <2>3, <2>8
    <3>2. GainOf(s, m + 1) <= GainOf(all, c + 1)
      BY <2>1, <2>5, <2>6, <2>7, <3>1
    <3>3. Count(m + 1) \in 0 .. m + 1
      BY <2>1, <3>1
    <3> QED  BY <3>1, <3>2, <3>3
  <2>9. CASE m + 1 \notin s
    <3>1. Count(m + 1) = c /\ GainOf(s, m + 1) = GainOf(s, m)
      BY <2>2, <2>3, <2>4, <2>7, <2>9
    <3> QED  BY <2>1, <3>1
  <2> QED  BY <2>8, <2>9
<1>5. Nat \subseteq S
  <2> HIDE DEF S
  <2> QED  BY <1>3, <1>4, SetInduction
<1>6. GainOf(s, N) <= GainOf(all, Count(N))
  <2> HIDE DEF Count
  <2> QED  BY <1>1, <1>5
<1>7. s \cap (1 .. N) = s
  OBVIOUS
<1> QED  BY <1>6, <1>7

\* The ideal's gain is that of the first n, and grows with n.
LEMMA IdealGain ==
  ASSUME NEW n \in Nat, n <= Len(Gain)
  PROVE  /\ GainOf(1 .. n, Len(Gain)) = GainOf(1 .. Len(Gain), n)
         /\ \A c \in 0 .. n : GainOf(1 .. Len(Gain), c) <= GainOf(1 .. Len(Gain), n)
<1> DEFINE N == Len(Gain)
           all == 1 .. N
           some == 1 .. n
           S == {m \in Nat : m <= N =>
                   /\ m <= n => GainOf(some, m) = GainOf(all, m)
                   /\ n <= m => GainOf(some, m) = GainOf(all, n)
                   /\ \A c \in 0 .. m : GainOf(all, c) <= GainOf(all, m)}
<1>1. N \in Nat /\ \A r \in 1 .. N : Gain[r] \in Nat
  BY GainTyped
<1>2. \A m \in Nat : (m + 1 \in some <=> m + 1 <= n) /\ (m + 1 \in all <=> m + 1 <= N)
  BY <1>1
<1>3. \A m \in Nat : m <= N => GainOf(some, m) \in Nat /\ GainOf(all, m) \in Nat
  BY GainIsPositive
<1>4. GainOf(some, 0) = 0 /\ GainOf(all, 0) = 0
  <2>1. \A t : [rank \in 1 .. 0 |-> IF rank \in t THEN Gain[rank] ELSE 0] = <<>>
    OBVIOUS
  <2> QED  BY <2>1, SumOfEmpty DEF GainOf
<1> HIDE DEF all, some
<1>5. 0 \in S
  <2>1. \A c \in 0 .. 0 : c = 0
    OBVIOUS
  <2>2. n <= 0 => n = 0
    OBVIOUS
  <2> QED  BY <1>4, <2>1, <2>2
<1>6. ASSUME NEW m \in Nat, m \in S
      PROVE  m + 1 \in S
  <2> SUFFICES ASSUME m + 1 <= N
               PROVE  /\ m + 1 <= n => GainOf(some, m + 1) = GainOf(all, m + 1)
                      /\ n <= m + 1 => GainOf(some, m + 1) = GainOf(all, n)
                      /\ \A c \in 0 .. m + 1 : GainOf(all, c) <= GainOf(all, m + 1)
    OBVIOUS
  <2>1. /\ m <= n => GainOf(some, m) = GainOf(all, m)
        /\ n <= m => GainOf(some, m) = GainOf(all, n)
        /\ \A c \in 0 .. m : GainOf(all, c) <= GainOf(all, m)
    BY <1>1, <1>6
  <2>2. /\ GainOf(some, m + 1) = GainOf(some, m) + (IF m + 1 \in some THEN Gain[m + 1] ELSE 0)
        /\ GainOf(all, m + 1) = GainOf(all, m) + (IF m + 1 \in all THEN Gain[m + 1] ELSE 0)
    BY GainOfNext
  <2>3. Gain[m + 1] \in Nat /\ GainOf(all, m) \in Nat /\ GainOf(some, m) \in Nat
    <3>1. m + 1 \in 1 .. N /\ m <= N
      BY <1>1
    <3> QED  BY <1>1, <1>3, <3>1
  <2>4. GainOf(all, m + 1) = GainOf(all, m) + Gain[m + 1]
    BY <1>2, <2>2
  <2>5. m + 1 <= n => GainOf(some, m + 1) = GainOf(all, m + 1)
    <3> SUFFICES ASSUME m + 1 <= n
                 PROVE  GainOf(some, m + 1) = GainOf(all, m + 1)
      OBVIOUS
    <3>1. m <= n /\ m + 1 \in some
      BY <1>2
    <3> QED  BY <2>1, <2>2, <2>4, <3>1
  <2>6. n <= m + 1 => GainOf(some, m + 1) = GainOf(all, n)
    <3>1. CASE n = m + 1
      BY <2>5, <3>1
    <3>2. CASE n <= m
      <4>1. m + 1 \notin some
        BY <1>2, <3>2
      <4> QED  BY <2>1, <2>2, <2>3, <3>2, <4>1
    <3> QED  BY <3>1, <3>2
  <2>7. ASSUME NEW c \in 0 .. m + 1
        PROVE  GainOf(all, c) <= GainOf(all, m + 1)
    <3>1. CASE c = m + 1
      <4>1. GainOf(all, m + 1) \in Nat
        BY <2>3, <2>4
      <4> QED  BY <3>1, <4>1
    <3>2. CASE c # m + 1
      <4>1. c \in 0 .. m /\ c \in Nat /\ c <= N
        BY <1>1, <3>2
      <4>2. GainOf(all, c) \in Nat /\ GainOf(all, c) <= GainOf(all, m)
        BY <1>3, <2>1, <4>1
      <4> QED  BY <2>3, <2>4, <4>2
    <3> QED  BY <3>1, <3>2
  <2> QED  BY <2>5, <2>6, <2>7
<1>7. Nat \subseteq S
  <2> HIDE DEF S
  <2> QED  BY <1>5, <1>6, SetInduction
<1>8. n \in S /\ N \in S
  <2> HIDE DEF S
  <2> QED  BY <1>1, <1>7
<1>9. GainOf(some, N) = GainOf(all, n) /\ \A c \in 0 .. n : GainOf(all, c) <= GainOf(all, n)
  BY <1>1, <1>8
<1> QED  BY <1>9 DEF some, all

\* What SumFunctionOnSet adds up.
LEMMA GainsAddUp ==
  ASSUME NEW s \in SUBSET (1 .. Len(Gain))
  PROVE  SumFunctionOnSet(Gain, s) = GainOf(s, Len(Gain))
<1> DEFINE Picked(r) == CHOOSE x \in r : TRUE
           IsGain(f) == f = [r \in SUBSET s |->
                               IF r = {} THEN 0 ELSE Gain[Picked(r)] + f[r \ {Picked(r)}]]
           F == CHOOSE f : IsGain(f)
           g == [r \in SUBSET s |-> GainOf(r, Len(Gain))]
           N == {n \in Nat : \A r \in SUBSET s : Cardinality(r) = n => F[r] = GainOf(r, Len(Gain))}
<1>1. SumFunctionOnSet(Gain, s) = F[s]
  BY Zenon DEF SumFunctionOnSet, FoldFunctionOnSet, MapThenFoldSet
<1>2. ASSUME NEW r \in SUBSET s, r # {}
      PROVE  Picked(r) \in r /\ GainOf(r, Len(Gain)) = Gain[Picked(r)] + GainOf(r \ {Picked(r)}, Len(Gain))
  <2>1. Picked(r) \in r
    BY <1>2
  <2> HIDE DEF Picked
  <2>2. r \in SUBSET (1 .. Len(Gain))
    OBVIOUS
  <2> QED  BY <2>1, <2>2, GainOfRest
<1>3. GainOf({}, Len(Gain)) = 0
  BY GainTyped, GainIsPositive
<1>4. IsGain(g)
  <2> HIDE DEF Picked
  <2>1. ASSUME NEW r \in SUBSET s
        PROVE  g[r] = IF r = {} THEN 0 ELSE Gain[Picked(r)] + g[r \ {Picked(r)}]
    <3>1. r \ {Picked(r)} \in SUBSET s
      OBVIOUS
    <3>2. g[r] = GainOf(r, Len(Gain)) /\ g[r \ {Picked(r)}] = GainOf(r \ {Picked(r)}, Len(Gain))
      BY <3>1
    <3> HIDE DEF g
    <3> QED  BY <1>2, <1>3, <3>2
  <2> QED  BY <2>1
<1>5. IsGain(F)
  BY <1>4, Zenon
<1>6. \A r \in SUBSET s : F[r] = IF r = {} THEN 0 ELSE Gain[Picked(r)] + F[r \ {Picked(r)}]
  BY <1>5
<1> HIDE DEF F, Picked
<1>7. \A r \in SUBSET s : IsFiniteSet(r) /\ Cardinality(r) \in Nat
  BY RanksFinite
<1>8. 0 \in N
  <2> SUFFICES ASSUME NEW r \in SUBSET s, Cardinality(r) = 0
               PROVE  F[r] = GainOf(r, Len(Gain))
    OBVIOUS
  <2>1. r = {}
    BY <1>7, FS_EmptySet
  <2> QED  BY <1>3, <1>6, <2>1
<1>9. ASSUME NEW n \in Nat, n \in N
      PROVE  n + 1 \in N
  <2> SUFFICES ASSUME NEW r \in SUBSET s, Cardinality(r) = n + 1
               PROVE  F[r] = GainOf(r, Len(Gain))
    OBVIOUS
  <2>1. r # {}
    BY FS_EmptySet
  <2>2. Cardinality(r \ {Picked(r)}) = n /\ r \ {Picked(r)} \in SUBSET s
    <3>1. Cardinality(r \ {Picked(r)}) = Cardinality(r) - 1
      BY <1>2, <1>7, <2>1, FS_RemoveElement
    <3>2. Cardinality(r) - 1 = n
      OBVIOUS
    <3>3. r \ {Picked(r)} \in SUBSET s
      OBVIOUS
    <3> QED  BY <3>1, <3>2, <3>3, Zenon
  <2>3. F[r \ {Picked(r)}] = GainOf(r \ {Picked(r)}, Len(Gain))
    BY <1>9, <2>2
  <2>4. F[r] = Gain[Picked(r)] + F[r \ {Picked(r)}]
    BY <1>6, <2>1
  <2> QED  BY <1>2, <2>1, <2>3, <2>4
<1>10. Nat \subseteq N
  <2> HIDE DEF N
  <2> QED  BY <1>8, <1>9, SetInduction
<1>11. F[s] = GainOf(s, Len(Gain))
  BY <1>7, <1>10
<1> QED  BY <1>1, <1>11

\* The ideal has the best gains of as many ranks.
LEMMA IdealIsBest ==
  ASSUME NEW s \in SUBSET (1 .. Len(Gain)), NEW n \in 0 .. Len(Gain)
  PROVE  /\ SumFunctionOnSet(Gain, s) \in Nat
         /\ SumFunctionOnSet(Gain, s) = 0 <=> s = {}
         /\ Cardinality(s) <= n => SumFunctionOnSet(Gain, s) <= SumFunctionOnSet(Gain, 1 .. n)
<1> DEFINE N == Len(Gain)
<1>1. N \in Nat /\ n \in Nat /\ n <= N /\ 1 .. n \in SUBSET (1 .. Len(Gain))
  BY GainTyped
<1>2. /\ SumFunctionOnSet(Gain, s) = GainOf(s, N)
      /\ SumFunctionOnSet(Gain, 1 .. n) = GainOf(1 .. n, N)
  BY <1>1, GainsAddUp
<1>3. GainOf(s, N) \in Nat /\ (GainOf(s, N) = 0 <=> s = {})
  <2>1. GainOf(s, N) \in Nat /\ (GainOf(s, N) = 0 <=> \A r \in 1 .. N : r \notin s)
    BY <1>1, GainIsPositive
  <2> QED  BY <2>1
<1>4. Cardinality(s) <= n => GainOf(s, N) <= GainOf(1 .. n, N)
  <2> SUFFICES ASSUME Cardinality(s) <= n
               PROVE  GainOf(s, N) <= GainOf(1 .. n, N)
    OBVIOUS
  <2> DEFINE c == Cardinality(s)
  <2>1. c \in 0 .. n
    BY <1>1, RanksFinite
  <2>2. GainOf(s, N) <= GainOf(1 .. N, c)
    BY FirstGainMost
  <2> HIDE DEF c
  <2>3. GainOf(1 .. n, N) = GainOf(1 .. N, n) /\ GainOf(1 .. N, c) <= GainOf(1 .. N, n)
    BY <1>1, <2>1, IdealGain
  <2>4. GainOf(1 .. N, c) \in Nat /\ GainOf(1 .. N, n) \in Nat
    <3>1. c \in Nat /\ c <= N
      BY <1>1, <2>1
    <3> QED  BY <1>1, <3>1, GainIsPositive
  <2> QED  BY <1>3, <2>2, <2>3, <2>4
<1> QED  BY <1>2, <1>3, <1>4

\* A vocabulary is finite, and so is what is said with it.
Vocabulary == UNION {Words[t] : t \in Texts}
LEMMA WordsFinite ==
  /\ IsFiniteSet(Vocabulary) /\ \A q \in Questions : IsFiniteSet(Words[q])
  /\ \A said \in SUBSET Vocabulary : IsFiniteSet(said) /\ Cardinality(said) \in Nat
<1> DEFINE all == UNION {Words[t] : t \in DOMAIN Words}
<1>1. IsFiniteSet(all) /\ DOMAIN Words = Texts \union Questions
  BY RetrievalAssumption, Zenon
<1>2. Vocabulary \in SUBSET all /\ \A q \in Questions : Words[q] \in SUBSET all
  BY <1>1 DEF Vocabulary
<1> HIDE DEF all
<1>3. IsFiniteSet(Vocabulary) /\ \A q \in Questions : IsFiniteSet(Words[q])
  BY <1>1, <1>2, FS_Subset
<1>4. \A said \in SUBSET Vocabulary : IsFiniteSet(said) /\ Cardinality(said) \in Nat
  BY <1>3, FS_Subset, FS_CardinalityType
<1> QED  BY <1>3, <1>4

\* The chunks of an answer that hold a marker.
LEMMA RelevantChunks ==
  ASSUME NEW found \in Seq(Chunk), Len(found) <= Len(Gain), NEW markers
  PROVE  /\ Relevant(found, markers) \in SUBSET (1 .. Len(Gain))
         /\ IsFiniteSet(Relevant(found, markers))
         /\ Cardinality(Relevant(found, markers)) \in Nat
         /\ Cardinality(Relevant(found, markers)) <= Len(found)
         /\ Cardinality(Relevant(found, markers)) = 0 <=> Relevant(found, markers) = {}
         /\ Relevant(found, markers) # {} =>
              Min(Relevant(found, markers)) \in Nat \ {0}
<1> DEFINE R == Relevant(found, markers)
<1>1. R \in SUBSET (1 .. Len(found)) /\ Len(found) \in Nat
  BY DEF Relevant
<1>2. R \in SUBSET (1 .. Len(Gain))
  BY <1>1, GainTyped
<1> HIDE DEF R
<1>3. IsFiniteSet(R)
  BY <1>2, RanksFinite
<1>4. Cardinality(R) \in Nat /\ (Cardinality(R) = 0 <=> R = {})
  BY <1>3, FS_CardinalityType, FS_EmptySet
<1>5. Cardinality(R) <= Len(found)
  <2>1. 1 \in Int /\ Len(found) \in Int
    BY <1>1
  <2>2. IsFiniteSet(1 .. Len(found)) /\ Cardinality(1 .. Len(found)) = IF 1 > Len(found) THEN 0 ELSE Len(found) - 1 + 1
    BY <2>1, FS_Interval
  <2>3. Cardinality(R) <= Cardinality(1 .. Len(found))
    BY <1>1, <2>2, FS_Subset
  <2> QED  BY <1>1, <1>4, <2>2, <2>3
<1>6. R # {} => Min(R) \in Nat \ {0}
  <2> SUFFICES ASSUME R # {}
               PROVE  Min(R) \in Nat \ {0}
    OBVIOUS
  <2>1. R \in SUBSET Nat
    BY <1>2
  <2> DEFINE m == Min(R)
  <2>2. m \in R
    BY <2>1, MinIsLeast
  <2> HIDE DEF m
  <2>3. m \in Nat \ {0}
    BY <1>2, <2>2
  <2> QED  BY <2>3 DEF m
<1> QED  BY <1>2, <1>3, <1>4, <1>5, <1>6 DEF R

\* hit_rate, precision, recall, mrr and ndcg of the same chunks.
LEMMA RetrievalMetrics ==
  ASSUME NEW found \in Seq(Chunk), Len(found) <= Len(Gain), NEW markers \in SUBSET Vocabulary
  PROVE  /\ PrecisionAtK(found, markers)[1] <= PrecisionAtK(found, markers)[2]
         /\ RecallAtK(found, markers)[1] <= RecallAtK(found, markers)[2]
         /\ ReciprocalRank(found, markers)[1] <= ReciprocalRank(found, markers)[2]
         /\ NDCG(found, markers)[1] > NDCG(found, markers)[2] =>
              Cardinality(Relevant(found, markers)) > Cardinality(markers)
         /\ markers # {} =>
              /\ HitRate(found, markers) = 0 <=> PrecisionAtK(found, markers)[1] = 0
              /\ HitRate(found, markers) = 0 <=> RecallAtK(found, markers)[1] = 0
              /\ HitRate(found, markers) = 0 <=> ReciprocalRank(found, markers)[1] = 0
              /\ HitRate(found, markers) = 0 <=> NDCG(found, markers)[1] = 0
<1> DEFINE R == Relevant(found, markers)
           held == {m \in markers : \E n \in DOMAIN found : m \in Words[found[n].text]}
           size == Cardinality(markers)
           ideal == Min({size, Len(found)})
<1>1. /\ R \in SUBSET (1 .. Len(Gain)) /\ Cardinality(R) \in Nat /\ Cardinality(R) <= Len(found)
      /\ Cardinality(R) = 0 <=> R = {}
      /\ R # {} => Min(R) \in Nat \ {0}
  BY RelevantChunks
<1>2. Len(found) \in Nat /\ (found = <<>> => R = {}) /\ (found # <<>> => Len(found) # 0)
  BY DEF Relevant
<1>3. IsFiniteSet(markers) /\ size \in Nat
  BY WordsFinite
<1>4. held \in SUBSET markers /\ (held = {} <=> R = {})
  BY DEF Relevant, IsRelevant
<1>5. HitRate(found, markers) = IF markers = {} \/ R # {} THEN 1 ELSE 0
  BY Zenon DEF HitRate
<1>6. PrecisionAtK(found, markers) = IF found = <<>> THEN <<0, 1>> ELSE <<Cardinality(R), Len(found)>>
  BY Zenon DEF PrecisionAtK
<1>7. RecallAtK(found, markers) = IF markers = {} THEN <<1, 1>> ELSE <<Cardinality(held), size>>
  BY Zenon DEF RecallAtK
<1>8. ReciprocalRank(found, markers) = IF R = {} THEN <<0, 1>> ELSE <<1, Min(R)>>
  BY Zenon DEF ReciprocalRank
<1>9. NDCG(found, markers) =
        IF markers = {} \/ found = <<>> THEN <<0, 1>>
        ELSE <<SumFunctionOnSet(Gain, R), SumFunctionOnSet(Gain, 1 .. ideal)>>
  BY Zenon DEF NDCG
<1> HIDE DEF R
<1>10. /\ IsFiniteSet(held) /\ Cardinality(held) \in Nat /\ Cardinality(held) <= size
       /\ Cardinality(held) = 0 <=> held = {}
  <2>1. IsFiniteSet(held) /\ Cardinality(held) <= size
    BY <1>3, <1>4, FS_Subset
  <2> QED  BY <2>1, FS_CardinalityType, FS_EmptySet
<1> HIDE DEF held
<1>11. /\ ideal \in 0 .. Len(Gain)
       /\ Cardinality(R) <= size => Cardinality(R) <= ideal
  <2>1. {size, Len(found)} \in SUBSET Nat /\ {size, Len(found)} # {}
    BY <1>2, <1>3
  <2>2. ideal \in {size, Len(found)} /\ \A x \in {size, Len(found)} : ideal <= x
    BY <2>1, MinIsLeast
  <2> QED  BY <1>1, <1>2, <1>3, <2>2, GainTyped
<1> HIDE DEF ideal
<1>12. /\ SumFunctionOnSet(Gain, R) \in Nat /\ SumFunctionOnSet(Gain, 1 .. ideal) \in Nat
       /\ SumFunctionOnSet(Gain, R) = 0 <=> R = {}
       /\ Cardinality(R) <= ideal => SumFunctionOnSet(Gain, R) <= SumFunctionOnSet(Gain, 1 .. ideal)
  <2>1. 1 .. ideal \in SUBSET (1 .. Len(Gain))
    BY <1>11, GainTyped
  <2> QED  BY <1>1, <1>11, <2>1, IdealIsBest
<1> HIDE DEF size
<1>13. PrecisionAtK(found, markers)[1] <= PrecisionAtK(found, markers)[2]
  BY <1>1, <1>2, <1>6
<1>14. RecallAtK(found, markers)[1] <= RecallAtK(found, markers)[2]
  BY <1>7, <1>10
<1>15. ReciprocalRank(found, markers)[1] <= ReciprocalRank(found, markers)[2]
  BY <1>1, <1>8
<1>16. NDCG(found, markers)[1] > NDCG(found, markers)[2] => Cardinality(R) > size
  BY <1>1, <1>3, <1>9, <1>11, <1>12
<1>17. ASSUME markers # {}
       PROVE  /\ HitRate(found, markers) = 0 <=> PrecisionAtK(found, markers)[1] = 0
              /\ HitRate(found, markers) = 0 <=> RecallAtK(found, markers)[1] = 0
              /\ HitRate(found, markers) = 0 <=> ReciprocalRank(found, markers)[1] = 0
              /\ HitRate(found, markers) = 0 <=> NDCG(found, markers)[1] = 0
  <2>1. HitRate(found, markers) = 0 <=> R = {}
    BY <1>5, <1>17
  <2>2. PrecisionAtK(found, markers)[1] = 0 <=> R = {}
    BY <1>1, <1>2, <1>6
  <2>3. RecallAtK(found, markers)[1] = 0 <=> R = {}
    BY <1>4, <1>7, <1>10, <1>17
  <2>4. ReciprocalRank(found, markers)[1] = 0 <=> R = {}
    BY <1>8
  <2>5. NDCG(found, markers)[1] = 0 <=> R = {}
    BY <1>2, <1>9, <1>12, <1>17
  <2> QED  BY <2>1, <2>2, <2>3, <2>4, <2>5
<1> QED  BY <1>13, <1>14, <1>15, <1>16, <1>17 DEF R, size

\* The sentences a claim rests on, of an answer with sources.
Supported(claims, context) ==
  {i \in DOMAIN claims : 2 * Cardinality(claims[i] \cap context) >= Cardinality(claims[i])}
WordsIn(found) == UNION {Words[found[n].text] : n \in DOMAIN found}

\* What Faithfulness is when there is anything to compare.
LEMMA FaithfulnessIs ==
  ASSUME NEW claims, NEW found, claims # <<>>
  PROVE  Faithfulness(claims, found) =
           IF found = <<>> THEN <<0, 1>>
           ELSE <<Cardinality(Supported(claims, WordsIn(found))), Len(claims)>>
<1>1. CASE found = <<>>
  BY <1>1, Zenon DEF Faithfulness
<1>2. CASE found # <<>>
  BY <1>2, Zenon DEF Faithfulness, Supported, WordsIn
<1> QED  BY <1>1, <1>2

\* The supported claims are among the claims.
LEMMA SupportedCounts ==
  ASSUME NEW L \in Nat, NEW claims, DOMAIN claims = 1 .. L, NEW context
  PROVE  /\ IsFiniteSet(Supported(claims, context))
         /\ Cardinality(Supported(claims, context)) \in Nat
         /\ Cardinality(Supported(claims, context)) <= L
<1>1. 1 \in Int /\ L \in Int
  OBVIOUS
<1>2. IsFiniteSet(1 .. L) /\ Cardinality(1 .. L) = IF 1 > L THEN 0 ELSE L - 1 + 1
  BY <1>1, FS_Interval
<1>3. Cardinality(1 .. L) = L
  BY <1>2
<1>4. Supported(claims, context) \in SUBSET (1 .. L)
  BY DEF Supported
<1> QED  BY <1>2, <1>3, <1>4, FS_Subset, FS_CardinalityType

\* A claim without a word of the sources is not supported, unless it has none,
\* and one that quotes them is.
LEMMA ClaimsSupported ==
  ASSUME NEW claim \in SUBSET Vocabulary, NEW context
  PROVE  /\ claim # {} /\ claim \cap context = {} =>
              ~(2 * Cardinality(claim \cap context) >= Cardinality(claim))
         /\ claim \subseteq context =>
              2 * Cardinality(claim \cap context) >= Cardinality(claim)
<1>1. IsFiniteSet(claim) /\ Cardinality(claim) \in Nat
  BY WordsFinite
<1>2. claim # {} => Cardinality(claim) # 0
  BY <1>1, FS_EmptySet
<1>3. claim \cap context = {} => Cardinality(claim \cap context) = 0
  BY FS_EmptySet
<1>4. claim \subseteq context => claim \cap context = claim
  OBVIOUS
<1>5. claim \subseteq context => Cardinality(claim \cap context) = Cardinality(claim)
  BY <1>4
<1> QED  BY <1>1, <1>2, <1>3, <1>5

\* The metrics of an answer that is its markers.
LEMMA GenerationMetrics ==
  ASSUME NEW found \in Seq(Chunk), NEW q \in Questions, NEW markers \in SUBSET Vocabulary
  PROVE  LET faithfulness == Faithfulness(<<markers>>, found)
             relevance == AnswerRelevance(<<markers>>, q)
             correctness == Correctness(<<markers>>, markers)
         IN  /\ faithfulness[1] <= faithfulness[2]
             /\ relevance[1] <= relevance[2]
             /\ correctness[1] = correctness[2] /\ correctness[1] <= correctness[2]
             /\ markers # {} /\ markers \cap WordsIn(found) = {} => faithfulness[1] = 0
<1> DEFINE claims == <<markers>>
           held == Supported(claims, WordsIn(found))
           shared == Words[q] \cap markers
           size == Cardinality(markers)
<1>1. claims # <<>> /\ DOMAIN claims = 1 .. 1 /\ Len(claims) = 1 /\ claims[1] = markers
      /\ UNION ToSet(claims) = markers
  BY DEF ToSet
<1>2. IsFiniteSet(markers) /\ size \in Nat /\ IsFiniteSet(Words[q])
  BY WordsFinite
<1>3. Faithfulness(claims, found) = IF found = <<>> THEN <<0, 1>> ELSE <<Cardinality(held), Len(claims)>>
  BY <1>1, FaithfulnessIs
<1>4. AnswerRelevance(claims, q) =
        IF Words[q] = {} THEN <<1, 1>> ELSE <<Cardinality(shared), Cardinality(Words[q])>>
  BY <1>1, Zenon DEF AnswerRelevance
<1>5. Correctness(claims, markers) =
        IF markers = {} THEN <<1, 1>> ELSE <<2 * size, size + size>>
  <2>1. markers \cap markers = markers
    OBVIOUS
  <2>2. CASE markers = {}
    BY <2>2, Zenon DEF Correctness
  <2>3. CASE markers # {}
    BY <1>1, <2>1, <2>3, Zenon DEF Correctness
  <2> QED  BY <2>2, <2>3
<1> HIDE DEF claims
<1>6. IsFiniteSet(held) /\ Cardinality(held) \in Nat /\ Cardinality(held) <= 1
  BY <1>1, SupportedCounts
<1>7. ASSUME markers # {}, markers \cap WordsIn(found) = {}
      PROVE  Cardinality(held) = 0
  <2>1. ~(2 * Cardinality(markers \cap WordsIn(found)) >= Cardinality(markers))
    BY <1>7, ClaimsSupported
  <2>2. \A i \in DOMAIN claims : i = 1
    BY <1>1
  <2>3. held = {}
    BY <1>1, <2>1, <2>2 DEF Supported
  <2> QED  BY <2>3, FS_EmptySet
<1> HIDE DEF held
<1>8. Cardinality(shared) \in Nat /\ Cardinality(shared) <= Cardinality(Words[q]) /\ Cardinality(Words[q]) \in Nat
  BY <1>2, FS_Subset, FS_CardinalityType
<1> HIDE DEF shared, size
<1>9. Faithfulness(claims, found)[1] <= Faithfulness(claims, found)[2]
  BY <1>1, <1>3, <1>6
<1>10. AnswerRelevance(claims, q)[1] <= AnswerRelevance(claims, q)[2]
  BY <1>4, <1>8
<1>11. /\ Correctness(claims, markers)[1] = Correctness(claims, markers)[2]
       /\ Correctness(claims, markers)[1] <= Correctness(claims, markers)[2]
  BY <1>2, <1>5
<1>12. markers # {} /\ markers \cap WordsIn(found) = {} => Faithfulness(claims, found)[1] = 0
  BY <1>3, <1>7
<1> QED  BY <1>9, <1>10, <1>11, <1>12 DEF claims

\* An answer that quotes its sources is faithful.
LEMMA QuotesAreFaithful ==
  ASSUME NEW found \in Seq(Chunk)
  PROVE  LET faithfulness == Faithfulness([n \in DOMAIN found |-> Words[found[n].text]], found)
         IN  faithfulness[1] = faithfulness[2]
<1> DEFINE quoted == [n \in DOMAIN found |-> Words[found[n].text]]
           held == Supported(quoted, WordsIn(found))
           L == Len(found)
<1>1. L \in Nat /\ DOMAIN found = 1 .. L /\ (found = <<>> <=> L = 0)
      /\ \A n \in 1 .. L : found[n].text \in Texts
  <2>1. L \in Nat /\ DOMAIN found = 1 .. L /\ (found = <<>> <=> L = 0)
        /\ \A n \in 1 .. L : found[n] \in Chunk
    OBVIOUS
  <2> QED  BY <2>1 DEF Chunk
<1>2. DOMAIN quoted = 1 .. L /\ \A n \in 1 .. L : quoted[n] = Words[found[n].text]
  BY <1>1
<1> HIDE DEF quoted
<1>3. CASE L = 0
  <2>1. quoted = <<>>
    <3>1. DOMAIN quoted = {} /\ DOMAIN found = {}
      BY <1>1, <1>2, <1>3
    <3> QED  BY <1>1, <1>3 DEF quoted
  <2> QED  BY <2>1, Zenon DEF Faithfulness, quoted
<1>4. CASE L # 0
  <2>1. quoted # <<>> /\ found # <<>> /\ quoted \in Seq(SUBSET Vocabulary) /\ Len(quoted) = L
    <3>1. \A n \in 1 .. L : Words[found[n].text] \in SUBSET Vocabulary
      BY <1>1 DEF Vocabulary
    <3>2. quoted \in Seq(SUBSET Vocabulary) /\ Len(quoted) = L
      BY <1>1, <3>1 DEF quoted
    <3> QED  BY <1>1, <1>4, <3>2
  <2>2. held = 1 .. L
    <3>1. ASSUME NEW n \in 1 .. L
          PROVE  n \in held
      <4>1. quoted[n] \in SUBSET Vocabulary /\ quoted[n] \subseteq WordsIn(found)
        BY <1>1, <1>2, <2>1 DEF WordsIn
      <4>2. 2 * Cardinality(quoted[n] \cap WordsIn(found)) >= Cardinality(quoted[n])
        BY <4>1, ClaimsSupported
      <4> QED  BY <1>2, <4>2 DEF Supported
    <3>2. held \subseteq 1 .. L
      BY <1>2 DEF Supported
    <3> QED  BY <3>1, <3>2
  <2>3. Cardinality(1 .. L) = L
    <3>1. 1 \in Int /\ L \in Int
      BY <1>1
    <3>2. Cardinality(1 .. L) = IF 1 > L THEN 0 ELSE L - 1 + 1
      BY <3>1, FS_Interval
    <3> QED  BY <1>1, <3>2
  <2>4. Faithfulness(quoted, found) = IF found = <<>> THEN <<0, 1>> ELSE <<Cardinality(held), Len(quoted)>>
    BY <2>1, FaithfulnessIs
  <2> QED  BY <2>1, <2>2, <2>3, <2>4 DEF quoted
<1> QED  BY <1>3, <1>4

\* More sources support no fewer claims.
LEMMA MoreSourcesSupportMore ==
  ASSUME NEW found \in Seq(Chunk), found # <<>>,
         NEW one \in SUBSET Vocabulary, NEW other \in SUBSET Vocabulary
  PROVE  LET fewer == Faithfulness(<<one, other>>, Front(found))
             all == Faithfulness(<<one, other>>, found)
         IN  fewer[1] * 2 <= all[1] * fewer[2]
<1> DEFINE claims == <<one, other>>
           few == Supported(claims, WordsIn(Front(found)))
           many == Supported(claims, WordsIn(found))
<1>1. claims # <<>> /\ DOMAIN claims = 1 .. 2 /\ Len(claims) = 2 /\ \A i \in 1 .. 2 : claims[i] \in SUBSET Vocabulary
  OBVIOUS
<1> HIDE DEF claims
<1>2. WordsIn(Front(found)) \subseteq WordsIn(found)
  <2>1. Front(found) = SubSeq(found, 1, Len(found) - 1)
    BY DEF Front
  <2>2. \A n \in DOMAIN Front(found) : n \in DOMAIN found /\ Front(found)[n] = found[n]
    BY <2>1
  <2> QED  BY <2>2 DEF WordsIn
<1>3. few \subseteq many
  <2> SUFFICES ASSUME NEW i \in few
               PROVE  i \in many
    OBVIOUS
  <2> DEFINE c == claims[i]
             x == c \cap WordsIn(Front(found))
             y == c \cap WordsIn(found)
  <2>1. i \in DOMAIN claims /\ 2 * Cardinality(x) >= Cardinality(c)
    BY DEF Supported
  <2>2. IsFiniteSet(c) /\ Cardinality(c) \in Nat
    BY <1>1, <2>1, WordsFinite
  <2>3. x \in SUBSET y /\ y \in SUBSET c
    BY <1>2
  <2> HIDE DEF c, x, y
  <2>4. IsFiniteSet(y)
    BY <2>2, <2>3, FS_Subset
  <2>5. IsFiniteSet(x) /\ Cardinality(x) <= Cardinality(y)
    BY <2>3, <2>4, FS_Subset
  <2>6. 2 * Cardinality(y) >= Cardinality(c)
    BY <2>1, <2>2, <2>4, <2>5, FS_CardinalityType
  <2> QED  BY <2>1, <2>6 DEF Supported, c, y
<1>4. /\ IsFiniteSet(many) /\ Cardinality(many) \in Nat /\ Cardinality(few) \in Nat
  BY <1>1, SupportedCounts
<1> HIDE DEF few, many
<1>5. Cardinality(few) <= Cardinality(many)
  BY <1>3, <1>4, FS_Subset
<1>6. Faithfulness(claims, found) = <<Cardinality(many), 2>>
  BY <1>1, FaithfulnessIs DEF many
<1>7. Faithfulness(claims, Front(found)) =
        IF Front(found) = <<>> THEN <<0, 1>> ELSE <<Cardinality(few), 2>>
  BY <1>1, FaithfulnessIs DEF few
<1>8. Faithfulness(claims, Front(found))[1] * 2 <=
        Faithfulness(claims, found)[1] * Faithfulness(claims, Front(found))[2]
  BY <1>4, <1>5, <1>6, <1>7
<1> QED  BY <1>8 DEF claims

\* All of it, of the sources of an answer.
LEMMA MetricsTellOneStory ==
  ASSUME NEW found \in Seq(Chunk), Len(found) <= Len(Gain), NEW q \in Questions
  PROVE  OneStory(found, q)
<1> DEFINE graded(markers) == Evaluate(found, q, markers, <<markers>>, markers)
           context == UNION {Words[found[n].text] : n \in DOMAIN found}
           quoted == [n \in DOMAIN found |-> Words[found[n].text]]
<1>1. ASSUME NEW markers \in SUBSET Vocabulary
      PROVE  /\ markers # {} =>
                  \A metric \in {"precision", "recall", "mrr", "ndcg"} :
                    graded(markers).hit_rate = 0 <=> graded(markers)[metric][1] = 0
             /\ \A metric \in {"precision", "recall", "mrr", "faithfulness", "relevance", "correctness"} :
                  graded(markers)[metric][1] <= graded(markers)[metric][2]
             /\ graded(markers).ndcg[1] > graded(markers).ndcg[2] =>
                  Cardinality(Relevant(found, markers)) > Cardinality(markers)
             /\ graded(markers).correctness[1] = graded(markers).correctness[2]
             /\ markers # {} /\ markers \cap context = {} => graded(markers).faithfulness[1] = 0
  <2> DEFINE r == graded(markers)
  <2>1. /\ r.hit_rate = HitRate(found, markers) /\ r["precision"] = PrecisionAtK(found, markers)
        /\ r["recall"] = RecallAtK(found, markers) /\ r["mrr"] = ReciprocalRank(found, markers)
        /\ r["ndcg"] = NDCG(found, markers) /\ r["faithfulness"] = Faithfulness(<<markers>>, found)
        /\ r["relevance"] = AnswerRelevance(<<markers>>, q)
        /\ r["correctness"] = Correctness(<<markers>>, markers)
    BY Zenon DEF Evaluate
  <2>2. context = WordsIn(found)
    BY DEF WordsIn
  <2> HIDE DEF graded, context
  <2>3. /\ r["precision"][1] <= r["precision"][2] /\ r["recall"][1] <= r["recall"][2]
        /\ r["mrr"][1] <= r["mrr"][2]
        /\ r["ndcg"][1] > r["ndcg"][2] =>
             Cardinality(Relevant(found, markers)) > Cardinality(markers)
        /\ markers # {} =>
             /\ r.hit_rate = 0 <=> r["precision"][1] = 0
             /\ r.hit_rate = 0 <=> r["recall"][1] = 0
             /\ r.hit_rate = 0 <=> r["mrr"][1] = 0
             /\ r.hit_rate = 0 <=> r["ndcg"][1] = 0
    BY <2>1, RetrievalMetrics, Zenon
  <2>4. /\ r["faithfulness"][1] <= r["faithfulness"][2] /\ r["relevance"][1] <= r["relevance"][2]
        /\ r["correctness"][1] = r["correctness"][2] /\ r["correctness"][1] <= r["correctness"][2]
        /\ markers # {} /\ markers \cap context = {} => r["faithfulness"][1] = 0
    BY <2>1, <2>2, GenerationMetrics, Zenon
  <2> QED  BY <2>3, <2>4, Zenon
<1>2. Faithfulness(quoted, found)[1] = Faithfulness(quoted, found)[2]
  BY QuotesAreFaithful
<1>3. found # <<>> => \A one, other \in SUBSET Vocabulary :
        Faithfulness(<<one, other>>, Front(found))[1] * 2 <=
          Faithfulness(<<one, other>>, found)[1] * Faithfulness(<<one, other>>, Front(found))[2]
  BY MoreSourcesSupportMore
<1> QED  BY <1>1, <1>2, <1>3, Zenon DEF OneStory, Vocabulary

\* What is sent in order of what was found is no longer.
LEMMA InOrderLength ==
  ASSUME NEW found \in Seq(Chunk), NEW sent \in Seq(Chunk), InOrderOf(sent, found, Len(found))
  PROVE  Len(sent) <= Len(found)
<1>1. PICK place \in [DOMAIN sent -> 1 .. Len(found)] :
        \A i, j \in DOMAIN sent : i < j => place[i] < place[j]
  BY DEF InOrderOf
<1>2. /\ Len(sent) \in Nat /\ Len(found) \in Nat /\ DOMAIN sent = 1 .. Len(sent)
      /\ 1 \in Int /\ Len(sent) \in Int /\ Len(found) \in Int
  OBVIOUS
<1>3. place \in Injection(1 .. Len(sent), 1 .. Len(found))
  <2>1. \A i, j \in 1 .. Len(sent) : place[i] = place[j] => i = j
    <3> SUFFICES ASSUME NEW i \in 1 .. Len(sent), NEW j \in 1 .. Len(sent), place[i] = place[j]
                 PROVE  i = j
      OBVIOUS
    <3>1. place[i] \in Int /\ place[j] \in Int
      BY <1>1, <1>2
    <3>2. ~(i < j) /\ ~(j < i)
      BY <1>1, <1>2, <3>1
    <3> QED  BY <3>2
  <2> QED  BY <1>1, <1>2, <2>1 DEF Injection, IsInjective
<1>4. /\ IsFiniteSet(1 .. Len(found))
      /\ Cardinality(1 .. Len(found)) = IF 1 > Len(found) THEN 0 ELSE Len(found) - 1 + 1
      /\ Cardinality(1 .. Len(sent)) = IF 1 > Len(sent) THEN 0 ELSE Len(sent) - 1 + 1
  BY <1>2, FS_Interval
<1>5. Cardinality(1 .. Len(sent)) <= Cardinality(1 .. Len(found))
  BY <1>3, <1>4, FS_Injection
<1> QED  BY <1>2, <1>4, <1>5

\* What was found for an answer and its sources are chunks, no more than top_k.
SourcesInv ==
  answer # NoAnswer =>
    /\ answer.question \in Questions
    /\ answer.retrieved \in Seq(Chunk) /\ Len(answer.retrieved) <= TopK
    /\ answer.sources \in Seq(Chunk) /\ Len(answer.sources) <= TopK

\* A refusal's sources are what was found, an answer's what of it fits.
LEMMA ReplySources ==
  ASSUME config \in Configs, store \in Seq(Chunk), bm25 \in Seq(Chunk),
         NEW q \in Questions, NEW where, NEW hits \in Retrieved(q, where)
  PROVE  LET response == Reply(q, where, hits)
         IN  /\ response.question = q
             /\ response.retrieved \in Seq(Chunk) /\ Len(response.retrieved) <= TopK
             /\ response.sources \in Seq(Chunk) /\ Len(response.sources) <= TopK
<1> DEFINE response == Reply(q, where, hits)
           sent == FitToBudget(hits)
<1>1. hits \in Seq(Chunk) /\ Len(hits) <= TopK
  <2>1. Allowed(where) \in SUBSET Chunk
    BY DEF Allowed
  <2> QED  BY <2>1, RetrievedProperties
<1>2. response.question = q /\ response.retrieved = hits /\ response.sources = IF Refuses(q, hits) THEN hits ELSE sent
  BY Zenon DEF Reply
<1>3. sent \in Seq(Chunk) /\ Len(sent) <= TopK
  <2>1. sent \in Seq(Chunk) /\ InOrderOf(sent, hits, Len(hits))
    BY <1>1, FitToBudgetProperties
  <2> HIDE DEF sent
  <2>2. Len(sent) <= Len(hits)
    BY <1>1, <2>1, InOrderLength
  <2>3. Len(sent) \in Nat /\ Len(hits) \in Nat /\ TopK \in Nat
    BY <1>1, <2>1, ConstantTypes
  <2> QED  BY <1>1, <2>1, <2>2, <2>3
<1> HIDE DEF sent, response
<1>4. /\ response.retrieved \in Seq(Chunk) /\ Len(response.retrieved) <= TopK
      /\ response.sources \in Seq(Chunk) /\ Len(response.sources) <= TopK
  BY <1>1, <1>2, <1>3
<1> QED  BY <1>2, <1>4 DEF response

\* Only an answer has sources, and the next ingest or delete forgets it.
LEMMA SourcesInductive == RAGInv /\ AnswersInv /\ SourcesInv /\ [RAGNext]_ragvars => SourcesInv'
<1> SUFFICES ASSUME RAGInv, AnswersInv, SourcesInv, [RAGNext]_ragvars
             PROVE  SourcesInv'
  OBVIOUS
<1>1. ASSUME answer' = NoAnswer
      PROVE  SourcesInv'
  BY <1>1 DEF SourcesInv
<1>2. ASSUME NEW documents \in Batches, Ingest(documents)
      PROVE  SourcesInv'
  BY <1>1, <1>2 DEF Ingest, Ingested, EmbeddingFailed
<1>3. ASSUME NEW s \in Sources, Delete(s)
      PROVE  SourcesInv'
  BY <1>1, <1>3 DEF Delete
<1>4. ASSUME NEW q \in Questions, NEW where \in Filters, Answer(q, where)
      PROVE  SourcesInv'
  <2>1. CASE \E hits \in Retrieved(q, where) : answer' = Reply(q, where, hits)
    <3>1. PICK hits \in Retrieved(q, where) : answer' = Reply(q, where, hits)
      BY <2>1
    <3>2. config \in Configs /\ store \in Seq(Chunk) /\ bm25 \in Seq(Chunk)
      BY DEF AnswersInv, RAGInv
    <3>3. /\ answer'.question = q
          /\ answer'.retrieved \in Seq(Chunk) /\ Len(answer'.retrieved) <= TopK
          /\ answer'.sources \in Seq(Chunk) /\ Len(answer'.sources) <= TopK
      BY <3>1, <3>2, ReplySources, Zenon
    <3> QED  BY <3>3 DEF SourcesInv
  <2>2. CASE Raised(q, where)
    <3>1. answer'.question = q /\ answer'.retrieved = <<>> /\ answer'.sources = <<>>
      BY <2>2 DEF Raised
    <3>2. <<>> \in Seq(Chunk) /\ Len(<<>>) = 0 /\ TopK \in Nat
      BY ConstantTypes
    <3>3. /\ answer'.retrieved \in Seq(Chunk) /\ Len(answer'.retrieved) <= TopK
          /\ answer'.sources \in Seq(Chunk) /\ Len(answer'.sources) <= TopK
      BY <3>1, <3>2
    <3> QED  BY <3>1, <3>3 DEF SourcesInv
  <2> QED  BY <1>4, <2>1, <2>2 DEF Answer
<1>5. CASE UNCHANGED ragvars
  BY <1>5 DEF ragvars, SourcesInv
<1> QED  BY <1>2, <1>3, <1>4, <1>5 DEF RAGNext

\* RAGEvaluator: for any vocabulary and any chunks, the metrics of an answer's
\* sources tell one story, whatever the markers.
THEOREM ScorecardAgrees == RAGSpec => []MetricsAgree
<1>1. RAGInit => SourcesInv
  BY DEF RAGInit, SourcesInv
<1>2. SourcesInv => MetricsAgree
  <2> SUFFICES ASSUME SourcesInv, answer # NoAnswer
               PROVE  OneStory(answer.sources, answer.question)
    BY Zenon DEF MetricsAgree
  <2>1. /\ answer.question \in Questions
        /\ answer.sources \in Seq(Chunk) /\ Len(answer.sources) <= TopK
    BY DEF SourcesInv
  <2>2. Len(answer.sources) <= Len(Gain)
    <3>1. /\ TopK \in Nat /\ TopK <= Len(Gain) /\ Len(Gain) \in Nat
          /\ Len(answer.sources) \in Nat
      BY <2>1, RAGTypes, GainTyped
    <3> QED  BY <2>1, <3>1
  <2> QED  BY <2>1, <2>2, MetricsTellOneStory
<1> QED  BY <1>1, <1>2, RAGAlways, SourcesInductive, PTL DEF RAGSpec

-----------------------------------------------------------------------------
(* What stands around a retriever, and in the place of its store.          *)

\* A ranking's first are those of any part of it that holds them.
LEMMA PairsOfPart ==
  ASSUME NEW T \in SUBSET (Int \X Nat), IsFiniteSet(T), NEW U \in SUBSET T,
         NEW m \in 0 .. Cardinality(T), \A n \in 1 .. m : RankedPairs(T)[n] \in U
  PROVE  /\ Cardinality(U) \in m .. Cardinality(T)
         /\ \A n \in 1 .. m : RankedPairs(U)[n] = RankedPairs(T)[n]
<1> DEFINE C == Cardinality(T)
           D == Cardinality(U)
           r == RankedPairs(T)
           s == RankedPairs(U)
<1>1. IsFiniteSet(U) /\ D \in Nat /\ C \in Nat /\ D <= C
  <2>1. IsFiniteSet(U) /\ Cardinality(U) <= Cardinality(T)
    BY FS_Subset
  <2> QED  BY <2>1, FS_CardinalityType
<1>2. U \in SUBSET (Int \X Nat)
  OBVIOUS
<1>3. /\ r \in [1 .. C -> T] /\ \A t \in T : \E n \in 1 .. C : r[n] = t
      /\ \A p \in T, n \in 1 .. C : p = r[n] <=> Cardinality(Preceding(p, T)) = n - 1
      /\ \A i, n \in 1 .. C : r[i] \in Preceding(r[n], T) <=> i < n
  BY PairsAreRanked
<1>4. /\ s \in [1 .. D -> U] /\ \A t \in U : \E n \in 1 .. D : s[n] = t
      /\ \A p \in U, n \in 1 .. D : p = s[n] <=> Cardinality(Preceding(p, U)) = n - 1
  BY <1>1, <1>2, PairsAreRanked
<1> HIDE DEF r, s, C, D
<1>5. \A n \in 1 .. m : n \in 1 .. C /\ r[n] \in U
  BY <1>1 DEF C, r
<1>6. ASSUME NEW n \in 1 .. m
      PROVE  Preceding(r[n], U) = Preceding(r[n], T)
  <2>1. \A p \in Preceding(r[n], T) : p \in U
    <3> SUFFICES ASSUME NEW p \in Preceding(r[n], T)
                 PROVE  p \in U
      OBVIOUS
    <3>1. p \in T
      BY DEF Preceding
    <3>2. PICK i \in 1 .. C : r[i] = p
      BY <1>3, <3>1
    <3>3. i < n
      BY <1>3, <1>5, <3>2
    <3>4. i \in 1 .. m
      BY <1>1, <1>5, <3>3
    <3> QED  BY <1>5, <3>2, <3>4
  <2>2. Preceding(r[n], U) = Preceding(r[n], T) \cap U
    BY DEF Preceding
  <2> QED  BY <2>1, <2>2
<1>7. ASSUME NEW n \in 1 .. m
      PROVE  n \in 1 .. D /\ s[n] = r[n]
  <2>1. r[n] \in U /\ n \in 1 .. C /\ Cardinality(Preceding(r[n], U)) = n - 1
    BY <1>3, <1>5, <1>6
  <2>2. PICK i \in 1 .. D : s[i] = r[n]
    BY <1>4, <2>1
  <2>3. i - 1 = n - 1
    BY <1>4, <2>1, <2>2
  <2>4. i = n
    BY <2>1, <2>3
  <2> QED  BY <2>2, <2>4
<1>8. D \in m .. C
  <2>1. m \in Nat /\ m <= C
    BY <1>1 DEF C
  <2>2. CASE m = 0
    BY <1>1, <2>2
  <2>3. CASE m # 0
    <3>1. m \in 1 .. D
      BY <1>7, <2>1, <2>3
    <3> QED  BY <1>1, <2>1, <3>1
  <2> QED  BY <2>2, <2>3
<1> QED  BY <1>7, <1>8 DEF C, D, r, s

\* The best of some positions are those of any part of them that holds the best.
LEMMA BestOfPart ==
  ASSUME NEW S \in SUBSET Nat, IsFiniteSet(S), NEW P \in SUBSET S,
         NEW score, NEW part, \A i \in S : score[i] \in Int, \A i \in P : part[i] = score[i],
         NEW k \in Nat, \A n \in DOMAIN Take(Ranked(S, score), k) : Take(Ranked(S, score), k)[n] \in P
  PROVE  Take(Ranked(P, part), k) = Take(Ranked(S, score), k)
<1> DEFINE T == {<<score[i], i>> : i \in S}
           U == {<<part[i], i>> : i \in P}
           C == Cardinality(S)
           D == Cardinality(P)
           r == Ranked(S, score)
           s == Ranked(P, part)
           m == IF k <= C THEN k ELSE C
           a == Take(r, k)
           b == Take(s, k)
<1>1. T \in SUBSET (Int \X Nat) /\ U \in SUBSET T
  OBVIOUS
<1>2. ASSUME NEW Q \in SUBSET Nat, NEW f, IsFiniteSet(Q), \A i \in Q : f[i] \in Int
      PROVE  LET V == {<<f[i], i>> : i \in Q}
             IN  /\ IsFiniteSet(V) /\ Cardinality(V) = Cardinality(Q)
                 /\ \A n \in 1 .. Cardinality(Q) : Ranked(Q, f)[n] = RankedPairs(V)[n][2]
                 /\ Ranked(Q, f) \in Seq(Q) /\ Len(Ranked(Q, f)) = Cardinality(Q)
  <2> DEFINE V == {<<f[i], i>> : i \in Q}
             pair == [i \in Q |-> <<f[i], i>>]
  <2>1. pair \in Injection(Q, V) /\ pair \in Surjection(Q, V)
    <3>1. \A i, j \in Q : pair[i] = pair[j] => i = j
      OBVIOUS
    <3>2. pair \in [Q -> V]
      OBVIOUS
    <3>3. \A t \in V : \E i \in Q : pair[i] = t
      OBVIOUS
    <3> HIDE DEF pair, V
    <3> QED  BY <3>1, <3>2, <3>3 DEF Injection, Surjection, IsInjective
  <2>2. IsFiniteSet(V) /\ Cardinality(V) = Cardinality(Q)
    <3> HIDE DEF pair, V
    <3> QED  BY <1>2, <2>1, FS_Surjection
  <2>3. \A n \in 1 .. Cardinality(Q) :
          /\ Ranked(Q, f)[n] = (CHOOSE p \in V : Cardinality(Preceding(p, V)) = n - 1)[2]
          /\ RankedPairs(V)[n] = CHOOSE p \in V : Cardinality(Preceding(p, V)) = n - 1
    BY <2>2, Zenon DEF Ranked, RankedPairs
  <2>4. \A n \in 1 .. Cardinality(Q) : Ranked(Q, f)[n] = RankedPairs(V)[n][2]
    <3> HIDE DEF V
    <3> QED  BY <2>3, Zenon
  <2>5. Ranked(Q, f) \in Seq(Q) /\ Len(Ranked(Q, f)) = Cardinality(Q)
    <3>1. Cardinality(Q) \in Nat /\ Ranked(Q, f) \in [1 .. Cardinality(Q) -> Q]
      BY <1>2, RankedProperties
    <3> QED  BY <3>1
  <2> QED  BY <2>2, <2>4, <2>5
<1>3. IsFiniteSet(P) /\ \A i \in P : part[i] \in Int
  <2>1. IsFiniteSet(P)
    BY FS_Subset
  <2> QED  BY <2>1
<1>4. /\ IsFiniteSet(T) /\ Cardinality(T) = C
      /\ \A n \in 1 .. C : r[n] = RankedPairs(T)[n][2]
      /\ r \in Seq(S) /\ Len(r) = C
  BY <1>2, Zenon
<1>5. /\ IsFiniteSet(U) /\ Cardinality(U) = D
      /\ \A n \in 1 .. D : s[n] = RankedPairs(U)[n][2]
      /\ s \in Seq(P) /\ Len(s) = D
  <2>1. P \in SUBSET Nat
    OBVIOUS
  <2> QED  BY <1>2, <1>3, <2>1, Zenon
<1>6. C \in Nat /\ D \in Nat /\ RankedPairs(T) \in [1 .. C -> T]
  BY <1>1, <1>3, <1>4, FS_CardinalityType, PairsAreRanked
<1>7. \A t \in T : t[2] \in S /\ t = <<score[t[2]], t[2]>>
  OBVIOUS
<1>8. \A i \in P : <<score[i], i>> \in U
  OBVIOUS
<1> HIDE DEF T, U, r, s
<1>9. /\ a \in Seq(S) /\ Len(a) = m /\ \A n \in 1 .. m : n \in 1 .. C /\ a[n] = r[n]
  <2>1. /\ a \in Seq(S) /\ Len(a) = IF k <= Len(r) THEN k ELSE Len(r)
        /\ \A n \in 1 .. Len(a) : n \in 1 .. Len(r) /\ a[n] = r[n]
    BY <1>4, TakeProperties
  <2> HIDE DEF a
  <2> QED  BY <1>4, <2>1
<1>10. /\ b \in Seq(P) /\ Len(b) = IF k <= D THEN k ELSE D
       /\ \A n \in 1 .. Len(b) : n \in 1 .. D /\ b[n] = s[n]
  <2>1. /\ b \in Seq(P) /\ Len(b) = IF k <= Len(s) THEN k ELSE Len(s)
        /\ \A n \in 1 .. Len(b) : n \in 1 .. Len(s) /\ b[n] = s[n]
    BY <1>5, TakeProperties
  <2> HIDE DEF b
  <2> QED  BY <1>5, <2>1
<1>11. \A n \in 1 .. Len(a) : a[n] \in P
  <2>1. DOMAIN a = 1 .. Len(a)
    BY <1>9
  <2> QED  BY <2>1 DEF r
<1> HIDE DEF a, b
<1>12. \A n \in 1 .. m : RankedPairs(T)[n] \in U
  <2> SUFFICES ASSUME NEW n \in 1 .. m
               PROVE  RankedPairs(T)[n] \in U
    OBVIOUS
  <2>1. n \in 1 .. C /\ r[n] \in P /\ r[n] = RankedPairs(T)[n][2]
    BY <1>4, <1>9, <1>11
  <2>2. RankedPairs(T)[n] \in T
    BY <1>6, <2>1
  <2>3. RankedPairs(T)[n] = <<score[r[n]], r[n]>>
    BY <1>7, <2>1, <2>2
  <2> QED  BY <1>8, <2>1, <2>3
<1>13. /\ D \in m .. C /\ \A n \in 1 .. m : RankedPairs(U)[n] = RankedPairs(T)[n]
  <2>1. m \in 0 .. Cardinality(T)
    BY <1>4, <1>6
  <2> HIDE DEF m, C, D
  <2> QED  BY <1>1, <1>4, <1>5, <1>12, <2>1, PairsOfPart
<1>14. Len(a) = Len(b)
  BY <1>6, <1>9, <1>10, <1>13
<1>15. \A n \in 1 .. Len(a) : a[n] = b[n]
  <2> SUFFICES ASSUME NEW n \in 1 .. Len(a)
               PROVE  a[n] = b[n]
    OBVIOUS
  <2>1. n \in 1 .. m /\ n \in 1 .. C /\ a[n] = r[n] /\ n \in 1 .. D /\ b[n] = s[n]
    BY <1>9, <1>10, <1>14
  <2>2. r[n] = RankedPairs(T)[n][2] /\ s[n] = RankedPairs(U)[n][2]
    BY <1>4, <1>5, <2>1
  <2>3. RankedPairs(U)[n] = RankedPairs(T)[n]
    BY <1>13, <2>1
  <2> QED  BY <2>1, <2>2, <2>3, Zenon
<1>16. a = b
  <2>1. a \in Seq(Nat) /\ b \in Seq(Nat)
    <3>1. \A Q \in SUBSET Nat : \A x \in Seq(Q) : x \in Seq(Nat)
      BY SeqMonotonic, Zenon
    <3>2. S \in SUBSET Nat /\ P \in SUBSET Nat /\ a \in Seq(S) /\ b \in Seq(P)
      BY <1>9, <1>10
    <3> QED  BY <3>1, <3>2, Zenon
  <2> QED  BY <1>14, <1>15, <2>1, SeqEqual
<1> QED  BY <1>16, Zenon DEF a, b, r, s

\* One of the orders a search may return: positions of candidates, each once, as
\* close to the question as the best.
Ordering(p, index, q, k, candidates) ==
  LET score == [i \in candidates |-> Cosine[q][index[i].text]]
      best == Take(Ranked(candidates, score), k)
  IN  /\ p \in [DOMAIN best -> candidates] /\ IsInjective(p)
      /\ \A n \in DOMAIN best : score[p[n]] = score[best[n]]

\* What a search returns stands at the positions of an ordering.
LEMMA NearestIs ==
  ASSUME NEW index, NEW q, NEW k, NEW candidates
  PROVE  LET score == [i \in candidates |-> Cosine[q][index[i].text]]
             best == Take(Ranked(candidates, score), k)
         IN  /\ \A found \in Nearest(index, q, k, candidates) :
                  \E p : Ordering(p, index, q, k, candidates) /\ found = [n \in DOMAIN best |-> index[p[n]]]
             /\ \A p : Ordering(p, index, q, k, candidates) =>
                  [n \in DOMAIN best |-> index[p[n]]] \in Nearest(index, q, k, candidates)
BY Zenon DEF Nearest, Ordering

\* Of itself, a result recalls everything.
LEMMA RecallsItself ==
  ASSUME NEW found \in Seq(Chunk)
  PROVE  ~(ANNRecall(found, found)[1] < ANNRecall(found, found)[2])
<1> DEFINE D == DOMAIN found
           ids == {found[n].id : n \in D}
<1>1. CASE found = <<>>
  BY <1>1 DEF ANNRecall
<1>2. CASE found # <<>>
  <2>1. {n \in D : found[n].id \in ids} = D
    OBVIOUS
  <2>2. ANNRecall(found, found) = <<Cardinality(D), Cardinality(ids)>>
    BY <1>2, <2>1, Zenon DEF ANNRecall
  <2>3. IsFiniteSet(D) /\ Cardinality(D) \in Nat
    <3>1. Len(found) \in Nat /\ D = 1 .. Len(found) /\ 1 \in Int /\ Len(found) \in Int
      OBVIOUS
    <3>2. IsFiniteSet(1 .. Len(found))
      BY <3>1, FS_Interval
    <3> QED  BY <3>1, <3>2, FS_CardinalityType
  <2>4. IsFiniteSet(ids) /\ Cardinality(ids) <= Cardinality(D)
    <3> DEFINE id == [n \in D |-> found[n].id]
    <3>1. id \in Surjection(D, ids)
      <4>1. id \in [D -> ids] /\ \A x \in ids : \E n \in D : id[n] = x
        OBVIOUS
      <4> HIDE DEF id, ids, D
      <4> QED  BY <4>1 DEF Surjection
    <3> HIDE DEF id, ids, D
    <3> QED  BY <2>3, <3>1, FS_Surjection
  <2>5. Cardinality(ids) \in Nat
    BY <2>4, FS_CardinalityType
  <2> DEFINE c == Cardinality(D)
             d == Cardinality(ids)
  <2>6. c \in Nat /\ d \in Nat /\ d <= c /\ ANNRecall(found, found)[1] = c /\ ANNRecall(found, found)[2] = d
    BY <2>2, <2>3, <2>4, <2>5
  <2> HIDE DEF c, d
  <2> QED  BY <2>6
<1> QED  BY <1>1, <1>2

\* An IVF search that misses nothing it should find looked into every list that holds it.
LEMMA IVFMisses ==
  ASSUME NEW index \in Seq(Chunk), NEW q \in Questions, NEW where
  PROVE  MissesUnprobed(index, q, where)
<1> SUFFICES ASSUME NEW list \in [Texts -> 1 .. 2], NEW probes \in {{1}, {1, 2}},
                    NEW near \in IVF(index, q, TopK, where, list, probes)
             PROVE  /\ ToSet(near) \subseteq {index[i] : i \in Filtered(index, where)}
                    /\ \E exact \in Searches(index, q, TopK, where) :
                         ANNRecall(near, exact)[1] < ANNRecall(near, exact)[2] =>
                           \E n \in DOMAIN exact : list[exact[n].text] \notin probes
  BY Zenon DEF MissesUnprobed
<1> DEFINE S == Filtered(index, where)
           P == {i \in S : list[index[i].text] \in probes}
           score == [i \in S |-> Cosine[q][index[i].text]]
           part == [i \in P |-> Cosine[q][index[i].text]]
           best == Take(Ranked(S, score), TopK)
           bestPart == Take(Ranked(P, part), TopK)
<1>1. /\ Len(index) \in Nat /\ S \in SUBSET (1 .. Len(index)) /\ TopK \in Nat
      /\ \A i \in S : index[i] \in Allowed(where)
  BY FilteredProperties, ConstantTypes
<1>2. P \in SUBSET S /\ near \in Nearest(index, q, TopK, P)
  BY Zenon DEF IVF
<1>3. near \in Seq(Chunk)
  <2>1. near \in Seq(Allowed(where))
    BY <1>1, <1>2, NearestAllowed
  <2>2. Allowed(where) \subseteq Chunk
    BY DEF Allowed
  <2> QED  BY <2>1, <2>2, SeqMonotonic
<1>4. PICK p : Ordering(p, index, q, TopK, P) /\ near = [n \in DOMAIN bestPart |-> index[p[n]]]
  <2> HIDE DEF P
  <2>1. \A found \in Nearest(index, q, TopK, P) :
          \E p : Ordering(p, index, q, TopK, P) /\ found = [n \in DOMAIN bestPart |-> index[p[n]]]
    BY Zenon DEF Nearest, Ordering
  <2> QED  BY <1>2, <2>1, Zenon
<1>5. /\ p \in [DOMAIN bestPart -> P] /\ IsInjective(p)
      /\ \A n \in DOMAIN bestPart : part[p[n]] = part[bestPart[n]]
  BY <1>4, Zenon DEF Ordering
<1>6. \A i \in S : score[i] \in Int /\ (i \in P => part[i] = score[i])
  <2>1. \A c \in Allowed(where) : c.text \in Texts
    BY DEF Allowed, Chunk
  <2>2. \A t \in Texts : Cosine[q][t] \in Int
    BY CosineTyped
  <2> HIDE DEF S
  <2> QED  BY <1>1, <2>1, <2>2
<1>7. S \in SUBSET Nat /\ IsFiniteSet(S)
  <2>1. IsFiniteSet(1 .. Len(index))
    <3>1. 1 \in Int /\ Len(index) \in Int
      BY <1>1
    <3> QED  BY <3>1, FS_Interval
  <2>2. IsFiniteSet(S)
    BY <1>1, <2>1, FS_Subset, Zenon
  <2> HIDE DEF S
  <2> QED  BY <1>1, <2>2
<1>8. \A i \in S : i \notin P => list[index[i].text] \notin probes
  OBVIOUS
<1> HIDE DEF P, score, part
<1>9. /\ best \in Seq(S) /\ DOMAIN best = 1 .. Len(best)
      /\ \A m, n \in DOMAIN best : best[m] = best[n] => m = n
  <2> HIDE DEF S
  <2>1. /\ best \in Seq(S) /\ \A m, n \in DOMAIN best : best[m] = best[n] => m = n
    BY <1>1, <1>6, RankedTake
  <2> HIDE DEF best
  <2> QED  BY <2>1
<1>10. ToSet(near) \subseteq {index[i] : i \in S}
  <2> SUFFICES ASSUME NEW n \in DOMAIN near
               PROVE  near[n] \in {index[i] : i \in S}
    BY DEF ToSet
  <2>1. n \in DOMAIN bestPart /\ near[n] = index[p[n]]
    BY <1>4
  <2>2. p[n] \in S
    BY <1>2, <1>5, <2>1
  <2> QED  BY <2>1, <2>2
<1>11. CASE \A n \in DOMAIN best : best[n] \in P
  <2>1. bestPart = best
    <3> HIDE DEF S
    <3> QED  BY <1>1, <1>2, <1>6, <1>7, <1>11, BestOfPart
  <2>2. \A n \in DOMAIN best : p[n] \in S /\ score[p[n]] = score[best[n]]
    <3> SUFFICES ASSUME NEW n \in DOMAIN best
                 PROVE  p[n] \in S /\ score[p[n]] = score[best[n]]
      OBVIOUS
    <3>1. p[n] \in P /\ best[n] \in P /\ part[p[n]] = part[best[n]]
      BY <1>5, <1>11, <2>1
    <3> QED  BY <1>2, <1>6, <3>1
  <2>3. p \in [DOMAIN best -> S] /\ IsInjective(p)
    <3> HIDE DEF best, bestPart, S
    <3> QED  BY <1>5, <2>1, <2>2
  <2>4. Ordering(p, index, q, TopK, S)
    BY <2>2, <2>3, Zenon DEF Ordering, score, best
  <2>5. [n \in DOMAIN best |-> index[p[n]]] \in Nearest(index, q, TopK, S)
    BY <2>4, NearestIs, Zenon DEF score, best
  <2>6. near \in Searches(index, q, TopK, where)
    BY <1>4, <2>1, <2>5, Zenon DEF Searches
  <2> QED  BY <1>3, <1>10, <2>6, RecallsItself
<1>12. CASE ~(\A n \in DOMAIN best : best[n] \in P)
  <2> DEFINE exact == [n \in DOMAIN best |-> index[best[n]]]
  <2>1. best \in [DOMAIN best -> S] /\ IsInjective(best)
    <3> HIDE DEF best, S
    <3>1. best \in [DOMAIN best -> S]
      BY <1>9
    <3> QED  BY <1>9, <3>1 DEF IsInjective
  <2>2. Ordering(best, index, q, TopK, S)
    BY <2>1, Zenon DEF Ordering, score, best
  <2>3. exact \in Nearest(index, q, TopK, S)
    BY <2>2, NearestIs, Zenon DEF score, best
  <2>4. exact \in Searches(index, q, TopK, where)
    BY <2>3, Zenon DEF Searches
  <2>5. PICK n \in DOMAIN best : best[n] \notin P
    BY <1>12
  <2>6. best[n] \in S /\ n \in DOMAIN exact /\ exact[n] = index[best[n]]
    <3> HIDE DEF best, S
    <3> QED  BY <1>9
  <2>7. list[exact[n].text] \notin probes
    BY <1>8, <2>5, <2>6
  <2> QED  BY <1>10, <2>4, <2>6, <2>7, Zenon
<1> QED  BY <1>11, <1>12

\* A parent comes once, at its first child, and is one of a child.
LEMMA ParentsOnce ==
  ASSUME NEW found \in Seq(Chunk), NEW where, \A n \in DOMAIN found : found[n].source \in where
  PROVE  LET parents == Parents(found, [c \in ToSet(found) |-> c.source], TopK)
         IN  IsInjective(parents) /\ ToSet(parents) \subseteq where
<1> DEFINE parent == [c \in ToSet(found) |-> c.source]
           D == DOMAIN found
           firsts == {i \in D : \A j \in 1 .. i - 1 : parent[found[j]] # parent[found[i]]}
           order == Take(Ranked(firsts, [i \in firsts |-> 0]), TopK)
           parents == Parents(found, parent, TopK)
<1>1. /\ Len(found) \in Nat /\ D = 1 .. Len(found) /\ TopK \in Nat
      /\ \A n \in D : found[n] \in ToSet(found)
  BY ConstantTypes DEF ToSet
<1>2. \A n \in D : parent[found[n]] = found[n].source
  BY <1>1
<1>3. firsts \in SUBSET (1 .. Len(found)) /\ \A i \in firsts : i \in D
  BY <1>1
<1>4. \A i, j \in firsts : parent[found[i]] = parent[found[j]] => i = j
  <2> SUFFICES ASSUME NEW i \in firsts, NEW j \in firsts, parent[found[i]] = parent[found[j]]
               PROVE  i = j
    OBVIOUS
  <2>1. i \in 1 .. Len(found) /\ j \in 1 .. Len(found)
    BY <1>3
  <2>2. ~(j \in 1 .. i - 1) /\ ~(i \in 1 .. j - 1)
    OBVIOUS
  <2> QED  BY <1>1, <2>1, <2>2
<1>5. parents = [n \in DOMAIN order |-> parent[found[order[n]]]]
  BY Zenon DEF Parents
<1> HIDE DEF parent, parents, firsts
<1>6. /\ order \in Seq(firsts) /\ \A m, n \in DOMAIN order : order[m] = order[n] => m = n
  <2> DEFINE score == [i \in firsts |-> 0]
  <2>1. \A i \in firsts : score[i] \in Int
    OBVIOUS
  <2> HIDE DEF score
  <2>2. LET r == Take(Ranked(firsts, score), TopK)
        IN  r \in Seq(firsts) /\ \A m, n \in DOMAIN r : r[m] = r[n] => m = n
    BY <1>1, <1>3, <2>1, RankedTake
  <2> QED  BY <2>2 DEF score
<1> HIDE DEF order
<1>7. \A n \in DOMAIN order : order[n] \in firsts
  BY <1>6
<1>8. DOMAIN parents = DOMAIN order /\ \A n \in DOMAIN order : parents[n] = parent[found[order[n]]]
  BY <1>5
<1>9. IsInjective(parents)
  BY <1>4, <1>6, <1>7, <1>8 DEF IsInjective
<1>10. ToSet(parents) \subseteq where
  <2> SUFFICES ASSUME NEW n \in DOMAIN parents
               PROVE  parents[n] \in where
    BY DEF ToSet
  <2>1. order[n] \in D /\ parents[n] = found[order[n]].source
    BY <1>2, <1>3, <1>7, <1>8
  <2> QED  BY <2>1
<1> QED  BY <1>9, <1>10 DEF parents, parent

\* What is picked of a list is no longer than it.
LEMMA AmongNoLonger ==
  ASSUME NEW X, NEW some
  PROVE  \A s \in Seq(X) : Len(Among(s, some)) <= Len(s)
<1> DEFINE S == {s \in Seq(X) : Len(Among(s, some)) <= Len(s)}
<1>1. <<>> \in S
  <2>1. <<>> \in Seq(X) /\ Len(<<>>) <= Len(<<>>)
    OBVIOUS
  <2> QED  BY <2>1, AmongEmpty
<1>2. ASSUME NEW s \in Seq(X), NEW x \in X, s \in S
      PROVE  Append(s, x) \in S
  <2> DEFINE a == Among(s, some)
             longer == Append(s, x)
             found == Among(longer, some)
  <2>1. /\ x \in some => found = Append(a, x)
        /\ x \notin some => found = a
        /\ a \in Seq(X)
    BY AmongAppend
  <2>2. longer \in Seq(X) /\ Len(longer) = Len(s) + 1 /\ Len(s) \in Nat /\ Len(a) <= Len(s)
    BY <1>2
  <2> HIDE DEF a, longer, found
  <2>3. Len(a) \in Nat /\ Len(Append(a, x)) = Len(a) + 1
    BY <2>1
  <2>4. Len(found) = Len(a) + 1 \/ Len(found) = Len(a)
    BY <2>1, <2>3, Zenon
  <2>5. Len(found) <= Len(longer)
    BY <2>2, <2>3, <2>4
  <2> QED  BY <2>2, <2>5 DEF found, longer
<1>3. Seq(X) \subseteq S
  <2> HIDE DEF S
  <2> QED  BY <1>1, <1>2, SeqInduction
<1> QED  BY <1>3

\* Chroma, fetching everything, returns the last chunk of each id that the filter
\* lets through.
LEMMA ChromaHolds ==
  ASSUME NEW added \in Seq(Chunk), NEW q \in Questions, NEW where
  PROVE  MissesReplaced(added, q, where)
<1> DEFINE L == Len(added)
           last == {i \in DOMAIN added : \A j \in i + 1 .. Len(added) : added[j].id # added[i].id}
           score == [i \in last |-> Cosine[q][added[i].text]]
           limit == IF where = Sources THEN Len(added) ELSE 5 * Len(added)
           rank == Ranked(last, score)
           C == Cardinality(last)
           near == Take(rank, limit)
           passing == Filtered(added, where)
           picked == FlattenSeq([n \in DOMAIN near |->
                                   IF near[n] \in passing THEN <<near[n]>> ELSE <<>>])
           hits == Take(picked, Len(added))
           all == Chroma(added, q, Len(added), where)
<1>1. /\ L \in Nat /\ DOMAIN added = 1 .. L /\ \A i \in 1 .. L : added[i] \in Chunk
      /\ last \in SUBSET (1 .. L) /\ last \in SUBSET Nat
  OBVIOUS
<1>2. all = [n \in DOMAIN hits |-> added[hits[n]]]
  BY Zenon DEF Chroma
<1>3. \A i \in last : score[i] \in Int
  <2>1. \A c \in Chunk : c.text \in Texts
    BY DEF Chunk
  <2>2. \A t \in Texts : Cosine[q][t] \in Int
    BY CosineTyped
  <2> QED  BY <1>1, <2>1, <2>2
<1>4. limit \in Nat /\ limit >= L
  BY <1>1
<1>5. \A i \in 1 .. L : i \in passing <=> added[i].source \in where
  BY <1>1 DEF Filtered
<1>6. \A i \in 1 .. L : i \in last <=> \A j \in i + 1 .. L : added[j].id # added[i].id
  BY <1>1
<1> HIDE DEF last, score, limit, passing, hits, all
<1>7. IsFiniteSet(last) /\ C \in Nat /\ C <= L
  <2>1. IsFiniteSet(1 .. L) /\ Cardinality(1 .. L) = L
    <3>1. 1 \in Int /\ L \in Int
      BY <1>1
    <3> HIDE DEF L
    <3>2. IsFiniteSet(1 .. L) /\ Cardinality(1 .. L) = IF 1 > L THEN 0 ELSE L - 1 + 1
      BY <3>1, FS_Interval
    <3> QED  BY <1>1, <3>2
  <2>2. IsFiniteSet(last) /\ Cardinality(last) <= L
    <3> HIDE DEF L
    <3>1. last \in SUBSET (1 .. L)
      BY <1>1
    <3>2. IsFiniteSet(last) /\ Cardinality(last) <= Cardinality(1 .. L)
      BY <2>1, <3>1, FS_Subset, Zenon
    <3> QED  BY <2>1, <3>2
  <2> QED  BY <2>2, FS_CardinalityType
<1>8. rank \in [1 .. C -> last] /\ (\A i \in last : \E n \in 1 .. C : rank[n] = i)
  BY <1>1, <1>3, <1>7, RankedProperties
<1> HIDE DEF rank, C, L
<1>9. rank \in Seq(last) /\ Len(rank) = C
  BY <1>7, <1>8
<1>10. near \in Seq(last) /\ ToSet(near) = last /\ Len(near) = C
  <2>1. /\ near \in Seq(last) /\ Len(near) = IF limit <= Len(rank) THEN limit ELSE Len(rank)
        /\ \A n \in 1 .. Len(near) : n \in 1 .. Len(rank) /\ near[n] = rank[n]
    BY <1>4, <1>9, TakeProperties
  <2> HIDE DEF near
  <2>2. Len(near) = C
    BY <1>1, <1>4, <1>7, <1>9, <2>1
  <2>3. DOMAIN near = 1 .. C /\ \A n \in 1 .. C : near[n] = rank[n] /\ near[n] \in last
    BY <2>1, <2>2
  <2> QED  BY <1>8, <2>1, <2>2, <2>3 DEF ToSet
<1> HIDE DEF near
<1>11. picked = Among(near, passing)
  BY DEF Among
<1>12. picked \in Seq(last) /\ ToSet(picked) = last \cap passing
  <2>1. \A s \in Seq(last) :
          Among(s, passing) \in Seq(last) /\ ToSet(Among(s, passing)) = ToSet(s) \cap passing
    BY AmongElements
  <2> HIDE DEF picked
  <2> QED  BY <1>10, <1>11, <2>1, Zenon
<1>13. Len(picked) <= L
  <2>1. Len(Among(near, passing)) <= Len(near)
    BY <1>10, AmongNoLonger
  <2>2. Len(picked) \in Nat
    <3> HIDE DEF picked
    <3> QED  BY <1>12
  <2> HIDE DEF picked
  <2> QED  BY <1>1, <1>7, <1>10, <1>11, <2>1, <2>2
<1> HIDE DEF picked
<1>14. hits = picked
  <2>1. /\ hits \in Seq(last) /\ Len(hits) = IF L <= Len(picked) THEN L ELSE Len(picked)
        /\ \A n \in 1 .. Len(hits) : hits[n] = picked[n]
    BY <1>1, <1>12, TakeProperties DEF hits, L
  <2>2. Len(hits) = Len(picked)
    <3>1. Len(picked) \in Nat
      BY <1>12
    <3> QED  BY <1>1, <1>13, <2>1, <3>1
  <2> QED  BY <1>12, <2>1, <2>2, SeqEqual
<1>15. \A c : c \in ToSet(all) <=> \E i \in last : added[i].source \in where /\ c = added[i]
  <2>1. \A c : c \in ToSet(all) <=> \E n \in DOMAIN picked : c = added[picked[n]]
    BY <1>2, <1>14 DEF ToSet
  <2>2. \A i : i \in last /\ i \in passing <=> \E n \in DOMAIN picked : i = picked[n]
    BY <1>12 DEF ToSet
  <2> QED  BY <1>1, <1>5, <2>1, <2>2
<1>16. ASSUME NEW i \in DOMAIN added
       PROVE  added[i] \in ToSet(all) <=>
                /\ added[i].source \in where
                /\ \E j \in DOMAIN added :
                     /\ added[j] = added[i]
                     /\ \A l \in j + 1 .. Len(added) : added[l].id # added[j].id
  <2>1. added[i] \in ToSet(all) <=> \E j \in last : added[j].source \in where /\ added[i] = added[j]
    BY <1>15
  <2>2. \A j \in 1 .. L : j \in last <=> \A l \in j + 1 .. Len(added) : added[l].id # added[j].id
    BY <1>6 DEF L
  <2> QED  BY <1>1, <2>1, <2>2
<1>17. MissesReplaced(added, q, where)
  BY <1>16, Zenon DEF MissesReplaced, all
<1> QED  BY <1>17

\* Scores are at most twice a percentage of a hundred.
ScoreBound == 20000
Bounded(score) == score \in Int /\ 0 - ScoreBound <= score /\ score <= ScoreBound

\* The first of the best: one of the indices, and none scores more.
Scored(indices, score) ==
  indices \in SUBSET Nat /\ indices # {} /\ \A i \in indices : Bounded(score[i])
IsBest(best, indices, score) == best \in indices /\ \A i \in indices : score[i] <= score[best]
LEMMA FirstBestIs ==
  ASSUME NEW indices, NEW score, Scored(indices, score)
  PROVE  IsBest(FirstBest(indices, score), indices, score)
<1> DEFINE low == 0 - ScoreBound
           all == {score[j] : j \in indices}
           top == Max(all)
           best == {i \in indices : score[i] = top}
<1>0. indices \in SUBSET Nat /\ indices # {} /\ \A i \in indices : Bounded(score[i])
  BY DEF Scored
<1>1. all \in SUBSET (low .. ScoreBound) /\ all # {} /\ low \in Int /\ ScoreBound \in Int
  <2>1. low \in Int /\ ScoreBound \in Int
    BY DEF ScoreBound
  <2>2. \A i \in indices : score[i] \in low .. ScoreBound
    BY <1>0, <2>1 DEF Bounded
  <2> QED  BY <1>0, <2>1, <2>2
<1> HIDE DEF all, low
<1>2. top \in all /\ \A x \in all : x <= top
  BY <1>1, MaxIsGreatest
<1> HIDE DEF top
<1>3. best \in SUBSET Nat /\ best # {}
  BY <1>2, <1>0 DEF all
<1>4. FirstBest(indices, score) = Min(best)
  BY Zenon DEF FirstBest, top, all
<1>5. Min(best) \in best
  BY <1>3, MinIsLeast
<1>6. \A i \in indices : score[i] \in all
  BY DEF all
<1> QED  BY <1>2, <1>4, <1>5, <1>6 DEF IsBest

\* A trade-off is bounded, and is the relevance alone when lambda is 1.
LEMMA TradeOffIs ==
  ASSUME NEW q \in Questions, NEW found \in Seq(Chunk),
         NEW close \in [Texts -> [Texts -> 0 .. 100]], NEW lambda \in {0, 50, 100},
         NEW chosen \in Seq(DOMAIN found), chosen # <<>>, NEW i \in DOMAIN found
  PROVE  /\ Bounded(TradeOff(q, found, close, lambda, chosen, i))
         /\ lambda = 100 =>
              TradeOff(q, found, close, lambda, chosen, i) = 100 * Cosine[q][found[i].text]
<1> DEFINE near == {close[found[i].text][found[chosen[j]].text] : j \in DOMAIN chosen}
           redundancy == Max(near)
           score == TradeOff(q, found, close, lambda, chosen, i)
           relevance == Cosine[q][found[i].text]
<1>1. \A n \in DOMAIN found : found[n].text \in Texts
  <2>1. \A n \in DOMAIN found : found[n] \in Chunk
    OBVIOUS
  <2>2. \A c \in Chunk : c.text \in Texts
    BY DEF Chunk
  <2> QED  BY <2>1, <2>2
<1>2. \A x \in near : x \in 0 .. 100
  <2>1. \A j \in DOMAIN chosen : chosen[j] \in DOMAIN found
    OBVIOUS
  <2>2. \A t, u \in Texts : close[t][u] \in 0 .. 100
    OBVIOUS
  <2>3. \A j \in DOMAIN chosen : close[found[i].text][found[chosen[j]].text] \in 0 .. 100
    BY <1>1, <2>1, <2>2
  <2> SUFFICES ASSUME NEW x \in near
               PROVE  x \in 0 .. 100
    OBVIOUS
  <2>4. PICK j \in DOMAIN chosen : x = close[found[i].text][found[chosen[j]].text]
    BY Zenon
  <2> QED  BY <2>3, <2>4
<1>3. near # {}
  <2>1. 1 \in DOMAIN chosen
    OBVIOUS
  <2>2. close[found[i].text][found[chosen[1]].text] \in near
    BY <2>1, Zenon
  <2> QED  BY <2>2
<1>4. score = lambda * relevance - (100 - lambda) * redundancy
  BY Zenon DEF TradeOff
<1>5. relevance \in -100 .. 100 /\ relevance \in Int
  <2>1. found[i].text \in Texts
    BY <1>1
  <2>2. \A t \in Texts : Cosine[q][t] \in -100 .. 100 /\ Cosine[q][t] \in Int
    BY CosineTyped
  <2> QED  BY <2>1, <2>2
<1> HIDE DEF near, score, relevance
<1>6. redundancy \in 0 .. 100
  <2>1. 0 \in Int /\ 100 \in Int /\ near \in SUBSET (0 .. 100)
    BY <1>2
  <2>2. Max(near) \in near
    BY <1>3, <2>1, MaxIsGreatest
  <2> QED  BY <1>2, <2>2
<1> HIDE DEF redundancy
<1>7. /\ relevance \in Int /\ -100 <= relevance /\ relevance <= 100
      /\ redundancy \in Int /\ 0 <= redundancy /\ redundancy <= 100
  BY <1>5, <1>6
<1>8. /\ lambda = 0 => score = 0 - 100 * redundancy
      /\ lambda = 50 => score = 50 * relevance - 50 * redundancy
      /\ lambda = 100 => score = 100 * relevance - 0
  BY <1>4, <1>7
<1>9. Bounded(score)
  <2>1. score \in Int /\ 0 - 20000 <= score /\ score <= 20000
    <3>1. CASE lambda = 0
      BY <1>7, <1>8, <3>1
    <3>2. CASE lambda = 50
      BY <1>7, <1>8, <3>2
    <3>3. CASE lambda = 100
      BY <1>7, <1>8, <3>3
    <3> QED  BY <3>1, <3>2, <3>3
  <2> QED  BY <2>1 DEF Bounded, ScoreBound
<1>10. lambda = 100 => score = 100 * relevance
  BY <1>7, <1>8
<1> QED  BY <1>9, <1>10, Zenon DEF score, relevance

\* The n picks of a selection of found: so many different ones and, when lambda is
\* 1, the most relevant ones, the best first.
Selection(q, found, lambda, chosen, n) ==
  LET relevance == [i \in DOMAIN found |-> Cosine[q][found[i].text]]
  IN  /\ chosen \in Seq(DOMAIN found) /\ Len(chosen) = n
      /\ lambda = 100 =>
           /\ \A i, j \in 1 .. n : i < j => relevance[chosen[i]] >= relevance[chosen[j]]
           /\ \A i \in DOMAIN found \ ToSet(chosen) : relevance[i] <= relevance[chosen[n]]

\* A selection of all but some is one more with the best of them.
LEMMA SelectionGrows ==
  ASSUME NEW q \in Questions, NEW found \in Seq(Chunk),
         NEW close \in [Texts -> [Texts -> 0 .. 100]], NEW lambda \in {0, 50, 100},
         NEW n \in Nat \ {0}, n < Len(found), NEW chosen, Selection(q, found, lambda, chosen, n)
  PROVE  Selection(q, found, lambda,
                   Append(chosen, ChooseOne(q, found, close, lambda, chosen)), n + 1)
<1> DEFINE D == DOMAIN found
           relevance == [i \in D |-> Cosine[q][found[i].text]]
           left == D \ ToSet(chosen)
           score == [i \in left |-> TradeOff(q, found, close, lambda, chosen, i)]
           one == FirstBest(left, score)
           more == Append(chosen, one)
<1>1. /\ chosen \in Seq(D) /\ Len(chosen) = n
      /\ lambda = 100 =>
           /\ \A i, j \in 1 .. n : i < j => relevance[chosen[i]] >= relevance[chosen[j]]
           /\ \A i \in left : relevance[i] <= relevance[chosen[n]]
  BY DEF Selection
<1>2. D = 1 .. Len(found) /\ Len(found) \in Nat /\ left \in SUBSET Nat /\ left \in SUBSET D
  OBVIOUS
<1>3. chosen # <<>> /\ DOMAIN chosen = 1 .. n /\ \A i \in 1 .. n : chosen[i] \in D
  BY <1>1
<1>4. \A i \in left : /\ Bounded(score[i])
                      /\ lambda = 100 => score[i] = 100 * relevance[i]
  <2>1. \A i \in DOMAIN found :
          /\ Bounded(TradeOff(q, found, close, lambda, chosen, i))
          /\ lambda = 100 =>
               TradeOff(q, found, close, lambda, chosen, i) = 100 * Cosine[q][found[i].text]
    <3>1. chosen \in Seq(DOMAIN found) /\ chosen # <<>>
      BY <1>1, <1>3
    <3> QED  BY <3>1, TradeOffIs
  <2>2. \A i \in left : score[i] = TradeOff(q, found, close, lambda, chosen, i)
    OBVIOUS
  <2>3. \A i \in left : i \in D /\ relevance[i] = Cosine[q][found[i].text]
    OBVIOUS
  <2> HIDE DEF left, score, relevance
  <2> QED  BY <2>1, <2>2, <2>3
<1>5. \A i \in D : relevance[i] \in Int
  <2>1. \A i \in D : found[i] \in Chunk
    OBVIOUS
  <2>2. \A c \in Chunk : c.text \in Texts
    BY DEF Chunk
  <2> QED  BY <2>1, <2>2, CosineTyped
<1>6. left # {}
  <2> SUFFICES ASSUME left = {}
               PROVE  FALSE
    OBVIOUS
  <2>1. \A i \in 1 .. Len(found) : \E j \in 1 .. n : chosen[j] = i
    BY <1>2, <1>3 DEF ToSet
  <2>2. chosen \in [1 .. n -> 1 .. Len(found)]
    BY <1>1, <1>2, <1>3
  <2>3. chosen \in Surjection(1 .. n, 1 .. Len(found))
    BY <2>1, <2>2 DEF Surjection
  <2>4. /\ IsFiniteSet(1 .. n) /\ Cardinality(1 .. n) = n
        /\ IsFiniteSet(1 .. Len(found)) /\ Cardinality(1 .. Len(found)) = Len(found)
    <3>1. 1 \in Int /\ n \in Int /\ Len(found) \in Int
      OBVIOUS
    <3>2. /\ IsFiniteSet(1 .. n) /\ Cardinality(1 .. n) = IF 1 > n THEN 0 ELSE n - 1 + 1
          /\ IsFiniteSet(1 .. Len(found))
          /\ Cardinality(1 .. Len(found)) = IF 1 > Len(found) THEN 0 ELSE Len(found) - 1 + 1
      BY <3>1, FS_Interval
    <3> QED  BY <3>2
  <2>5. Cardinality(1 .. Len(found)) <= Cardinality(1 .. n)
    BY <2>3, <2>4, FS_Surjection
  <2> QED  BY <1>2, <2>4, <2>5
<1> HIDE DEF score, relevance, left
<1>7. one \in left /\ \A i \in left : score[i] <= score[one]
  <2>1. \A i \in left : Bounded(score[i])
    BY <1>4
  <2> HIDE DEF one
  <2>2. /\ FirstBest(left, score) \in left
        /\ \A i \in left : score[i] <= score[FirstBest(left, score)]
    <3>1. Scored(left, score)
      BY <1>2, <1>6, <2>1 DEF Scored
    <3>2. IsBest(FirstBest(left, score), left, score)
      BY ONLY <3>1, FirstBestIs, Zenon
    <3> QED  BY <3>2, Zenon DEF IsBest
  <2> QED  BY <2>2, Zenon DEF one
<1> HIDE DEF one
<1>8. /\ more \in Seq(D) /\ Len(more) = n + 1 /\ DOMAIN more = 1 .. n + 1
      /\ more[n + 1] = one /\ \A i \in 1 .. n : more[i] = chosen[i]
  BY <1>1, <1>2, <1>7
<1> HIDE DEF more
<1>9. \A i \in D \ ToSet(more) : i \in left
  BY <1>3, <1>8 DEF left, ToSet
<1>10. lambda = 100 =>
         /\ \A i, j \in 1 .. n + 1 : i < j => relevance[more[i]] >= relevance[more[j]]
         /\ \A i \in D \ ToSet(more) : relevance[i] <= relevance[more[n + 1]]
  <2> SUFFICES ASSUME lambda = 100
               PROVE  /\ \A i, j \in 1 .. n + 1 : i < j => relevance[more[i]] >= relevance[more[j]]
                      /\ \A i \in D \ ToSet(more) : relevance[i] <= relevance[more[n + 1]]
    OBVIOUS
  <2>1. \A i \in left : relevance[i] <= relevance[one]
    <3> SUFFICES ASSUME NEW i \in left
                 PROVE  relevance[i] <= relevance[one]
      OBVIOUS
    <3>1. relevance[i] \in Int /\ relevance[one] \in Int
      BY <1>2, <1>5, <1>7
    <3>2. score[i] = 100 * relevance[i] /\ score[one] = 100 * relevance[one]
      BY <1>4, <1>7
    <3>3. score[i] <= score[one]
      BY <1>7
    <3> QED  BY <3>1, <3>2, <3>3
  <2>2. \A i \in 1 .. n : relevance[chosen[i]] >= relevance[one]
    <3> SUFFICES ASSUME NEW i \in 1 .. n
                 PROVE  relevance[chosen[i]] >= relevance[one]
      OBVIOUS
    <3>1. relevance[one] <= relevance[chosen[n]] /\ n \in 1 .. n
      BY <1>1, <1>7
    <3>2. i = n \/ i < n
      OBVIOUS
    <3>3. relevance[chosen[i]] >= relevance[chosen[n]]
      BY <1>1, <1>3, <1>5, <3>1, <3>2
    <3>4. /\ relevance[chosen[i]] \in Int /\ relevance[chosen[n]] \in Int
          /\ relevance[one] \in Int
      BY <1>2, <1>3, <1>5, <1>7, <3>1
    <3> QED  BY <3>1, <3>3, <3>4
  <2>3. ASSUME NEW i \in 1 .. n + 1, NEW j \in 1 .. n + 1, i < j
        PROVE  relevance[more[i]] >= relevance[more[j]]
    <3>1. i \in 1 .. n /\ more[i] = chosen[i]
      BY <1>8, <2>3
    <3>2. CASE j = n + 1
      BY <1>8, <2>2, <3>1, <3>2
    <3>3. CASE j # n + 1
      <4>1. j \in 1 .. n /\ more[j] = chosen[j]
        BY <1>8, <3>3
      <4> QED  BY <1>1, <2>3, <3>1, <4>1
    <3> QED  BY <3>2, <3>3
  <2>4. \A i \in D \ ToSet(more) : relevance[i] <= relevance[more[n + 1]]
    BY <1>8, <1>9, <2>1
  <2> QED  BY <2>3, <2>4
<1>11. Selection(q, found, lambda, more, n + 1)
  BY <1>8, <1>10, Zenon DEF Selection, relevance
<1>12. one = ChooseOne(q, found, close, lambda, chosen)
  BY Zenon DEF one, left, score, ChooseOne
<1> QED  BY <1>11, <1>12 DEF more

\* The picks of MMR up to the n-th: the recursive function of its definition.
Picking(f, q, found, close, lambda, n) ==
  f = [m \in 1 .. n |->
         IF m = 1
         THEN <<FirstBest(DOMAIN found, [i \in DOMAIN found |-> Cosine[q][found[i].text]])>>
         ELSE Append(f[m - 1], ChooseOne(q, found, close, lambda, f[m - 1]))]

\* There is such a function, whatever the number of picks.
LEMMA PickingExists ==
  ASSUME NEW q, NEW found, NEW close, NEW lambda
  PROVE  \A n \in Nat : \E f : Picking(f, q, found, close, lambda, n)
<1> DEFINE first == <<FirstBest(DOMAIN found, [i \in DOMAIN found |-> Cosine[q][found[i].text]])>>
           Next1(chosen) == Append(chosen, ChooseOne(q, found, close, lambda, chosen))
           Is(f, n) == f = [m \in 1 .. n |-> IF m = 1 THEN first ELSE Next1(f[m - 1])]
           S == {n \in Nat : \E f : Is(f, n)}
<1>1. \A f, n : Picking(f, q, found, close, lambda, n) <=> Is(f, n)
  BY Zenon DEF Picking
<1> HIDE DEF first, Next1
<1>2. 0 \in S
  <2>1. Is([m \in 1 .. 0 |-> first], 0)
    OBVIOUS
  <2> QED  BY <2>1
<1>3. ASSUME NEW n \in Nat, n \in S
      PROVE  n + 1 \in S
  <2>1. PICK f : Is(f, n)
    BY <1>3
  <2> DEFINE g == [m \in 1 .. n + 1 |->
                     IF m <= n THEN f[m] ELSE IF n = 0 THEN first ELSE Next1(f[n])]
  <2>2. \A m \in 1 .. n : f[m] = IF m = 1 THEN first ELSE Next1(f[m - 1])
    BY <2>1
  <2>3. \A m \in 1 .. n + 1 : g[m] = IF m = 1 THEN first ELSE Next1(g[m - 1])
    <3> SUFFICES ASSUME NEW m \in 1 .. n + 1
                 PROVE  g[m] = IF m = 1 THEN first ELSE Next1(g[m - 1])
      OBVIOUS
    <3>1. CASE m <= n
      <4>1. m \in 1 .. n /\ g[m] = f[m] /\ (m # 1 => g[m - 1] = f[m - 1])
        BY <3>1
      <4> HIDE DEF g
      <4> QED  BY <2>2, <4>1
    <3>2. CASE m = n + 1 /\ n = 0
      <4>1. g[m] = first /\ m = 1
        BY <3>2
      <4> HIDE DEF g
      <4> QED  BY <4>1
    <3>3. CASE m = n + 1 /\ n # 0
      <4>1. g[m] = Next1(f[n]) /\ m # 1 /\ m - 1 = n /\ g[n] = f[n]
        BY <3>3
      <4> HIDE DEF g
      <4> QED  BY <4>1
    <3> QED  BY <3>1, <3>2, <3>3
  <2>4. Is(g, n + 1)
    <3>1. g = [m \in 1 .. n + 1 |-> g[m]]
      OBVIOUS
    <3> HIDE DEF g
    <3> QED  BY <2>3, <3>1
  <2> HIDE DEF Is
  <2> QED  BY <2>4
<1>4. Nat \subseteq S
  <2> HIDE DEF S
  <2> QED  BY <1>2, <1>3, SetInduction
<1> HIDE DEF Is
<1> QED  BY <1>1, <1>4

\* Each of the picks is a selection.
LEMMA PickingSelects ==
  ASSUME NEW q \in Questions, NEW found \in Seq(Chunk), found # <<>>,
         NEW close \in [Texts -> [Texts -> 0 .. 100]], NEW lambda \in {0, 50, 100},
         NEW f, Picking(f, q, found, close, lambda, Len(found))
  PROVE  Selection(q, found, lambda, f[Len(found)], Len(found))
<1> DEFINE L == Len(found)
           D == DOMAIN found
           relevance == [i \in D |-> Cosine[q][found[i].text]]
           one == FirstBest(D, relevance)
           OneMore(chosen) == Append(chosen, ChooseOne(q, found, close, lambda, chosen))
           S == {n \in Nat : n \in 1 .. L => Selection(q, found, lambda, f[n], n)}
<1>1. /\ D = 1 .. L /\ L \in Nat /\ L # 0 /\ D \in SUBSET Nat /\ D # {}
      /\ \A n \in D : found[n] \in Chunk
  <2>1. D = 1 .. L /\ L \in Nat /\ \A n \in D : found[n] \in Chunk
    OBVIOUS
  <2>2. L # 0
    OBVIOUS
  <2> HIDE DEF D, L
  <2>3. 1 \in D /\ D \in SUBSET Nat
    BY <2>1, <2>2
  <2> QED  BY <2>1, <2>2, <2>3
<1>2. \A n \in 1 .. L : f[n] = IF n = 1 THEN <<one>> ELSE OneMore(f[n - 1])
  <2> DEFINE g == [n \in 1 .. L |-> IF n = 1 THEN <<one>> ELSE OneMore(f[n - 1])]
  <2>1. f = g
    BY Zenon DEF Picking
  <2> HIDE DEF one, OneMore, L
  <2>2. \A n \in 1 .. L : g[n] = IF n = 1 THEN <<one>> ELSE OneMore(f[n - 1])
    BY Zenon
  <2> HIDE DEF g
  <2> QED  BY <2>1, <2>2, Zenon
<1>3. \A i \in D : Bounded(relevance[i])
  <2>1. \A c \in Chunk : c.text \in Texts
    BY DEF Chunk
  <2>2. \A i \in D : relevance[i] \in -100 .. 100 /\ relevance[i] \in Int
    BY <1>1, <2>1, CosineTyped
  <2> DEFINE Similarity == -100 .. 100
  <2>3. \A r : r \in Similarity => Bounded(r)
    BY DEF Bounded, ScoreBound
  <2>4. \A i \in D : relevance[i] \in Similarity
    BY <2>2
  <2> HIDE DEF relevance, Similarity, D
  <2> QED  BY <2>3, <2>4, Zenon
<1>4. one \in D /\ \A i \in D : relevance[i] <= relevance[one]
  <2> HIDE DEF relevance, D, one
  <2>1. D \in SUBSET Nat /\ D # {} /\ \A i \in D : Bounded(relevance[i])
    BY <1>1, <1>3
  <2>2. /\ FirstBest(D, relevance) \in D
        /\ \A i \in D : relevance[i] <= relevance[FirstBest(D, relevance)]
    <3>1. Scored(D, relevance)
      BY <2>1, Zenon DEF Scored
    <3>2. IsBest(FirstBest(D, relevance), D, relevance)
      BY ONLY <3>1, FirstBestIs, Zenon
    <3> QED  BY <3>2, Zenon DEF IsBest
  <2> QED  BY <2>2, Zenon DEF one
<1>5. Selection(q, found, lambda, <<one>>, 1)
  <2> HIDE DEF one, D
  <2>1. /\ <<one>> \in Seq(D) /\ Len(<<one>>) = 1 /\ <<one>>[1] = one
    BY <1>4
  <2> HIDE DEF relevance
  <2>2. /\ \A i, j \in 1 .. 1 : i < j => relevance[<<one>>[i]] >= relevance[<<one>>[j]]
        /\ \A i \in D \ ToSet(<<one>>) : relevance[i] <= relevance[<<one>>[1]]
    <3>1. ~(\E i, j \in 1 .. 1 : i < j)
      OBVIOUS
    <3>2. \A i \in D : relevance[i] <= relevance[<<one>>[1]]
      BY <1>4, <2>1
    <3> QED  BY <3>1, <3>2
  <2> QED  BY <2>1, <2>2, Zenon DEF Selection, relevance, D
<1> HIDE DEF one, relevance
<1>6. 0 \in S
  OBVIOUS
<1>7. ASSUME NEW n \in Nat, n \in S
      PROVE  n + 1 \in S
  <2> SUFFICES ASSUME n + 1 \in 1 .. L
               PROVE  Selection(q, found, lambda, f[n + 1], n + 1)
    OBVIOUS
  <2>1. CASE n = 0
    <3>1. n + 1 = 1 /\ f[n + 1] = <<one>>
      BY <1>2, <2>1
    <3> QED  BY <1>5, <3>1
  <2>2. CASE n # 0
    <3>1. n \in 1 .. L /\ n \in Nat \ {0} /\ n < Len(found) /\ n + 1 # 1 /\ (n + 1) - 1 = n
      BY <1>1, <2>2
    <3>2. Selection(q, found, lambda, f[n], n)
      BY <1>7, <3>1
    <3>3. Selection(q, found, lambda, OneMore(f[n]), n + 1)
      BY <3>1, <3>2, SelectionGrows
    <3> HIDE DEF OneMore
    <3>4. f[n + 1] = OneMore(f[n])
      BY <1>2, <3>1
    <3> QED  BY <3>3, <3>4
  <2> QED  BY <2>1, <2>2
<1>8. Nat \subseteq S
  <2> HIDE DEF S
  <2> QED  BY <1>6, <1>7, SetInduction
<1> QED  BY <1>1, <1>8

\* As many as were found, or as many as asked for, all found, the most relevant
\* first when only relevance counts.
Diversifies(diverse, q, found, k, lambda) ==
  /\ Len(diverse) = Min({k, Len(found)})
  /\ ToSet(diverse) \subseteq ToSet(found)
  /\ lambda = 100 => \A i, j \in DOMAIN diverse :
       i < j => Cosine[q][diverse[i].text] >= Cosine[q][diverse[j].text]

\* MMR does so, asked for as many as were found or more.
LEMMA MMRSelects ==
  ASSUME NEW q \in Questions, NEW found \in Seq(Chunk), NEW k \in Nat, Len(found) <= k,
         NEW close \in [Texts -> [Texts -> 0 .. 100]], NEW lambda \in {0, 50, 100}
  PROVE  Diversifies(MMR(q, found, close, k, lambda), q, found, k, lambda)
<1> DEFINE L == Len(found)
           D == DOMAIN found
           size == Max({1, Min({k, L})})
           F == CHOOSE f : Picking(f, q, found, close, lambda, size)
           picks == F[size]
           relevance == [i \in D |-> Cosine[q][found[i].text]]
           diverse == MMR(q, found, close, k, lambda)
<1>1. D = 1 .. L /\ L \in Nat /\ Min({k, L}) = L
  <2>1. {k, L} \in SUBSET Nat /\ {k, L} # {}
    OBVIOUS
  <2>2. Min({k, L}) \in {k, L} /\ \A x \in {k, L} : Min({k, L}) <= x
    BY <2>1, MinIsLeast
  <2> QED  BY <2>2
<1>2. CASE found = <<>>
  <2>1. diverse = <<>>
    BY <1>2, Zenon DEF MMR
  <2> HIDE DEF diverse
  <2>2. Len(diverse) = L /\ ToSet(diverse) = {} /\ DOMAIN diverse = {}
    BY <1>2, <2>1 DEF ToSet
  <2> QED  BY <1>1, <2>2 DEF diverse, Diversifies
<1>3. CASE found # <<>>
  <2>1. size = L
    <3> DEFINE both == {1, L}
    <3>1. /\ \A x \in both : x \in Int /\ x <= L
          /\ L \in both
      BY <1>1, <1>3
    <3> HIDE DEF L, both
    <3>2. Max(both) = L
      BY <3>1, MaxIs
    <3> QED  BY <1>1, <3>2 DEF both
  <2>2. Picking(F, q, found, close, lambda, size)
    <3> HIDE DEF size
    <3>1. \E f : Picking(f, q, found, close, lambda, size)
      BY <1>1, <2>1, PickingExists
    <3> QED  BY <3>1, Zenon
  <2>3. diverse = [n \in 1 .. size |-> found[picks[n]]]
    BY <1>3, Zenon DEF MMR, Picking
  <2> HIDE DEF diverse, F, size
  <2>4. Selection(q, found, lambda, picks, L)
    BY <1>3, <2>1, <2>2, PickingSelects
  <2> HIDE DEF picks
  <2>5. /\ picks \in Seq(D) /\ Len(picks) = L
        /\ lambda = 100 =>
             \A i, j \in 1 .. L : i < j => relevance[picks[i]] >= relevance[picks[j]]
    BY <2>4, Zenon DEF Selection
  <2>6. \A n \in 1 .. L : picks[n] \in D
    BY <2>5
  <2>7. DOMAIN diverse = 1 .. L /\ Len(diverse) = L /\ \A n \in 1 .. L : diverse[n] = found[picks[n]]
    BY <1>1, <2>1, <2>3
  <2>8. ToSet(diverse) \subseteq ToSet(found)
    BY <2>6, <2>7 DEF ToSet
  <2>9. \A n \in 1 .. L : relevance[picks[n]] = Cosine[q][diverse[n].text]
    BY <2>6, <2>7
  <2> HIDE DEF relevance
  <2>10. lambda = 100 => \A i, j \in DOMAIN diverse :
           i < j => Cosine[q][diverse[i].text] >= Cosine[q][diverse[j].text]
    BY <2>5, <2>7, <2>9
  <2> QED  BY <1>1, <2>7, <2>8, <2>10 DEF diverse, Diversifies
<1> QED  BY <1>2, <1>3

\* What stands around a retriever brings nothing in.
LEMMA AroundRetriever ==
  ASSUME NEW q \in Questions, NEW found \in Seq(Chunk), Len(found) <= TopK,
         NEW where, \A n \in DOMAIN found : found[n].source \in where
  PROVE  OnlyWhatWasFound(q, found, where)
<1> DEFINE close == [t \in Texts |-> [u \in Texts |-> IF t = u THEN 100 ELSE 0]]
           parents == Parents(found, [c \in ToSet(found) |-> c.source], TopK)
<1>1. close \in [Texts -> [Texts -> 0 .. 100]] /\ TopK \in Nat
  BY ConstantTypes
<1>2. IsInjective(parents) /\ ToSet(parents) \subseteq where
  BY ParentsOnce
<1> HIDE DEF close
<1>3. \A lambda \in {0, 50, 100} : Diversifies(MMR(q, found, close, TopK, lambda), q, found, TopK, lambda)
  BY <1>1, MMRSelects
<1> QED  BY <1>2, <1>3, Zenon DEF OnlyWhatWasFound, Diversifies, close

\* tenant_filter and the retrievers around and beside the store: for any chunks,
\* similarities, clustering and order of calls, MMR and the parents of children
\* bring nothing in, an IVF index misses only what it did not look at, and Chroma
\* only what another chunk replaced.
THEOREM TenantsStayApart == RAGSpec => []TenantIsolation
<1>1. RAGInit => SourcesInv
  BY DEF RAGInit, SourcesInv
<1>2. RAGInv /\ AnswersInv /\ SourcesInv => TenantIsolation
  <2> SUFFICES ASSUME RAGInv, AnswersInv, SourcesInv, answer # NoAnswer
               PROVE  /\ OnlyAllowedSources
                      /\ OnlyWhatWasFound(answer.question, answer.retrieved, answer.where)
                      /\ answer.outcome = "answered" =>
                           MissesUnprobed(store, answer.question, answer.where)
                      /\ MissesReplaced(chunks, answer.question, answer.where)
    BY Zenon DEF TenantIsolation
  <2>1. chunks \in Seq(Chunk) /\ store \in Seq(Chunk) /\ OnlyAllowedSources
    BY DEF RAGInv, AnswersInv
  <2>2. /\ answer.question \in Questions
        /\ answer.retrieved \in Seq(Chunk) /\ Len(answer.retrieved) <= TopK
    BY DEF SourcesInv
  <2>3. \A n \in DOMAIN answer.retrieved : answer.retrieved[n].source \in answer.where
    BY <2>1, Zenon DEF OnlyAllowedSources
  <2>4. OnlyWhatWasFound(answer.question, answer.retrieved, answer.where)
    BY <2>2, <2>3, AroundRetriever
  <2>5. MissesUnprobed(store, answer.question, answer.where)
    BY <2>1, <2>2, IVFMisses
  <2>6. MissesReplaced(chunks, answer.question, answer.where)
    BY <2>1, <2>2, ChromaHolds
  <2> QED  BY <2>1, <2>4, <2>5, <2>6
<1> QED  BY <1>1, <1>2, RAGAlways, SourcesInductive, PTL DEF RAGSpec

-----------------------------------------------------------------------------
(* What a summarized memory holds.                                         *)

Message == [role : {"system", "user"}, size : Sizes]

\* A history and the positions summarized out of it account for the messages:
\* all but the ordering's count of settled is what NothingForgotten says.
Coherent(talk, history, summarized) ==
  /\ history \in Seq(DOMAIN talk)
  /\ summarized \subseteq DOMAIN talk
  /\ ToSet(history) \union summarized = DOMAIN talk
  /\ PinnedIn(talk) \subseteq ToSet(history)
  /\ LET rest == Among(history, TurnsIn(talk))
     IN  /\ \A i, j \in DOMAIN rest : i < j => rest[i] < rest[j]
         /\ \A p \in summarized, i \in DOMAIN rest : p < rest[i]

\* The last n elements and the others, when there are others.
LEMMA LastNProperties ==
  ASSUME NEW X, NEW s \in Seq(X), NEW n \in Nat
  PROVE  /\ AllButLastN(s, n) = <<>> => n = 0 \/ Len(s) <= n
         /\ AllButLastN(s, n) # <<>> =>
              /\ n > 0 /\ Len(s) - n \in Nat /\ Len(s) - n >= 1
              /\ AllButLastN(s, n) \in Seq(X) /\ Len(AllButLastN(s, n)) = Len(s) - n
              /\ \A i \in 1 .. Len(s) - n : AllButLastN(s, n)[i] = s[i]
              /\ LastN(s, n) \in Seq(X) /\ Len(LastN(s, n)) = n
              /\ \A i \in 1 .. n : LastN(s, n)[i] = s[Len(s) - n + i]
<1>1. Len(s) \in Nat /\ DOMAIN s = 1 .. Len(s) /\ \A i \in 1 .. Len(s) : s[i] \in X
  OBVIOUS
<1>2. CASE n = 0
  BY <1>1, <1>2 DEF AllButLastN
<1>3. CASE n # 0 /\ Len(s) <= n
  <2>1. AllButLastN(s, n) = <<>>
    BY <1>1, <1>3, SubSeqEmpty DEF AllButLastN
  <2> QED  BY <1>1, <1>3, <2>1
<1>4. CASE n # 0 /\ ~(Len(s) <= n)
  <2>1. Len(s) - n \in Nat /\ Len(s) - n >= 1 /\ n >= 1
    BY <1>1, <1>4
  <2>2. AllButLastN(s, n) = SubSeq(s, 1, Len(s) - n)
    BY <1>4 DEF AllButLastN
  <2>3. /\ SubSeq(s, 1, Len(s) - n) \in Seq(X) /\ Len(SubSeq(s, 1, Len(s) - n)) = Len(s) - n
        /\ \A i \in 1 .. Len(s) - n : SubSeq(s, 1, Len(s) - n)[i] = s[i]
    BY <1>1, <2>1
  <2>4. Max({1, Len(s) - n + 1}) = Len(s) - n + 1
    <3> DEFINE k == Len(s) - n + 1
    <3>1. k \in Nat /\ k > 1
      BY <2>1
    <3> HIDE DEF k
    <3>2. \A x \in {1, k} : (\A y \in {1, k} : x >= y) <=> x = k
      BY <3>1
    <3>3. Max({1, k}) = k
      BY <3>2 DEF Max
    <3> QED  BY <3>3 DEF k
  <2>5. LastN(s, n) = SubSeq(s, Len(s) - n + 1, Len(s))
    BY <1>4, <2>4 DEF LastN
  <2>6. /\ SubSeq(s, Len(s) - n + 1, Len(s)) \in Seq(X)
        /\ Len(SubSeq(s, Len(s) - n + 1, Len(s))) = n
        /\ \A i \in 1 .. n : SubSeq(s, Len(s) - n + 1, Len(s))[i] = s[Len(s) - n + i]
    BY <1>1, <2>1
  <2>7. /\ AllButLastN(s, n) \in Seq(X) /\ Len(AllButLastN(s, n)) = Len(s) - n
        /\ \A i \in 1 .. Len(s) - n : AllButLastN(s, n)[i] = s[i]
    BY <2>2, <2>3, Zenon
  <2>8. /\ LastN(s, n) \in Seq(X) /\ Len(LastN(s, n)) = n
        /\ \A i \in 1 .. n : LastN(s, n)[i] = s[Len(s) - n + i]
    BY <2>5, <2>6, Zenon
  <2>9. n > 0 /\ AllButLastN(s, n) # <<>>
    <3>1. Len(AllButLastN(s, n)) # 0
      BY <2>1, <2>7
    <3> QED  BY <2>1, <3>1
  <2> QED  BY <1>4, <2>1, <2>7, <2>8, <2>9, Zenon
<1> QED  BY <1>2, <1>3, <1>4

\* A message more: the positions pinned and those of turns grow by its own.
LEMMA MessageAppended ==
  ASSUME NEW talk \in Seq(Message), NEW m \in Message
  PROVE  LET longer == Append(talk, m)
             n == Len(talk) + 1
         IN  /\ n \in Nat \ {0} /\ DOMAIN talk = 1 .. n - 1 /\ DOMAIN longer = 1 .. n
             /\ longer[n] = m
             /\ PinnedIn(longer) \subseteq PinnedIn(talk) \union {n}
             /\ TurnsIn(longer) \subseteq TurnsIn(talk) \union {n}
             /\ TurnsIn(talk) \subseteq TurnsIn(longer)
<1> DEFINE longer == Append(talk, m)
           n == Len(talk) + 1
<1>1. /\ n \in Nat \ {0} /\ DOMAIN talk = 1 .. n - 1 /\ DOMAIN longer = 1 .. n
      /\ longer[n] = m /\ \A p \in 1 .. n - 1 : longer[p] = talk[p]
  OBVIOUS
<1> HIDE DEF longer, n
<1>2. \A p \in 1 .. n : p \in 1 .. n - 1 \/ p = n
  BY <1>1
<1>3. /\ PinnedIn(longer) \subseteq PinnedIn(talk) \union {n}
      /\ TurnsIn(longer) \subseteq TurnsIn(talk) \union {n}
      /\ TurnsIn(talk) \subseteq TurnsIn(longer)
  BY <1>1, <1>2 DEF PinnedIn, TurnsIn
<1> QED  BY <1>1, <1>3 DEF longer, n

\* A turn added keeps the memory coherent.
LEMMA AddKeepsCoherent ==
  ASSUME NEW talk \in Seq(Message), NEW m \in Message, NEW history, NEW summarized,
         Coherent(talk, history, summarized)
  PROVE  Coherent(Append(talk, m), Append(history, Len(talk) + 1), summarized)
<1> DEFINE longer == Append(talk, m)
           n == Len(talk) + 1
           added == Append(history, n)
           old == Among(history, TurnsIn(talk))
           rest == Among(added, TurnsIn(longer))
<1>1. /\ n \in Nat \ {0} /\ DOMAIN talk = 1 .. n - 1 /\ DOMAIN longer = 1 .. n
      /\ PinnedIn(longer) \subseteq PinnedIn(talk) \union {n}
      /\ TurnsIn(longer) \subseteq TurnsIn(talk) \union {n}
      /\ TurnsIn(talk) \subseteq TurnsIn(longer)
  BY MessageAppended
<1> HIDE DEF longer, n
<1>2. /\ history \in Seq(1 .. n - 1) /\ summarized \subseteq 1 .. n - 1
      /\ ToSet(history) \union summarized = 1 .. n - 1
      /\ PinnedIn(talk) \subseteq ToSet(history)
      /\ \A i, j \in DOMAIN old : i < j => old[i] < old[j]
      /\ \A p \in summarized, i \in DOMAIN old : p < old[i]
  BY <1>1 DEF Coherent
<1>3. history \in Seq(1 .. n) /\ n \in 1 .. n
  <2>1. 1 .. n - 1 \subseteq 1 .. n /\ n \in 1 .. n
    BY <1>1
  <2> QED  BY <1>2, <2>1, SeqMonotonic
<1>4. added \in Seq(1 .. n) /\ ToSet(added) = ToSet(history) \union {n}
  BY <1>3, AppendSet
<1>5. /\ ToSet(added) \union summarized = 1 .. n
      /\ PinnedIn(longer) \subseteq ToSet(added)
  BY <1>1, <1>2, <1>4
<1>6. Among(history, TurnsIn(longer)) = old
  <2>1. ToSet(history) \subseteq 1 .. n - 1
    BY <1>2
  <2>2. ToSet(history) \cap TurnsIn(longer) = ToSet(history) \cap TurnsIn(talk)
    BY <1>1, <2>1
  <2> QED  BY <1>2, <2>2, AmongSame
<1>7. /\ rest = Append(old, n) \/ rest = old
      /\ old \in Seq(1 .. n - 1)
  <2>1. old \in Seq(1 .. n - 1)
    BY <1>2, AmongElements
  <2> DEFINE turns == TurnsIn(longer)
  <2>2. \/ Among(Append(history, n), turns) = Append(Among(history, turns), n)
        \/ Among(Append(history, n), turns) = Among(history, turns)
    <3> HIDE DEF turns
    <3>1. \A X : history \in Seq(X) /\ n \in X =>
            \/ Among(Append(history, n), turns) = Append(Among(history, turns), n)
            \/ Among(Append(history, n), turns) = Among(history, turns)
      BY AmongAppend
    <3> QED  BY <1>3, <3>1, Zenon
  <2> QED  BY <1>6, <2>1, <2>2, Zenon
<1> HIDE DEF old, rest, added
<1>8. \A i, j \in DOMAIN rest : i < j => rest[i] < rest[j]
  <2>1. CASE rest = old
    BY <1>2, <2>1
  <2>2. CASE rest = Append(old, n)
    <3>1. /\ Len(old) \in Nat /\ DOMAIN old = 1 .. Len(old) /\ DOMAIN rest = 1 .. Len(old) + 1
          /\ rest[Len(old) + 1] = n
          /\ \A i \in 1 .. Len(old) : rest[i] = old[i] /\ old[i] \in 1 .. n - 1
      BY <1>1, <1>7, <2>2
    <3>2. ASSUME NEW i \in DOMAIN rest, NEW j \in DOMAIN rest, i < j
          PROVE  rest[i] < rest[j]
      <4>1. i \in 1 .. Len(old) /\ (j \in 1 .. Len(old) \/ j = Len(old) + 1)
        BY <3>1, <3>2
      <4> QED  BY <1>1, <1>2, <3>1, <3>2, <4>1
    <3> QED  BY <3>2
  <2> QED  BY <1>7, <2>1, <2>2
<1>9. \A p \in summarized, i \in DOMAIN rest : p < rest[i]
  <2>1. CASE rest = old
    BY <1>2, <2>1
  <2>2. CASE rest = Append(old, n)
    <3>1. /\ Len(old) \in Nat /\ DOMAIN old = 1 .. Len(old) /\ DOMAIN rest = 1 .. Len(old) + 1
          /\ rest[Len(old) + 1] = n
          /\ \A i \in 1 .. Len(old) : rest[i] = old[i]
      BY <1>1, <1>7, <2>2
    <3>2. ASSUME NEW p \in summarized, NEW i \in DOMAIN rest
          PROVE  p < rest[i]
      <4>1. p \in 1 .. n - 1 /\ (i \in 1 .. Len(old) \/ i = Len(old) + 1)
        BY <1>2, <3>1
      <4> QED  BY <1>1, <1>2, <3>1, <4>1
    <3> QED  BY <3>2
  <2> QED  BY <1>7, <2>1, <2>2
<1>10. summarized \subseteq DOMAIN longer
  BY <1>1, <1>2
<1> QED  BY <1>1, <1>4, <1>5, <1>8, <1>9, <1>10 DEF Coherent, longer, n, added, rest

\* Summarizing the older turns moves them from the history to the summary.
LEMMA SummaryKeepsCoherent ==
  ASSUME NEW talk \in Seq(Message), NEW history, NEW summarized,
         Coherent(talk, history, summarized), NEW n \in Nat,
         AllButLastN(Among(history, TurnsIn(talk)), n) # <<>>
  PROVE  LET rest == Among(history, TurnsIn(talk))
             shorter == Among(history, PinnedIn(talk)) \o LastN(rest, n)
         IN  /\ Coherent(talk, shorter, summarized \union ToSet(AllButLastN(rest, n)))
             /\ Len(Among(shorter, TurnsIn(talk))) = n
<1> DEFINE X == DOMAIN talk
           turns == TurnsIn(talk)
           pins == PinnedIn(talk)
           rest == Among(history, turns)
           older == AllButLastN(rest, n)
           recent == LastN(rest, n)
           pinned == Among(history, pins)
           shorter == pinned \o recent
           L == Len(rest) - n
<1>1. X \subseteq Nat /\ X = turns \union pins /\ turns \cap pins = {}
  <2>1. X \subseteq Nat
    OBVIOUS
  <2>2. X = turns \union pins /\ turns \cap pins = {}
    <3>1. \A p \in pins : p \in X
      BY Zenon DEF PinnedIn
    <3> HIDE DEF X, pins
    <3>2. turns = X \ pins
      BY Zenon DEF TurnsIn, X, pins
    <3> HIDE DEF turns
    <3> QED  BY <3>1, <3>2
  <2> QED  BY <2>1, <2>2
<1>2. /\ history \in Seq(X) /\ summarized \subseteq X
      /\ ToSet(history) \union summarized = X /\ pins \subseteq ToSet(history)
      /\ \A i, j \in DOMAIN rest : i < j => rest[i] < rest[j]
      /\ \A p \in summarized, i \in DOMAIN rest : p < rest[i]
  BY DEF Coherent
<1>3. older # <<>>
  OBVIOUS
<1> HIDE DEF X, turns, pins
<1>4. /\ rest \in Seq(X) /\ ToSet(rest) = ToSet(history) \cap turns
      /\ pinned \in Seq(X) /\ ToSet(pinned) = ToSet(history) \cap pins
  BY <1>2, AmongElements
<1> HIDE DEF rest, pinned
<1>5. /\ n > 0 /\ L \in Nat /\ L >= 1
      /\ older \in Seq(X) /\ Len(older) = L
      /\ \A i \in 1 .. L : older[i] = rest[i]
      /\ recent \in Seq(X) /\ Len(recent) = n
      /\ \A i \in 1 .. n : recent[i] = rest[L + i]
  BY <1>3, <1>4, LastNProperties
<1> HIDE DEF older, recent
<1>6. Len(rest) = L + n /\ DOMAIN rest = 1 .. L + n /\ DOMAIN older = 1 .. L /\ DOMAIN recent = 1 .. n
  BY <1>4, <1>5
<1> HIDE DEF L
<1>7. /\ \A i \in 1 .. L : i \in 1 .. L + n
      /\ \A i \in 1 .. n : L + i \in 1 .. L + n
      /\ \A i \in 1 .. L, j \in 1 .. n : i < L + j
      /\ \A i, j \in 1 .. n : i < j => L + i < L + j
      /\ \A k \in 1 .. L + n : k \in 1 .. L \/ (k - L \in 1 .. n /\ L + (k - L) = k)
  BY <1>5
<1>8. ToSet(rest) = ToSet(older) \union ToSet(recent)
  <2>1. ToSet(older) \union ToSet(recent) \subseteq ToSet(rest)
    <3>1. \A i \in DOMAIN older : i \in DOMAIN rest /\ older[i] = rest[i]
      BY <1>5, <1>6, <1>7
    <3>2. \A i \in DOMAIN recent : L + i \in DOMAIN rest /\ recent[i] = rest[L + i]
      BY <1>5, <1>6, <1>7
    <3> QED  BY <3>1, <3>2 DEF ToSet
  <2>2. ASSUME NEW k \in DOMAIN rest
        PROVE  rest[k] \in ToSet(older) \union ToSet(recent)
    <3>1. CASE k \in 1 .. L
      BY <1>5, <1>6, <3>1 DEF ToSet
    <3>2. CASE k - L \in 1 .. n /\ L + (k - L) = k
      <4>1. recent[k - L] = rest[k]
        BY <1>5, <3>2
      <4> QED  BY <1>6, <3>2, <4>1 DEF ToSet
    <3> QED  BY <1>6, <1>7, <3>1, <3>2
  <2> QED  BY <2>1, <2>2 DEF ToSet
<1>9. shorter \in Seq(X) /\ ToSet(shorter) = ToSet(pinned) \union ToSet(recent)
  BY <1>4, <1>5, ConcatElements
<1>10. Among(shorter, turns) = recent
  <2>1. Among(shorter, turns) = Among(pinned, turns) \o Among(recent, turns)
    <3>1. \A t \in Seq(X) : Among(pinned \o t, turns) = Among(pinned, turns) \o Among(t, turns)
      BY <1>4, AmongConcat
    <3> QED  BY <1>5, <3>1, Zenon
  <2>2. Among(pinned, turns) = <<>>
    <3>1. ToSet(pinned) \cap turns = {}
      BY <1>1, <1>4
    <3> QED  BY <1>4, <3>1, AmongElements
  <2>3. Among(recent, turns) = recent
    <3>1. ToSet(recent) \subseteq turns
      BY <1>4, <1>8
    <3> QED  BY <1>5, <3>1, AmongElements
  <2> QED  BY <1>5, <2>1, <2>2, <2>3, ConcatEmptySeq
<1> HIDE DEF shorter
<1>11. /\ summarized \union ToSet(older) \subseteq X
       /\ ToSet(shorter) \union (summarized \union ToSet(older)) = X
       /\ pins \subseteq ToSet(shorter)
  <2>1. ToSet(older) \subseteq X
    BY <1>5 DEF ToSet
  <2> QED  BY <1>1, <1>2, <1>4, <1>8, <1>9, <2>1
<1>12. \A i, j \in DOMAIN recent : i < j => recent[i] < recent[j]
  <2>1. \A i \in DOMAIN recent : recent[i] = rest[L + i] /\ L + i \in DOMAIN rest
    BY <1>5, <1>6, <1>7
  <2>2. \A i, j \in DOMAIN recent : i < j => L + i < L + j
    BY <1>6, <1>7
  <2> QED  BY <1>2, <2>1, <2>2
<1>13. ASSUME NEW p \in summarized \union ToSet(older), NEW i \in DOMAIN recent
       PROVE  p < recent[i]
  <2>1. recent[i] = rest[L + i] /\ L + i \in DOMAIN rest
    BY <1>5, <1>6, <1>7
  <2>2. CASE p \in summarized
    BY <1>2, <2>1, <2>2
  <2>3. CASE p \in ToSet(older)
    <3>1. PICK k \in 1 .. L : p = rest[k]
      BY <1>5, <1>6, <2>3 DEF ToSet
    <3>2. k \in DOMAIN rest /\ k < L + i
      BY <1>6, <1>7
    <3> QED  BY <1>2, <2>1, <3>1, <3>2
  <2> QED  BY <2>2, <2>3
<1>14. Coherent(talk, shorter, summarized \union ToSet(older))
  BY <1>9, <1>10, <1>11, <1>12, <1>13 DEF Coherent, X, turns, pins
<1>15. Len(Among(shorter, turns)) = n
  BY <1>5, <1>10
<1> QED  BY <1>14, <1>15, Zenon DEF shorter, older, recent, rest, pinned, turns, pins

\* An add that returned leaves the turns under the threshold or within
\* keep_recent.
Within(talk, history) ==
  LET rest == Among(history, TurnsIn(talk))
  IN  \/ EstimateTokens(AtPositions(talk, rest)) <= ThresholdTokens
      \/ KeepRecent = 0 \/ Len(rest) <= KeepRecent

MemoryInv == /\ log \in Seq(Message)
             /\ Coherent(log, kept, gist \union erased)
             /\ settled => Within(log, kept)

\* An empty memory is coherent and has forgotten nothing.
LEMMA MemoryInitially ==
  ASSUME MemoryInit
  PROVE  MemoryInv
<1>1. log = <<>> /\ kept = <<>> /\ gist \union erased = {}
  BY DEF MemoryInit
<1>2. Among(<<>>, TurnsIn(<<>>)) = <<>>
  BY AmongEmpty
<1>3. PinnedIn(<<>>) = {} /\ ToSet(<<>>) = {} /\ DOMAIN <<>> = {}
  BY DEF PinnedIn, ToSet
<1>4. Coherent(<<>>, <<>>, {})
  BY <1>2, <1>3 DEF Coherent
<1>5. Within(<<>>, <<>>)
  <2>1. Len(<<>>) <= KeepRecent
    BY MemoryAssumption
  <2> QED  BY <1>2, <2>1 DEF Within
<1>6. log \in Seq(Message)
  BY <1>1
<1>7. Coherent(log, kept, gist \union erased) /\ Within(log, kept)
  BY <1>1, <1>4, <1>5, Zenon
<1> QED  BY <1>6, <1>7 DEF MemoryInv

\* A turn added keeps the invariant.
LEMMA AddKeepsMemory ==
  ASSUME MemoryInv, NEW role \in {"system", "user"}, NEW size \in Sizes, Add(role, size)
  PROVE  MemoryInv'
<1> DEFINE m == [role |-> role, size |-> size]
           history == Append(kept, Len(log'))
           rest == Among(history, TurnsIn(log'))
           older == ToSet(AllButLastN(rest, KeepRecent))
<1>1. /\ log' = Append(log, m) /\ m \in Message /\ log \in Seq(Message)
      /\ log' \in Seq(Message) /\ Len(log') = Len(log) + 1
  <2>1. log' = Append(log, m) /\ m \in Message /\ log \in Seq(Message)
    BY DEF Add, MemoryInv, Message
  <2> HIDE DEF m
  <2>2. Append(log, m) \in Seq(Message) /\ Len(Append(log, m)) = Len(log) + 1
    BY <2>1
  <2> QED  BY <2>1, <2>2, Zenon
<1> HIDE DEF m
<1>2. Coherent(log', history, gist \union erased)
  <2>1. Coherent(log, kept, gist \union erased)
    BY DEF MemoryInv
  <2>2. Coherent(Append(log, m), Append(kept, Len(log) + 1), gist \union erased)
    BY <1>1, <2>1, AddKeepsCoherent
  <2> QED  BY <1>1, <2>2, Zenon
<1>3. KeepRecent \in Nat
  BY MemoryAssumption
<1>4. rest \in Seq(DOMAIN log')
  BY <1>2, AmongElements DEF Coherent
<1>5. CASE NeedsNoSummary(history) /\ kept' = history /\ UNCHANGED <<gist, erased>>
  <2>1. Within(log', history)
    <3>1. CASE AllButLastN(rest, KeepRecent) = <<>>
      <4>1. KeepRecent = 0 \/ Len(rest) <= KeepRecent
        BY <1>3, <1>4, <3>1, LastNProperties
      <4> QED  BY <4>1 DEF Within
    <3>2. CASE AllButLastN(rest, KeepRecent) # <<>>
      BY <1>5, <3>2 DEF NeedsNoSummary, Within
    <3> QED  BY <3>1, <3>2
  <2> HIDE DEF history
  <2> QED  BY <1>1, <1>2, <1>5, <2>1 DEF MemoryInv
<1>6. ASSUME NEW text \in {"some", "blank"}, ~NeedsNoSummary(history), Summarized(history, text)
      PROVE  MemoryInv'
  <2> DEFINE shorter == Among(history, PinnedIn(log')) \o LastN(rest, KeepRecent)
  <2>1. kept' = shorter
    BY <1>6 DEF Summarized
  <2>2. gist' \union erased' = (gist \union erased) \union older
    BY <1>6 DEF Summarized
  <2>3. AllButLastN(rest, KeepRecent) # <<>>
    BY <1>6 DEF NeedsNoSummary
  <2>4. /\ Coherent(log', shorter, (gist \union erased) \union older)
        /\ Len(Among(shorter, TurnsIn(log'))) = KeepRecent
    BY <1>1, <1>2, <1>3, <2>3, SummaryKeepsCoherent
  <2> HIDE DEF shorter, older, rest, history
  <2>5. Within(log', kept')
    <3>1. Len(Among(kept', TurnsIn(log'))) <= KeepRecent
      BY <1>3, <2>1, <2>4
    <3> QED  BY <3>1 DEF Within
  <2>6. Coherent(log', kept', gist' \union erased')
    BY <2>1, <2>2, <2>4
  <2> QED  BY <1>1, <2>5, <2>6 DEF MemoryInv
<1>7. CASE SummaryFailed(history)
  <2> HIDE DEF history
  <2> QED  BY <1>1, <1>2, <1>7 DEF SummaryFailed, MemoryInv
<1>8. \/ NeedsNoSummary(history) /\ kept' = history /\ UNCHANGED <<gist, erased>>
      \/ /\ ~NeedsNoSummary(history)
         /\ Summarized(history, "some") \/ Summarized(history, "blank") \/ SummaryFailed(history)
  BY Zenon DEF Add
<1> HIDE DEF history
<1> QED  BY <1>5, <1>6, <1>7, <1>8

\* What every state of a memory satisfies.
LEMMA MemoryAlways == MemorySpec => []MemoryInv
<1>1. MemoryInit => MemoryInv
  BY MemoryInitially
<1>2. MemoryInv /\ [MemoryNext]_memvars => MemoryInv'
  <2> SUFFICES ASSUME MemoryInv, [MemoryNext]_memvars
               PROVE  MemoryInv'
    OBVIOUS
  <2>1. ASSUME NEW role \in {"system", "user"}, NEW size \in Sizes, Add(role, size)
        PROVE  MemoryInv'
    BY <2>1, AddKeepsMemory
  <2>2. CASE Clear
    <3>1. MemoryInit'
      BY <2>2 DEF Clear, MemoryInit
    <3>2. (MemoryInit => MemoryInv)'
      BY <1>1, PTL
    <3> QED  BY <3>1, <3>2
  <2>3. CASE UNCHANGED memvars
    <3>1. log' = log /\ kept' = kept /\ gist' = gist /\ erased' = erased /\ settled' = settled
      BY <2>3 DEF memvars
    <3> QED  BY <3>1 DEF MemoryInv
  <2> QED  BY <2>1, <2>2, <2>3 DEF MemoryNext
<1> QED  BY <1>1, <1>2, PTL DEF MemorySpec

\* Every message is still in the history or was summarized, and in order.
THEOREM NothingIsForgotten == MemorySpec => []NothingForgotten
<1>1. MemoryInv => NothingForgotten
  <2> SUFFICES ASSUME MemoryInv
               PROVE  NothingForgotten
    OBVIOUS
  <2>1. Coherent(log, kept, gist \union erased) /\ (settled => Within(log, kept))
    BY DEF MemoryInv
  <2> QED  BY <2>1 DEF Coherent, Within, NothingForgotten
<1> QED  BY <1>1, MemoryAlways, PTL

-----------------------------------------------------------------------------
(* What the other memories resend.                                         *)

\* The tokens of each message.
Costs(talk) == [i \in DOMAIN talk |-> Cost(talk[i].size)]
Sized == [role : {"system", "user"}, size : Nat]

\* A cost is a number above three, and no less for more characters.
LEMMA CostIs ==
  ASSUME NEW size \in Nat
  PROVE  Cost(size) \in Nat /\ Cost(size) = size \div 4 + 4
BY DEF Cost, CharsPerToken

\* The estimate of a conversation is the sum of its messages' costs.
LEMMA EstimateIs ==
  ASSUME NEW talk \in Seq(Sized)
  PROVE  /\ Costs(talk) \in Seq(Nat) /\ Len(Costs(talk)) = Len(talk)
         /\ EstimateTokens(talk) = SumOf(Costs(talk))
<1> DEFINE costs == Costs(talk)
           D == DOMAIN talk
           IsEstimate(f) == f = [S \in SUBSET D |->
                                   IF S = {} THEN 0 ELSE f[S \ {Max(S)}] + Cost(talk[Max(S)].size)]
           IsSum(f) == f = [S \in SUBSET D |->
                              IF S = {} THEN 0 ELSE f[S \ {Max(S)}] + costs[Max(S)]]
<1>1. Len(talk) \in Nat /\ D = 1 .. Len(talk) /\ \A i \in D : talk[i] \in Sized
  OBVIOUS
<1>2. \A i \in D : Cost(talk[i].size) \in Nat
  BY <1>1, CostIs DEF Sized
<1>3. /\ DOMAIN costs = D /\ \A i \in D : costs[i] = Cost(talk[i].size)
      /\ costs \in Seq(Nat) /\ Len(costs) = Len(talk)
  BY <1>1, <1>2 DEF Costs
<1>4. EstimateTokens(talk) = (CHOOSE f : IsEstimate(f))[D]
  BY Zenon DEF EstimateTokens, FoldLeft, MapThenFoldSet
<1>5. SumOf(costs) = (CHOOSE f : IsSum(f))[D]
  BY <1>3, Zenon DEF SumOf, FoldLeft, MapThenFoldSet
<1>6. \A S \in SUBSET D : S # {} => Max(S) \in D
  BY <1>1, MaxIsMember
<1> HIDE DEF costs, D
<1>7. ASSUME NEW f
      PROVE  IsEstimate(f) <=> IsSum(f)
  <2>1. \A S \in SUBSET D : S # {} => costs[Max(S)] = Cost(talk[Max(S)].size)
    BY <1>3, <1>6
  <2>2. [S \in SUBSET D |-> IF S = {} THEN 0 ELSE f[S \ {Max(S)}] + Cost(talk[Max(S)].size)]
        = [S \in SUBSET D |-> IF S = {} THEN 0 ELSE f[S \ {Max(S)}] + costs[Max(S)]]
    BY <2>1
  <2> QED  BY <2>2, Zenon
<1>8. (CHOOSE f : IsEstimate(f)) = (CHOOSE f : IsSum(f))
  <2> HIDE DEF IsEstimate, IsSum
  <2> QED  BY <1>7, Zenon
<1>9. EstimateTokens(talk) = SumOf(costs)
  BY <1>4, <1>5, <1>8, Zenon
<1> QED  BY <1>3, <1>9 DEF costs

\* Of two lists of numbers, one after the other, the sum is the sum of both.
LEMMA SumOfConcat ==
  ASSUME NEW s \in Seq(Int)
  PROVE  \A t \in Seq(Int) : SumOf(s \o t) = SumOf(s) + SumOf(t) /\ SumOf(t) \in Int
<1> DEFINE S == {t \in Seq(Int) : SumOf(s \o t) = SumOf(s) + SumOf(t) /\ SumOf(t) \in Int}
<1>1. SumOf(s) \in Int
  <2>1. 0 \in Int
    OBVIOUS
  <2> QED  BY <2>1, SumOfAppend
<1>2. <<>> \in S
  <2>1. s \o <<>> = s /\ <<>> \in Seq(Int)
    OBVIOUS
  <2> QED  BY <1>1, <2>1, SumOfEmpty
<1>3. ASSUME NEW t \in Seq(Int), NEW x \in Int, t \in S
      PROVE  Append(t, x) \in S
  <2>1. s \o Append(t, x) = Append(s \o t, x)
    OBVIOUS
  <2>2. s \o t \in Seq(Int) /\ Append(t, x) \in Seq(Int)
    OBVIOUS
  <2>3. SumOf(s \o t) = SumOf(s) + SumOf(t) /\ SumOf(t) \in Int
    BY <1>3
  <2>4. SumOf(Append(s \o t, x)) = SumOf(s \o t) + x
    BY <2>2, SumOfAppend
  <2>5. SumOf(Append(t, x)) = SumOf(t) + x
    BY SumOfAppend
  <2>6. SumOf(s \o Append(t, x)) = SumOf(s \o t) + x
    BY <2>1, <2>4, Zenon
  <2>7. SumOf(s \o Append(t, x)) = SumOf(s) + SumOf(Append(t, x)) /\ SumOf(Append(t, x)) \in Int
    BY <1>1, <2>3, <2>5, <2>6
  <2> QED  BY <2>2, <2>7
<1>4. Seq(Int) \subseteq S
  <2> HIDE DEF S
  <2> QED  BY <1>2, <1>3, SeqInduction
<1> QED  BY <1>4

\* Numbers no greater than c add up to no more than c each.
LEMMA SumIsBounded ==
  ASSUME NEW c \in Nat
  PROVE  \A s \in Seq(0 .. c) : SumOf(s) \in Nat /\ SumOf(s) <= Len(s) * c
<1> DEFINE S == {s \in Seq(0 .. c) : SumOf(s) \in Nat /\ SumOf(s) <= Len(s) * c}
<1>1. <<>> \in S
  <2>1. <<>> \in Seq(0 .. c) /\ Len(<<>>) = 0
    OBVIOUS
  <2> QED  BY <2>1, SumOfEmpty
<1>2. ASSUME NEW s \in Seq(0 .. c), NEW x \in 0 .. c, s \in S
      PROVE  Append(s, x) \in S
  <2>1. /\ s \in Seq(Int) /\ x \in Int /\ x \in Nat /\ x <= c /\ Len(s) \in Nat
        /\ Append(s, x) \in Seq(0 .. c) /\ Len(Append(s, x)) = Len(s) + 1
    OBVIOUS
  <2>2. SumOf(Append(s, x)) = SumOf(s) + x
    BY <2>1, SumOfAppend
  <2>3. SumOf(s) \in Nat /\ SumOf(s) <= Len(s) * c
    BY <1>2
  <2>4. (Len(s) + 1) * c = Len(s) * c + c /\ Len(s) * c \in Nat
    BY <2>1
  <2>5. SumOf(Append(s, x)) \in Nat /\ SumOf(Append(s, x)) <= Len(Append(s, x)) * c
    BY <2>1, <2>2, <2>3, <2>4
  <2> QED  BY <2>1, <2>5
<1>3. Seq(0 .. c) \subseteq S
  <2> HIDE DEF S
  <2> QED  BY <1>1, <1>2, SeqInduction
<1> QED  BY <1>3

\* Numbers add up to a number.
LEMMA SumIsNatural ==
  \A s \in Seq(Nat) : SumOf(s) \in Nat
<1> DEFINE S == {s \in Seq(Nat) : SumOf(s) \in Nat}
<1>1. <<>> \in S
  <2>1. <<>> \in Seq(Nat)
    OBVIOUS
  <2> QED  BY <2>1, SumOfEmpty
<1>2. ASSUME NEW s \in Seq(Nat), NEW x \in Nat, s \in S
      PROVE  Append(s, x) \in S
  <2>1. s \in Seq(Int) /\ x \in Int /\ Append(s, x) \in Seq(Nat)
    OBVIOUS
  <2>2. SumOf(Append(s, x)) = SumOf(s) + x
    BY <2>1, SumOfAppend
  <2> QED  BY <1>2, <2>1, <2>2
<1>3. Seq(Nat) \subseteq S
  <2> HIDE DEF S
  <2> QED  BY <1>1, <1>2, SeqInduction
<1> QED  BY <1>3

\* The estimate of two lists of messages, one after the other.
LEMMA EstimateOfConcat ==
  ASSUME NEW s \in Seq(Sized), NEW t \in Seq(Sized)
  PROVE  /\ EstimateTokens(s) \in Nat /\ EstimateTokens(t) \in Nat
         /\ EstimateTokens(s \o t) = EstimateTokens(s) + EstimateTokens(t)
<1>1. s \o t \in Seq(Sized)
  OBVIOUS
<1>2. /\ Costs(s) \in Seq(Nat) /\ Len(Costs(s)) = Len(s) /\ EstimateTokens(s) = SumOf(Costs(s))
      /\ Costs(t) \in Seq(Nat) /\ Len(Costs(t)) = Len(t) /\ EstimateTokens(t) = SumOf(Costs(t))
      /\ EstimateTokens(s \o t) = SumOf(Costs(s \o t))
      /\ Costs(s \o t) \in Seq(Nat) /\ Len(Costs(s \o t)) = Len(s \o t)
  BY <1>1, EstimateIs
<1>3. Costs(s \o t) = Costs(s) \o Costs(t)
  <2> DEFINE p == Costs(s \o t)
             r == Costs(s) \o Costs(t)
  <2>1. Len(s) \in Nat /\ Len(t) \in Nat /\ Len(s \o t) = Len(s) + Len(t)
    OBVIOUS
  <2>2. r \in Seq(Nat) /\ Len(r) = Len(s) + Len(t) /\ p \in Seq(Nat) /\ Len(p) = Len(s) + Len(t)
    BY <1>2, <2>1
  <2>3. ASSUME NEW i \in 1 .. Len(s) + Len(t)
        PROVE  p[i] = r[i]
    <3>1. p[i] = Cost((s \o t)[i].size)
      BY <1>1, <2>1 DEF Costs
    <3>2. CASE i <= Len(s)
      <4>1. i \in 1 .. Len(s) /\ (s \o t)[i] = s[i] /\ r[i] = Costs(s)[i]
        BY <1>2, <2>1, <3>2
      <4>2. Costs(s)[i] = Cost(s[i].size)
        BY <4>1 DEF Costs
      <4> QED  BY <3>1, <4>1, <4>2
    <3>3. CASE ~(i <= Len(s))
      <4>1. i - Len(s) \in 1 .. Len(t) /\ (s \o t)[i] = t[i - Len(s)]
        BY <2>1, <3>3
      <4>3. r[i] = Costs(t)[i - Len(s)]
        <5> DEFINE a == Costs(s)
                   b == Costs(t)
        <5>1. a \in Seq(Nat) /\ b \in Seq(Nat) /\ Len(a) = Len(s) /\ Len(b) = Len(t)
          BY <1>2
        <5> HIDE DEF a, b
        <5>2. i \in 1 .. Len(a) + Len(b) /\ ~(i <= Len(a))
          BY <2>1, <3>3, <5>1
        <5>3. (a \o b)[i] = b[i - Len(a)]
          BY <5>1, <5>2
        <5>4. (a \o b)[i] = b[i - Len(s)]
          BY <5>1, <5>3
        <5> QED  BY <5>4 DEF r, a, b
      <4>2. Costs(t)[i - Len(s)] = Cost(t[i - Len(s)].size)
        BY <4>1 DEF Costs
      <4> QED  BY <3>1, <4>1, <4>2, <4>3
    <3> QED  BY <3>2, <3>3
  <2> HIDE DEF p, r
  <2>4. p = r
    BY <2>2, <2>3, SeqEqual
  <2> QED  BY <2>4 DEF p, r
<1>4. Costs(s) \in Seq(Int) /\ Costs(t) \in Seq(Int)
  BY <1>2
<1>5. SumOf(Costs(s) \o Costs(t)) = SumOf(Costs(s)) + SumOf(Costs(t))
  BY <1>4, SumOfConcat
<1>6. SumOf(Costs(s)) \in Nat /\ SumOf(Costs(t)) \in Nat
  BY <1>2, SumIsNatural
<1> QED  BY <1>2, <1>3, <1>5, <1>6, Zenon

\* The tail of a list from a position on.
Tail_(s, i) == SubSeq(s, i, Len(s))

\* A tail, and the next longer one.
LEMMA TailIs ==
  ASSUME NEW X, NEW s \in Seq(X), NEW i \in 1 .. Len(s) + 1
  PROVE  /\ Tail_(s, i) \in Seq(X) /\ Len(Tail_(s, i)) = Len(s) - i + 1
         /\ \A n \in 1 .. Len(s) - i + 1 : Tail_(s, i)[n] = s[i + n - 1]
<1>1. Len(s) \in Nat /\ i \in Nat /\ i >= 1 /\ i <= Len(s) + 1
  OBVIOUS
<1>2. CASE i <= Len(s)
  BY <1>1, <1>2 DEF Tail_
<1>3. CASE i = Len(s) + 1
  <2>1. Tail_(s, i) = <<>>
    BY <1>1, <1>3, SubSeqEmpty DEF Tail_
  <2>2. Len(s) - i + 1 = 0 /\ 1 .. 0 = {}
    BY <1>1, <1>3
  <2>3. <<>> \in Seq(X) /\ Len(<<>>) = 0
    OBVIOUS
  <2> QED  BY <2>1, <2>2, <2>3, Zenon
<1> QED  BY <1>1, <1>2, <1>3

\* A tail is its first message and the next shorter tail.
LEMMA TailGrows ==
  ASSUME NEW X, NEW s \in Seq(X), NEW i \in 1 .. Len(s)
  PROVE  Tail_(s, i) = <<s[i]>> \o Tail_(s, i + 1)
<1> DEFINE a == Tail_(s, i)
           b == <<s[i]>> \o Tail_(s, i + 1)
           c == Tail_(s, i + 1)
<1>1. Len(s) \in Nat /\ i \in 1 .. Len(s) + 1 /\ i + 1 \in 1 .. Len(s) + 1 /\ s[i] \in X
  OBVIOUS
<1>2. /\ a \in Seq(X) /\ Len(a) = Len(s) - i + 1
      /\ \A n \in 1 .. Len(s) - i + 1 : a[n] = s[i + n - 1]
      /\ c \in Seq(X) /\ Len(c) = Len(s) - (i + 1) + 1
      /\ \A n \in 1 .. Len(s) - (i + 1) + 1 : c[n] = s[(i + 1) + n - 1]
  BY <1>1, TailIs
<1> HIDE DEF a, c
<1>3. /\ b \in Seq(X) /\ Len(b) = Len(c) + 1 /\ b[1] = s[i]
      /\ \A n \in 2 .. Len(c) + 1 : b[n] = c[n - 1]
  BY <1>1, <1>2 DEF c
<1> HIDE DEF b
<1>4. Len(b) = Len(a)
  BY <1>1, <1>2, <1>3
<1>5. ASSUME NEW n \in 1 .. Len(a)
      PROVE  a[n] = b[n]
  <2>1. CASE n = 1
    <3>1. 1 \in 1 .. Len(s) - i + 1 /\ i + 1 - 1 = i
      BY <1>1
    <3>2. a[1] = s[i]
      BY <1>2, <3>1
    <3> QED  BY <1>3, <2>1, <3>2, Zenon
  <2>2. CASE n # 1
    <3>1. n \in 2 .. Len(c) + 1 /\ n - 1 \in 1 .. Len(s) - (i + 1) + 1 /\ n \in 1 .. Len(s) - i + 1
      BY <1>1, <1>2, <2>2
    <3>2. (i + 1) + (n - 1) - 1 = i + n - 1
      BY <1>1, <3>1
    <3>3. b[n] = c[n - 1] /\ c[n - 1] = s[(i + 1) + (n - 1) - 1] /\ a[n] = s[i + n - 1]
      BY <1>2, <1>3, <3>1
    <3> QED  BY <3>2, <3>3
  <2> QED  BY <2>1, <2>2
<1>6. a = b
  BY <1>2, <1>3, <1>4, <1>5, SeqEqual
<1> QED  BY <1>6 DEF a, b

\* A tail costs what its first message does more than the next shorter one.
LEMMA TailCostsMore ==
  ASSUME NEW s \in Seq(Sized), NEW n \in 1 .. Len(s)
  PROVE  /\ EstimateTokens(Tail_(s, n)) = Cost(s[n].size) + EstimateTokens(Tail_(s, n + 1))
         /\ Cost(s[n].size) \in Nat /\ EstimateTokens(Tail_(s, n + 1)) \in Nat
<1> DEFINE E(i) == EstimateTokens(Tail_(s, i))
<1>1. s[n] \in Sized /\ <<s[n]>> \in Seq(Sized) /\ n + 1 \in 1 .. Len(s) + 1
  OBVIOUS
<1>2. Tail_(s, n + 1) \in Seq(Sized)
  BY <1>1, TailIs
<1>3. Tail_(s, n) = <<s[n]>> \o Tail_(s, n + 1)
  BY TailGrows
<1>4. E(n) = EstimateTokens(<<s[n]>>) + E(n + 1) /\ E(n + 1) \in Nat
  BY <1>1, <1>2, <1>3, EstimateOfConcat
<1>5. EstimateTokens(<<s[n]>>) = SumOf(Costs(<<s[n]>>))
  BY <1>1, EstimateIs
<1>6. Cost(s[n].size) \in Nat
  BY <1>1, CostIs DEF Sized
<1>7. Costs(<<s[n]>>) = <<Cost(s[n].size)>>
  <2>1. DOMAIN <<s[n]>> = 1 .. 1 /\ <<s[n]>>[1] = s[n]
    OBVIOUS
  <2> QED  BY <2>1 DEF Costs
<1>8. SumOf(<<Cost(s[n].size)>>) = Cost(s[n].size)
  <2> DEFINE x == Cost(s[n].size)
  <2> HIDE DEF x
  <2>1. Append(<<>>, x) = <<x>> /\ <<>> \in Seq(Int) /\ x \in Int
    BY <1>6 DEF x
  <2>2. SumOf(Append(<<>>, x)) = SumOf(<<>>) + x
    BY <2>1, SumOfAppend
  <2>3. SumOf(<<x>>) = x
    BY <2>1, <2>2, SumOfEmpty
  <2> QED  BY <2>3 DEF x
<1> QED  BY <1>4, <1>5, <1>6, <1>7, <1>8

\* A shorter tail costs no more.
LEMMA TailsCost ==
  ASSUME NEW s \in Seq(Sized), NEW i \in 1 .. Len(s) + 1, NEW j \in i .. Len(s) + 1
  PROVE  /\ EstimateTokens(Tail_(s, j)) <= EstimateTokens(Tail_(s, i))
         /\ EstimateTokens(Tail_(s, j)) \in Nat
<1> DEFINE E(n) == EstimateTokens(Tail_(s, n))
           N == {n \in Nat : i + n <= Len(s) + 1 => E(i + n) <= E(i)}
<1>1. Len(s) \in Nat /\ i \in Nat /\ i >= 1
  OBVIOUS
<1>2. \A n \in 1 .. Len(s) + 1 : E(n) \in Nat
  BY TailIs, EstimateOfConcat
<1>3. \A n \in 1 .. Len(s) : E(n) = Cost(s[n].size) + E(n + 1) /\ Cost(s[n].size) \in Nat /\ E(n + 1) \in Nat
  BY TailCostsMore
<1>4. 0 \in N
  BY <1>1, <1>2
<1>5. ASSUME NEW n \in Nat, n \in N
      PROVE  n + 1 \in N
  <2> SUFFICES ASSUME i + (n + 1) <= Len(s) + 1
               PROVE  E(i + (n + 1)) <= E(i)
    OBVIOUS
  <2>1. i + n \in 1 .. Len(s) /\ i + (n + 1) = (i + n) + 1 /\ i + n <= Len(s) + 1
    BY <1>1
  <2>2. E(i + n) <= E(i)
    BY <1>5, <2>1
  <2>3. E(i + n) = Cost(s[i + n].size) + E((i + n) + 1) /\ Cost(s[i + n].size) \in Nat /\ E((i + n) + 1) \in Nat
    BY <1>3, <2>1
  <2>4. E(i) \in Nat
    BY <1>2
  <2> HIDE DEF E
  <2> QED  BY <2>1, <2>2, <2>3, <2>4
<1>6. Nat \subseteq N
  <2> HIDE DEF N
  <2> QED  BY <1>4, <1>5, SetInduction
<1>7. j - i \in N /\ i + (j - i) = j /\ j \in 1 .. Len(s) + 1 /\ i + (j - i) <= Len(s) + 1
  <2>1. j - i \in Nat
    OBVIOUS
  <2> HIDE DEF N
  <2> QED  BY <1>1, <1>6, <2>1
<1>8. E(j) <= E(i)
  <2> HIDE DEF E
  <2>1. E(i + (j - i)) <= E(i)
    BY <1>7
  <2> QED  BY <1>7, <2>1, Zenon
<1> QED  BY <1>2, <1>7, <1>8

\* A function on the sets of positions that folds from the right.
FoldsFromRight(f, base, step, n) ==
  \A s \in SUBSET (1 .. n) :
    f[s] = IF s = {} THEN base ELSE step[<<f[s \ {Min(s)}], Min(s)>>]
CanFoldRight(A, base, step, n) == \E f \in [SUBSET (1 .. n) -> A] : FoldsFromRight(f, base, step, n)

\* Positions counted from the other end.
Mirror(s, n) == {n + 1 - x : x \in s}

\* The first position from one end is the last from the other.
LEMMA MirrorIs ==
  ASSUME NEW n \in Nat, NEW s \in SUBSET (1 .. n), s # {}
  PROVE  /\ Min(s) \in s
         /\ Mirror(s, n) \in SUBSET (1 .. n) /\ Mirror(s, n) # {}
         /\ Max(Mirror(s, n)) = n + 1 - Min(s)
         /\ Mirror(s \ {Min(s)}, n) = Mirror(s, n) \ {n + 1 - Min(s)}
<1> DEFINE m == Min(s)
           t == Mirror(s, n)
<1>1. m \in s /\ \A x \in s : m <= x
  <2>1. s \in SUBSET Nat
    OBVIOUS
  <2> QED  BY <2>1, MinIsLeast
<1> HIDE DEF m
<1>2. t \in SUBSET (1 .. n) /\ n + 1 - m \in t
  BY <1>1 DEF Mirror
<1>3. \A y \in t : y \in Int /\ y <= n + 1 - m
  BY <1>1 DEF Mirror
<1>4. Max(t) = n + 1 - m
  <2> HIDE DEF t
  <2> DEFINE k == n + 1 - m
  <2> HIDE DEF k
  <2>1. k \in t /\ \A y \in t : y \in Int /\ y <= k
    BY <1>2, <1>3 DEF k
  <2>2. Max(t) = k
    BY <2>1, MaxIs
  <2> QED  BY <2>2 DEF k
<1>5. Mirror(s \ {m}, n) = t \ {n + 1 - m}
  <2>1. \A x \in s : x \in Int /\ (n + 1 - x = n + 1 - m <=> x = m)
    BY <1>1
  <2> QED  BY <1>1, <2>1 DEF Mirror
<1> QED  BY <1>1, <1>2, <1>4, <1>5 DEF m

\* And so there is a function that folds from the right.
LEMMA FoldRightExists ==
  ASSUME NEW A, NEW base \in A, NEW n \in Nat, NEW step \in [A \X (1 .. n) -> A]
  PROVE  CanFoldRight(A, base, step, n)
<1> DEFINE back == [p \in A \X (1 .. n) |-> step[<<p[1], n + 1 - p[2]>>]]
<1>1. \A x \in 1 .. n : n + 1 - x \in 1 .. n /\ n + 1 - (n + 1 - x) = x
  OBVIOUS
<1>2. back \in [A \X (1 .. n) -> A]
  <2>1. \A p \in A \X (1 .. n) : step[<<p[1], n + 1 - p[2]>>] \in A
    BY <1>1
  <2> QED  BY <2>1
<1>3. \A a \in A, x \in 1 .. n : back[<<a, x>>] = step[<<a, n + 1 - x>>]
  OBVIOUS
<1> HIDE DEF back
<1>4. PICK g \in [SUBSET (1 .. n) -> A] : FoldsTo(g, base, back, n)
  BY <1>2, FoldExists DEF CanFold
<1> DEFINE f == [s \in SUBSET (1 .. n) |-> g[Mirror(s, n)]]
<1>5. \A s \in SUBSET (1 .. n) : Mirror(s, n) \in SUBSET (1 .. n)
  BY <1>1 DEF Mirror
<1>6. f \in [SUBSET (1 .. n) -> A]
  BY <1>5
<1>7. \A s \in SUBSET (1 .. n) : f[s] = g[Mirror(s, n)]
  OBVIOUS
<1> HIDE DEF f
<1>8. ASSUME NEW s \in SUBSET (1 .. n)
      PROVE  f[s] = IF s = {} THEN base ELSE step[<<f[s \ {Min(s)}], Min(s)>>]
  <2> DEFINE t == Mirror(s, n)
             m == Min(s)
  <2>1. t \in SUBSET (1 .. n)
    BY <1>5
  <2>2. g[t] = IF t = {} THEN base ELSE back[<<g[t \ {Max(t)}], Max(t)>>]
    BY <1>4, <2>1, Zenon DEF FoldsTo
  <2>3. CASE s = {}
    <3>1. t = {}
      BY <2>3 DEF Mirror
    <3> QED  BY <1>7, <2>2, <2>3, <3>1
  <2>4. CASE s # {}
    <3>1. /\ m \in s /\ t # {} /\ Max(t) = n + 1 - m
          /\ Mirror(s \ {m}, n) = t \ {n + 1 - m}
      BY <2>4, MirrorIs
    <3> HIDE DEF m, t
    <3>2. m \in 1 .. n /\ n + 1 - m \in 1 .. n /\ n + 1 - (n + 1 - m) = m
      BY <1>1, <3>1
    <3>3. s \ {m} \in SUBSET (1 .. n) /\ t \ {n + 1 - m} \in SUBSET (1 .. n)
      BY <2>1
    <3>4. f[s \ {m}] = g[t \ {n + 1 - m}] /\ g[t \ {n + 1 - m}] \in A
      BY <1>7, <3>1, <3>3
    <3>5. g[t] = back[<<f[s \ {m}], n + 1 - m>>]
      BY <2>2, <3>1, <3>4, Zenon
    <3>6. back[<<f[s \ {m}], n + 1 - m>>] = step[<<f[s \ {m}], n + 1 - (n + 1 - m)>>]
      BY <1>3, <3>2, <3>4
    <3>7. f[s] = g[t]
      BY <1>7 DEF t
    <3>8. f[s] = step[<<f[s \ {m}], m>>]
      BY <3>2, <3>5, <3>6, <3>7, Zenon
    <3> QED  BY <2>4, <3>8, Zenon DEF m
  <2> QED  BY <2>3, <2>4
<1>9. FoldsFromRight(f, base, step, n)
  BY <1>8 DEF FoldsFromRight
<1> QED  BY <1>6, <1>9 DEF CanFoldRight

\* What the scan for a window holds, and what it makes of the next older message.
Rooms == [out : Seq(Sized), full : BOOLEAN, budget : Int]
Empty_(room) == [out |-> <<>>, full |-> FALSE, budget |-> room]
Kept_(message, acc) ==
  IF acc.full \/ Cost(message.size) > acc.budget THEN [acc EXCEPT !.full = TRUE]
  ELSE [acc EXCEPT !.out = <<message>> \o @, !.budget = @ - Cost(message.size)]

\* The scan goes on with a list of messages, and room that is a number.
LEMMA KeptTyped ==
  ASSUME NEW acc \in Rooms, NEW m \in Sized
  PROVE  Kept_(m, acc) \in Rooms
<1> DEFINE longer == <<m>> \o acc.out
           less == acc.budget - Cost(m.size)
<1>1. acc.out \in Seq(Sized) /\ acc.full \in BOOLEAN /\ acc.budget \in Int
  BY DEF Rooms
<1>2. Cost(m.size) \in Nat
  BY CostIs DEF Sized
<1>3. longer \in Seq(Sized) /\ less \in Int /\ TRUE \in BOOLEAN
  BY <1>1, <1>2
<1>4. Kept_(m, acc) \in {[acc EXCEPT !.full = TRUE], [acc EXCEPT !.out = longer, !.budget = less]}
  BY Zenon DEF Kept_
<1> HIDE DEF longer, less
<1> QED  BY <1>3, <1>4 DEF Rooms

\* A window is what the scan, from the newest message to the oldest, keeps.
ScansTo(g, talk, room) ==
  LET rest == Rest(talk)
  IN  /\ g[Len(rest) + 1] = Empty_(room)
      /\ \A n \in 1 .. Len(rest) : g[n] = Kept_(rest[n], g[n + 1])
      /\ TokenWindow(talk) = Pinned(talk) \o g[1].out

\* There is such a scan.
LEMMA TokenWindowIs ==
  ASSUME NEW talk, Rest(talk) \in Seq(Sized), MaxTokens - EstimateTokens(Pinned(talk)) \in Int
  PROVE  \E g : ScansTo(g, talk, MaxTokens - EstimateTokens(Pinned(talk)))
<1> DEFINE rest == Rest(talk)
           L == Len(rest)
           start == Empty_(MaxTokens - EstimateTokens(Pinned(talk)))
           IsScan(f) == f = [S \in SUBSET DOMAIN rest |->
                               IF S = {} THEN start ELSE Kept_(rest[Min(S)], f[S \ {Min(S)}])]
           F == CHOOSE f : IsScan(f)
           step == [p \in Rooms \X (1 .. L) |-> Kept_(rest[p[2]], p[1])]
<1>1. L \in Nat /\ DOMAIN rest = 1 .. L /\ \A n \in 1 .. L : rest[n] \in Sized
  OBVIOUS
<1>2. TokenWindow(talk) = Pinned(talk) \o F[DOMAIN rest].out
  BY Zenon DEF TokenWindow, FoldRight, MapThenFoldSet, Kept_, Empty_
<1>3. step \in [Rooms \X (1 .. L) -> Rooms]
  <2> HIDE DEF rest, L
  <2> QED  BY <1>1, KeptTyped
<1>4. start \in Rooms
  BY DEF Empty_, Rooms
<1> HIDE DEF start
<1>5. PICK f \in [SUBSET (1 .. L) -> Rooms] : FoldsFromRight(f, start, step, L)
  <2> HIDE DEF step, L
  <2>1. CanFoldRight(Rooms, start, step, L)
    BY <1>1, <1>3, <1>4, FoldRightExists
  <2> QED  BY <2>1 DEF CanFoldRight
<1> HIDE DEF rest
<1>6. ASSUME NEW S \in SUBSET (1 .. L)
      PROVE  f[S] = IF S = {} THEN start ELSE Kept_(rest[Min(S)], f[S \ {Min(S)}])
  <2>1. f[S] = IF S = {} THEN start ELSE step[<<f[S \ {Min(S)}], Min(S)>>]
    BY <1>5, Zenon DEF FoldsFromRight
  <2>2. CASE S # {}
    <3>1. Min(S) \in 1 .. L
      <4>1. S \in SUBSET Nat
        BY <1>1
      <4> QED  BY <2>2, <4>1, MinIsLeast
    <3>2. S \ {Min(S)} \in SUBSET (1 .. L)
      OBVIOUS
    <3>3. f[S \ {Min(S)}] \in Rooms
      BY <3>2
    <3> DEFINE x == f[S \ {Min(S)}]
               m == Min(S)
    <3>4. step[<<x, m>>] = Kept_(rest[m], x)
      <4>1. x \in Rooms /\ m \in 1 .. L
        BY <3>1, <3>3
      <4> HIDE DEF x, m, L
      <4> QED  BY <4>1
    <3> QED  BY <2>1, <2>2, <3>4, Zenon
  <2> QED  BY <2>1, <2>2, Zenon
<1>7. IsScan(f)
  <2>1. f = [S \in SUBSET (1 .. L) |-> f[S]]
    BY <1>5
  <2> QED  BY <1>1, <1>6, <2>1, Zenon
<1>8. IsScan(F)
  BY <1>7, Zenon
<1>9. \A S \in SUBSET (1 .. L) :
        F[S] = IF S = {} THEN start ELSE Kept_(rest[Min(S)], F[S \ {Min(S)}])
  BY <1>1, <1>8, Zenon
<1> HIDE DEF F, step
<1> DEFINE g == [n \in 1 .. L + 1 |-> F[n .. L]]
<1>10. F[L + 1 .. L] = start
  <2>1. L + 1 .. L = {}
    BY <1>1
  <2> QED  BY <1>9, <2>1, Zenon
<1>11. \A n \in 1 .. L : F[n .. L] = Kept_(rest[n], F[n + 1 .. L])
  <2> SUFFICES ASSUME NEW n \in 1 .. L
               PROVE  F[n .. L] = Kept_(rest[n], F[n + 1 .. L])
    OBVIOUS
  <2>1. n .. L \in SUBSET (1 .. L) /\ n .. L \in SUBSET Nat /\ n \in n .. L
    BY <1>1
  <2>2. Min(n .. L) = n
    <3>1. Min(n .. L) \in n .. L /\ Min(n .. L) <= n
      BY <2>1, MinIsLeast
    <3> DEFINE m == Min(n .. L)
    <3> HIDE DEF m
    <3>2. m = n
      <4>1. m \in n .. L /\ m <= n
        BY <3>1 DEF m
      <4> QED  BY <1>1, <4>1
    <3> QED  BY <3>2 DEF m
  <2>3. (n .. L) \ {n} = n + 1 .. L /\ n .. L # {}
    BY <1>1, <2>1
  <2> QED  BY <1>9, <2>1, <2>2, <2>3, Zenon
<1>12. \A n \in 1 .. L + 1 : g[n] = F[n .. L]
  OBVIOUS
<1>13. \A n \in 1 .. L : n \in 1 .. L + 1 /\ n + 1 \in 1 .. L + 1
  BY <1>1
<1>14. 1 \in 1 .. L + 1 /\ L + 1 \in 1 .. L + 1
  BY <1>1
<1> HIDE DEF g
<1>15. ScansTo(g, talk, MaxTokens - EstimateTokens(Pinned(talk)))
  BY <1>1, <1>2, <1>10, <1>11, <1>12, <1>13, <1>14, Zenon DEF ScansTo, start, rest
<1> QED  BY <1>15

\* After the i-th message, the scan holds the tail from a position j: all of it
\* fits, and the message before it, once the scan is full, does not.
CutAt(acc, rest, room, i, j) ==
  /\ acc.out = Tail_(rest, j) /\ acc.budget = room - EstimateTokens(Tail_(rest, j))
  /\ j # Len(rest) + 1 => EstimateTokens(Tail_(rest, j)) <= room
  /\ acc.full => j > i /\ EstimateTokens(Tail_(rest, j - 1)) > room
  /\ ~acc.full => j = i
Reached(acc, rest, room, i) ==
  acc \in Rooms /\ \E j \in i .. Len(rest) + 1 : CutAt(acc, rest, room, i, j)

\* No message has been looked at.
LEMMA ScanStarts ==
  ASSUME NEW rest \in Seq(Sized), NEW room \in Int
  PROVE  Reached(Empty_(room), rest, room, Len(rest) + 1)
<1>1. Len(rest) \in Nat /\ Len(rest) + 1 \in 1 .. Len(rest) + 1 /\ Len(rest) + 1 \in Len(rest) + 1 .. Len(rest) + 1
  OBVIOUS
<1>2. Tail_(rest, Len(rest) + 1) = <<>>
  BY <1>1, SubSeqEmpty DEF Tail_
<1>3. EstimateTokens(<<>>) = 0
  <2>1. Costs(<<>>) = <<>> /\ <<>> \in Seq(Sized)
    BY DEF Costs
  <2> QED  BY <2>1, EstimateIs, SumOfEmpty
<1>4. Empty_(room) \in Rooms
  BY DEF Empty_, Rooms
<1>5. CutAt(Empty_(room), rest, room, Len(rest) + 1, Len(rest) + 1)
  BY <1>2, <1>3 DEF CutAt, Empty_
<1> QED  BY <1>1, <1>4, <1>5 DEF Reached

\* The next older message is kept if it fits and nothing newer was refused.
LEMMA ScanGoesOn ==
  ASSUME NEW rest \in Seq(Sized), NEW room \in Int, NEW i \in 1 .. Len(rest),
         NEW acc, Reached(acc, rest, room, i + 1)
  PROVE  Reached(Kept_(rest[i], acc), rest, room, i)
<1> DEFINE cost == Cost(rest[i].size)
           next == Kept_(rest[i], acc)
           E(n) == EstimateTokens(Tail_(rest, n))
<1>1. acc \in Rooms /\ acc.out \in Seq(Sized) /\ acc.full \in BOOLEAN /\ acc.budget \in Int
  BY DEF Reached, Rooms
<1>2. PICK j \in i + 1 .. Len(rest) + 1 : CutAt(acc, rest, room, i + 1, j)
  BY DEF Reached
<1>3. Len(rest) \in Nat /\ i \in Nat /\ rest[i] \in Sized
  OBVIOUS
<1>4. next \in Rooms
  BY <1>1, <1>3, KeptTyped
<1>5. /\ E(i) = cost + E(i + 1) /\ cost \in Nat /\ E(i + 1) \in Nat
      /\ Tail_(rest, i) = <<rest[i]>> \o Tail_(rest, i + 1)
  BY TailCostsMore, TailGrows
<1> HIDE DEF cost
<1>6. CASE acc.full
  <2>1. next = [acc EXCEPT !.full = TRUE]
    BY <1>6, Zenon DEF Kept_
  <2>2. next.out = acc.out /\ next.budget = acc.budget /\ next.full = TRUE
    BY <1>1, <2>1 DEF Rooms
  <2>3. j \in i .. Len(rest) + 1 /\ j > i /\ j > i + 1
    BY <1>2, <1>3, <1>6 DEF CutAt
  <2> HIDE DEF next
  <2>4. CutAt(next, rest, room, i, j)
    BY <1>2, <1>6, <2>2, <2>3 DEF CutAt
  <2> QED  BY <1>4, <2>3, <2>4 DEF Reached, next
<1>7. CASE ~acc.full /\ cost > acc.budget
  <2>1. next = [acc EXCEPT !.full = TRUE]
    BY <1>7, Zenon DEF Kept_, cost
  <2>2. next.out = acc.out /\ next.budget = acc.budget /\ next.full = TRUE
    BY <1>1, <2>1 DEF Rooms
  <2>3. j = i + 1 /\ acc.budget = room - E(j)
    BY <1>2, <1>7 DEF CutAt
  <2>4. E(i) > room
    BY <1>5, <1>7, <2>3
  <2>5. j \in i .. Len(rest) + 1 /\ j > i /\ j - 1 = i
    BY <1>3, <2>3
  <2> HIDE DEF next
  <2>6. CutAt(next, rest, room, i, j)
    BY <1>2, <2>2, <2>3, <2>4, <2>5 DEF CutAt
  <2> QED  BY <1>4, <2>5, <2>6 DEF Reached, next
<1>8. CASE ~acc.full /\ ~(cost > acc.budget)
  <2> DEFINE longer == <<rest[i]>> \o acc.out
             less == acc.budget - cost
  <2>1. next = [acc EXCEPT !.out = longer, !.budget = less]
    BY <1>8, Zenon DEF Kept_, cost
  <2>2. next.out = longer /\ next.budget = less /\ next.full = FALSE
    <3> HIDE DEF longer, less
    <3>1. next.out = longer /\ next.budget = less /\ next.full = acc.full
      BY <1>1, <2>1 DEF Rooms
    <3> QED  BY <1>1, <1>8, <3>1
  <2>3. j = i + 1 /\ acc.out = Tail_(rest, j) /\ acc.budget = room - E(j)
    BY <1>2, <1>8 DEF CutAt
  <2>4. longer = Tail_(rest, i)
    BY <1>5, <2>3, Zenon
  <2>5. less = room - E(i) /\ E(i) <= room
    BY <1>1, <1>5, <1>8, <2>3
  <2>6. i \in i .. Len(rest) + 1
    BY <1>3
  <2> HIDE DEF next, longer, less
  <2>7. CutAt(next, rest, room, i, i)
    BY <2>2, <2>4, <2>5 DEF CutAt
  <2> QED  BY <1>4, <2>6, <2>7 DEF Reached, next
<1> QED  BY <1>6, <1>7, <1>8

\* The window holds the pinned messages and a tail of the others: nothing, or
\* what fits, and all of it, or with the message before it it would not.
LEMMA WindowIsTail ==
  ASSUME NEW talk, Rest(talk) \in Seq(Sized), MaxTokens - EstimateTokens(Pinned(talk)) \in Int
  PROVE  LET rest == Rest(talk)
             room == MaxTokens - EstimateTokens(Pinned(talk))
         IN  \E j \in 1 .. Len(rest) + 1 :
               /\ TokenWindow(talk) = Pinned(talk) \o Tail_(rest, j)
               /\ j # Len(rest) + 1 => EstimateTokens(Tail_(rest, j)) <= room
               /\ j # 1 => EstimateTokens(Tail_(rest, j - 1)) > room
<1> DEFINE rest == Rest(talk)
           room == MaxTokens - EstimateTokens(Pinned(talk))
           L == Len(rest)
<1>1. PICK g : ScansTo(g, talk, room)
  BY TokenWindowIs
<1>2. L \in Nat /\ rest \in Seq(Sized) /\ room \in Int
  OBVIOUS
<1>3. /\ g[L + 1] = Empty_(room) /\ \A n \in 1 .. L : g[n] = Kept_(rest[n], g[n + 1])
      /\ TokenWindow(talk) = Pinned(talk) \o g[1].out
  BY <1>1, Zenon DEF ScansTo
<1> HIDE DEF rest, room
<1> DEFINE N == {n \in Nat : n <= L => Reached(g[L + 1 - n], rest, room, L + 1 - n)}
<1>4. 0 \in N
  <2>1. L + 1 - 0 = L + 1
    BY <1>2
  <2>2. Reached(g[L + 1], rest, room, L + 1)
    BY <1>2, <1>3, ScanStarts
  <2> QED  BY <2>1, <2>2
<1>5. ASSUME NEW n \in Nat, n \in N
      PROVE  n + 1 \in N
  <2> SUFFICES ASSUME n + 1 <= L
               PROVE  Reached(g[L + 1 - (n + 1)], rest, room, L + 1 - (n + 1))
    OBVIOUS
  <2> DEFINE i == L + 1 - (n + 1)
  <2>1. i \in 1 .. L /\ L + 1 - n = i + 1 /\ n <= L
    BY <1>2
  <2>2. Reached(g[L + 1 - n], rest, room, L + 1 - n)
    BY <1>5, <2>1
  <2> HIDE DEF i
  <2>3. Reached(g[i + 1], rest, room, i + 1)
    BY <2>1, <2>2, Zenon
  <2>4. i \in 1 .. Len(rest)
    BY <2>1
  <2>5. Reached(Kept_(rest[i], g[i + 1]), rest, room, i)
    BY <1>2, <2>3, <2>4, ScanGoesOn
  <2>6. g[i] = Kept_(rest[i], g[i + 1])
    BY <1>3, <2>1
  <2>7. Reached(g[i], rest, room, i)
    BY <2>5, <2>6, Zenon
  <2> QED  BY <2>7 DEF i
<1>6. Nat \subseteq N
  <2> HIDE DEF N
  <2> QED  BY <1>4, <1>5, SetInduction
<1>7. Reached(g[1], rest, room, 1)
  <2>1. L \in N
    <3> HIDE DEF N
    <3> QED  BY <1>2, <1>6
  <2>2. Reached(g[L + 1 - L], rest, room, L + 1 - L)
    BY <1>2, <2>1
  <2>3. L + 1 - L = 1
    BY <1>2
  <2> QED  BY <2>2, <2>3, Zenon
<1>8. PICK j \in 1 .. L + 1 : CutAt(g[1], rest, room, 1, j)
  BY <1>7 DEF Reached
<1>9. g[1].full \in BOOLEAN
  BY <1>7 DEF Reached, Rooms
<1>10. /\ g[1].out = Tail_(rest, j)
       /\ j # L + 1 => EstimateTokens(Tail_(rest, j)) <= room
       /\ j # 1 => EstimateTokens(Tail_(rest, j - 1)) > room
  BY <1>8, <1>9 DEF CutAt
<1>11. TokenWindow(talk) = Pinned(talk) \o Tail_(rest, j)
  BY <1>3, <1>10, Zenon
<1> QED  BY <1>8, <1>10, <1>11, Zenon DEF rest, room

\* The pinned messages and the others of a list, which a longer one has too.
LEMMA PinnedAndRest ==
  ASSUME NEW talk \in Seq(Sized)
  PROVE  LET pins == {m \in Sized : m.role = "system"}
             turns == {m \in Sized : m.role # "system"}
         IN  /\ Pinned(talk) = Among(talk, pins) /\ Pinned(talk) \in Seq(pins)
             /\ Rest(talk) = Among(talk, turns) /\ Rest(talk) \in Seq(turns)
<1> DEFINE pins == {m \in Sized : m.role = "system"}
           turns == {m \in Sized : m.role # "system"}
           own == {m \in ToSet(talk) : m.role = "system"}
           others == {m \in ToSet(talk) : m.role # "system"}
<1>1. ToSet(talk) \subseteq Sized
  BY DEF ToSet
<1>2. ToSet(talk) \cap pins = ToSet(talk) \cap own /\ ToSet(talk) \cap turns = ToSet(talk) \cap others
  BY <1>1
<1> HIDE DEF pins, turns, own, others
<1>3. Among(talk, own) = Among(talk, pins) /\ Among(talk, others) = Among(talk, turns)
  BY <1>2, AmongSame
<1>4. /\ Among(talk, pins) \in Seq(Sized) /\ ToSet(Among(talk, pins)) \subseteq pins
      /\ Among(talk, turns) \in Seq(Sized) /\ ToSet(Among(talk, turns)) \subseteq turns
  BY AmongElements
<1>5. ASSUME NEW s \in Seq(Sized), NEW some, ToSet(s) \subseteq some
      PROVE  s \in Seq(some)
  <2>1. \A i \in 1 .. Len(s) : s[i] \in some
    BY <1>5 DEF ToSet
  <2> QED  BY <2>1
<1>6. Among(talk, pins) \in Seq(pins) /\ Among(talk, turns) \in Seq(turns)
  BY <1>4, <1>5
<1> QED  BY <1>3, <1>6, Zenon DEF Pinned, Rest, own, others, pins, turns

\* Pinned messages before others: the pinned of both, and the others.
LEMMA PinnedFirst ==
  ASSUME NEW p \in Seq({m \in Sized : m.role = "system"}),
         NEW t \in Seq({m \in Sized : m.role # "system"})
  PROVE  Pinned(p \o t) = p /\ Rest(p \o t) = t
<1> DEFINE pins == {m \in Sized : m.role = "system"}
           turns == {m \in Sized : m.role # "system"}
<1>1. p \in Seq(Sized) /\ t \in Seq(Sized) /\ p \o t \in Seq(Sized)
  OBVIOUS
<1>2. ToSet(p) \subseteq pins /\ ToSet(t) \subseteq turns /\ pins \cap turns = {}
  BY DEF ToSet
<1> HIDE DEF pins, turns
<1>3. Among(p, pins) = p /\ Among(t, pins) = <<>> /\ Among(p, turns) = <<>> /\ Among(t, turns) = t
  <2>1. ToSet(t) \cap pins = {} /\ ToSet(p) \cap turns = {}
    BY <1>2
  <2> QED  BY <1>1, <1>2, <2>1, AmongElements
<1>4. Among(p \o t, pins) = Among(p, pins) \o Among(t, pins)
  BY <1>1, AmongConcat
<1>5. Among(p \o t, turns) = Among(p, turns) \o Among(t, turns)
  BY <1>1, AmongConcat
<1>6. p \o <<>> = p /\ <<>> \o t = t
  OBVIOUS
<1>7. Among(p \o t, pins) = p /\ Among(p \o t, turns) = t
  BY <1>3, <1>4, <1>5, <1>6, Zenon
<1>8. Pinned(p \o t) = Among(p \o t, pins) /\ Rest(p \o t) = Among(p \o t, turns)
  BY <1>1, PinnedAndRest, Zenon DEF pins, turns
<1> QED  BY <1>7, <1>8, Zenon

\* The estimate of the pinned messages and a tail is that of both.
LEMMA WindowCosts ==
  ASSUME NEW talk \in Seq(Sized), NEW i \in 1 .. Len(Rest(talk)) + 1
  PROVE  /\ Rest(talk) \in Seq(Sized) /\ Pinned(talk) \in Seq(Sized)
         /\ MaxTokens - EstimateTokens(Pinned(talk)) \in Int
         /\ Tail_(Rest(talk), i) \in Seq(Sized)
         /\ WithinBudget(Pinned(talk) \o Tail_(Rest(talk), i)) <=>
              EstimateTokens(Tail_(Rest(talk), i)) <= MaxTokens - EstimateTokens(Pinned(talk))
<1> DEFINE rest == Rest(talk)
           pinned == Pinned(talk)
           t == Tail_(rest, i)
<1>1. rest \in Seq(Sized) /\ pinned \in Seq(Sized)
  <2>1. /\ pinned \in Seq({m \in Sized : m.role = "system"})
        /\ rest \in Seq({m \in Sized : m.role # "system"})
    BY PinnedAndRest
  <2> HIDE DEF rest, pinned
  <2> QED  BY <2>1
<1> HIDE DEF pinned
<1>2. t \in Seq(Sized)
  BY <1>1, TailIs
<1> HIDE DEF rest, t
<1>3. /\ EstimateTokens(pinned) \in Nat /\ EstimateTokens(t) \in Nat
      /\ EstimateTokens(pinned \o t) = EstimateTokens(pinned) + EstimateTokens(t)
  BY <1>1, <1>2, EstimateOfConcat
<1>4. MaxTokens \in Nat
  BY MemoryAssumption
<1>5. MaxTokens - EstimateTokens(pinned) \in Int
  BY <1>3, <1>4
<1>6. WithinBudget(pinned \o t) <=> EstimateTokens(t) <= MaxTokens - EstimateTokens(pinned)
  BY <1>3, <1>4 DEF WithinBudget
<1> QED  BY <1>1, <1>2, <1>5, <1>6 DEF rest, pinned, t

\* Each window keeps the pinned messages and the longest run that fits.
LEMMA WindowFits ==
  ASSUME NEW talk \in Seq(Sized)
  PROVE  /\ LongestFit(talk, TokenWindow(talk))
         /\ WithinBudget(TokenWindow(talk)) \/ TokenWindow(talk) = Pinned(talk)
<1> DEFINE rest == Rest(talk)
           pinned == Pinned(talk)
           L == Len(rest)
           room == MaxTokens - EstimateTokens(pinned)
           tails == {SubSeq(rest, i, Len(rest)) : i \in 1 .. Len(rest) + 1}
           fitting == {t \in tails : WithinBudget(pinned \o t)} \union {<<>>}
<1>0. rest \in Seq(Sized) /\ pinned \in Seq(Sized)
  <2>1. /\ pinned \in Seq({m \in Sized : m.role = "system"})
        /\ rest \in Seq({m \in Sized : m.role # "system"})
    BY PinnedAndRest
  <2> HIDE DEF rest, pinned
  <2> QED  BY <2>1
<1>1. L \in Nat /\ 1 \in 1 .. L + 1 /\ L + 1 \in 1 .. L + 1
  BY <1>0
<1>2. room \in Int
  BY <1>1, WindowCosts
<1>3. \A i \in 1 .. L + 1 :
        /\ Tail_(rest, i) \in Seq(Sized) /\ Len(Tail_(rest, i)) = L - i + 1
        /\ WithinBudget(pinned \o Tail_(rest, i)) <=> EstimateTokens(Tail_(rest, i)) <= room
  BY <1>0, TailIs, WindowCosts
<1>4. PICK j \in 1 .. L + 1 :
        /\ TokenWindow(talk) = pinned \o Tail_(rest, j)
        /\ j # L + 1 => EstimateTokens(Tail_(rest, j)) <= room
        /\ j # 1 => EstimateTokens(Tail_(rest, j - 1)) > room
  BY <1>0, <1>2, WindowIsTail
<1>5. Tail_(rest, L + 1) = <<>>
  BY <1>0, <1>1, SubSeqEmpty DEF Tail_
<1>6. Tail_(rest, j) \in fitting
  <2>1. CASE j = L + 1
    BY <1>5, <2>1
  <2>2. CASE j # L + 1
    <3>1. WithinBudget(pinned \o Tail_(rest, j))
      BY <1>3, <1>4, <2>2
    <3>2. Tail_(rest, j) \in tails
      BY DEF Tail_
    <3> QED  BY <3>1, <3>2
  <2> QED  BY <2>1, <2>2
<1>7. ASSUME NEW u \in fitting
      PROVE  Len(u) <= Len(Tail_(rest, j))
  <2>1. Len(Tail_(rest, j)) = L - j + 1 /\ L - j + 1 \in Nat
    BY <1>1, <1>3
  <2>2. CASE u = <<>>
    BY <2>1, <2>2
  <2>3. CASE u # <<>>
    <3>1. PICK i \in 1 .. L + 1 : u = Tail_(rest, i) /\ WithinBudget(pinned \o u)
      BY <2>3 DEF Tail_
    <3>2. EstimateTokens(Tail_(rest, i)) <= room /\ Len(u) = L - i + 1
      BY <1>3, <3>1
    <3>3. CASE i < j
      <4>1. j - 1 \in i .. L + 1 /\ j # 1 /\ i \in 1 .. L + 1 /\ j - 1 \in 1 .. L + 1
        BY <1>1, <3>3
      <4>2. /\ EstimateTokens(Tail_(rest, j - 1)) <= EstimateTokens(Tail_(rest, i))
            /\ EstimateTokens(Tail_(rest, j - 1)) \in Nat /\ EstimateTokens(Tail_(rest, i)) \in Nat
        <5>1. i \in i .. L + 1
          BY <1>1
        <5> QED  BY <1>0, <4>1, <5>1, TailsCost
      <4>3. EstimateTokens(Tail_(rest, j - 1)) > room
        BY <1>4, <4>1
      <4> HIDE DEF room, rest
      <4> QED  BY <1>2, <3>2, <4>2, <4>3
    <3>4. CASE ~(i < j)
      BY <1>1, <2>1, <3>2, <3>4
    <3> QED  BY <3>3, <3>4
  <2> QED  BY <2>2, <2>3
<1>8. LongestFit(talk, TokenWindow(talk))
  BY <1>4, <1>6, <1>7, Zenon DEF LongestFit
<1>9. WithinBudget(TokenWindow(talk)) \/ TokenWindow(talk) = pinned
  <2>1. CASE j = L + 1
    <3>1. pinned \o <<>> = pinned
      BY <1>0
    <3> QED  BY <1>4, <1>5, <2>1, <3>1, Zenon
  <2>2. CASE j # L + 1
    BY <1>3, <1>4, <2>2, Zenon
  <2> QED  BY <2>1, <2>2
<1> QED  BY <1>8, <1>9

\* Messages cut to the limit of one message, and what they may cost then.
AllCapped(talk) == [i \in DOMAIN talk |-> Capped(talk[i])]
Short == {m \in Sized : Cost(m.size) \in 0 .. MaxMessageTokens + 7}

\* A message cut is short, and keeps its role.
LEMMA CappedIs ==
  ASSUME NEW m \in Sized
  PROVE  Capped(m) \in Short /\ Capped(m) \in Sized /\ Capped(m).role = m.role
<1> DEFINE limit == MaxMessageTokens * CharsPerToken
<1>1. /\ MaxMessageTokens \in Nat /\ m.size \in Nat /\ m.role \in {"system", "user"}
      /\ limit = MaxMessageTokens * 4 /\ limit \in Nat
  BY MemoryAssumption DEF Sized, CharsPerToken
<1>2. CASE m.size > limit
  <2>1. Capped(m) = [m EXCEPT !.size = limit + 15]
    BY <1>2 DEF Capped
  <2>2. limit + 15 \in Nat
    BY <1>1
  <2>3. Capped(m) \in Sized /\ Capped(m).role = m.role /\ Capped(m).size = limit + 15
    <3> HIDE DEF limit
    <3> QED  BY <2>1, <2>2 DEF Sized
  <2>4. Cost(limit + 15) \in 0 .. MaxMessageTokens + 7
    <3>1. (MaxMessageTokens * 4 + 15) \div 4 = MaxMessageTokens + 3
      BY <1>1
    <3>2. Cost(limit + 15) = MaxMessageTokens + 3 + 4
      BY <1>1, <2>2, <3>1, CostIs
    <3> QED  BY <1>1, <3>2
  <2> HIDE DEF limit
  <2> QED  BY <2>3, <2>4 DEF Short
<1>3. CASE ~(m.size > limit)
  <2>1. Capped(m) = m
    BY <1>3 DEF Capped
  <2>2. Cost(m.size) \in 0 .. MaxMessageTokens + 7
    <3>1. m.size \div 4 <= MaxMessageTokens /\ m.size \div 4 >= 0 /\ m.size \div 4 \in Int
      BY <1>1, <1>3
    <3>2. Cost(m.size) = m.size \div 4 + 4
      BY <1>1, CostIs
    <3> QED  BY <1>1, <3>1, <3>2
  <2> QED  BY <2>1, <2>2 DEF Short
<1> QED  BY <1>2, <1>3

\* Cutting leaves every message in its place.
LEMMA AllCappedIs ==
  ASSUME NEW talk \in Seq(Sized)
  PROVE  AllCapped(talk) \in Seq(Sized) /\ AllCapped(talk) \in Seq(Short)
<1>1. DOMAIN talk = 1 .. Len(talk) /\ Len(talk) \in Nat /\ \A i \in 1 .. Len(talk) : talk[i] \in Sized
  OBVIOUS
<1>2. \A i \in 1 .. Len(talk) : Capped(talk[i]) \in Sized /\ Capped(talk[i]) \in Short
  BY <1>1, CappedIs
<1> QED  BY <1>1, <1>2 DEF AllCapped

\* Cutting changes neither which messages are pinned nor how many are not.
LEMMA CappedRest ==
  \A talk \in Seq(Sized) : Len(Rest(AllCapped(talk))) = Len(Rest(talk))
<1> DEFINE turns == {m \in Sized : m.role # "system"}
           S == {s \in Seq(Sized) : Len(Among(AllCapped(s), turns)) = Len(Among(s, turns))}
<1>1. <<>> \in S
  <2>1. AllCapped(<<>>) = <<>> /\ <<>> \in Seq(Sized)
    BY DEF AllCapped
  <2> HIDE DEF turns
  <2> QED  BY <2>1
<1>2. ASSUME NEW s \in Seq(Sized), NEW m \in Sized, s \in S
      PROVE  Append(s, m) \in S
  <2>1. Append(s, m) \in Seq(Sized) /\ AllCapped(s) \in Seq(Sized) /\ Capped(m) \in Sized
    BY CappedIs, AllCappedIs
  <2>2. AllCapped(Append(s, m)) = Append(AllCapped(s), Capped(m))
    <3> DEFINE a == AllCapped(Append(s, m))
               b == Append(AllCapped(s), Capped(m))
    <3>1. /\ Len(s) \in Nat /\ DOMAIN s = 1 .. Len(s)
          /\ DOMAIN Append(s, m) = 1 .. Len(s) + 1 /\ Append(s, m)[Len(s) + 1] = m
          /\ \A i \in 1 .. Len(s) : Append(s, m)[i] = s[i]
      OBVIOUS
    <3>2. DOMAIN AllCapped(s) = 1 .. Len(s) /\ \A i \in 1 .. Len(s) : AllCapped(s)[i] = Capped(s[i])
      BY <3>1 DEF AllCapped
    <3>3. DOMAIN a = 1 .. Len(s) + 1 /\ a[Len(s) + 1] = Capped(m) /\ \A i \in 1 .. Len(s) : a[i] = Capped(s[i])
      BY <3>1 DEF AllCapped
    <3>4. Len(AllCapped(s)) = Len(s)
      BY <2>1, <3>1, <3>2
    <3>5. /\ b \in Seq(Sized) /\ Len(b) = Len(s) + 1 /\ b[Len(s) + 1] = Capped(m)
          /\ \A i \in 1 .. Len(s) : b[i] = AllCapped(s)[i]
      <4>1. /\ b \in Seq(Sized) /\ Len(b) = Len(AllCapped(s)) + 1 /\ b[Len(AllCapped(s)) + 1] = Capped(m)
            /\ \A i \in 1 .. Len(AllCapped(s)) : b[i] = AllCapped(s)[i]
        BY <2>1, AppendElements
      <4> QED  BY <3>4, <4>1
    <3>6. a \in Seq(Sized)
      BY <2>1, AllCappedIs
    <3> HIDE DEF a, b
    <3>7. Len(a) = Len(s) + 1
      BY <3>1, <3>3, <3>6
    <3>8. \A i \in 1 .. Len(a) : a[i] = b[i]
      <4>1. \A i \in 1 .. Len(s) + 1 : i \in 1 .. Len(s) \/ i = Len(s) + 1
        BY <3>1
      <4> QED  BY <3>2, <3>3, <3>5, <3>7, <4>1
    <3>9. a = b
      BY <3>5, <3>6, <3>7, <3>8, SeqEqual
    <3> QED  BY <3>9 DEF a, b
  <2>3. m \in turns <=> Capped(m) \in turns
    BY CappedIs
  <2>4. Among(s, turns) \in Seq(Sized) /\ Among(AllCapped(s), turns) \in Seq(Sized)
    BY <2>1, AmongElements
  <2> HIDE DEF turns
  <2>5. Len(Among(AllCapped(s), turns)) = Len(Among(s, turns))
    BY <1>2
  <2>6. CASE m \in turns
    <3>1. /\ Among(Append(s, m), turns) = Append(Among(s, turns), m)
          /\ Among(Append(AllCapped(s), Capped(m)), turns) = Append(Among(AllCapped(s), turns), Capped(m))
      <4>1. Among(Append(s, m), turns) = Append(Among(s, turns), m)
        BY <2>6, AmongAppend
      <4>2. \A a \in Seq(Sized), x \in Sized :
              x \in turns => Among(Append(a, x), turns) = Append(Among(a, turns), x)
        BY AmongAppend
      <4>3. AllCapped(s) \in Seq(Sized) /\ Capped(m) \in Sized /\ Capped(m) \in turns
        BY <2>1, <2>3, <2>6
      <4> QED  BY <4>1, <4>2, <4>3, Zenon
    <3>2. /\ Len(Append(Among(s, turns), m)) = Len(Among(s, turns)) + 1
          /\ Len(Append(Among(AllCapped(s), turns), Capped(m))) = Len(Among(AllCapped(s), turns)) + 1
      BY <2>1, <2>4
    <3>3. Len(Among(AllCapped(Append(s, m)), turns)) = Len(Among(Append(s, m), turns))
      BY <2>2, <2>5, <3>1, <3>2, Zenon
    <3> QED  BY <2>1, <3>3
  <2>7. CASE m \notin turns
    <3>1. /\ Among(Append(s, m), turns) = Among(s, turns)
          /\ Among(Append(AllCapped(s), Capped(m)), turns) = Among(AllCapped(s), turns)
      BY <2>1, <2>3, <2>7, AmongAppend
    <3>2. Len(Among(AllCapped(Append(s, m)), turns)) = Len(Among(Append(s, m), turns))
      BY <2>2, <2>5, <3>1, Zenon
    <3> QED  BY <2>1, <3>2
  <2> QED  BY <2>6, <2>7
<1>3. Seq(Sized) \subseteq S
  <2> HIDE DEF S
  <2> QED  BY <1>1, <1>2, SeqInduction
<1>4. \A s \in Seq(Sized) : Len(Among(AllCapped(s), turns)) = Len(Among(s, turns))
  BY <1>3
<1>5. \A s \in Seq(Sized) : Rest(s) = Among(s, turns) /\ Rest(AllCapped(s)) = Among(AllCapped(s), turns)
  BY AllCappedIs, PinnedAndRest
<1> QED  BY <1>4, <1>5, Zenon

\* Short messages cost no more than their number times the limit and seven.
LEMMA ShortCosts ==
  ASSUME NEW s \in Seq(Short)
  PROVE  EstimateTokens(s) \in Nat /\ EstimateTokens(s) <= Len(s) * (MaxMessageTokens + 7)
<1> DEFINE c == MaxMessageTokens + 7
<1>1. c \in Nat
  BY MemoryAssumption
<1>2. s \in Seq(Sized) /\ Len(s) \in Nat /\ DOMAIN s = 1 .. Len(s) /\ \A i \in 1 .. Len(s) : s[i] \in Short
  BY DEF Short
<1>3. EstimateTokens(s) = SumOf(Costs(s)) /\ Len(Costs(s)) = Len(s)
  BY <1>2, EstimateIs
<1>4. \A i \in 1 .. Len(s) : Cost(s[i].size) \in 0 .. c
  BY <1>2 DEF Short
<1> HIDE DEF c
<1>5. Costs(s) \in Seq(0 .. c)
  BY <1>2, <1>4 DEF Costs
<1>6. SumOf(Costs(s)) \in Nat /\ SumOf(Costs(s)) <= Len(Costs(s)) * c
  BY <1>1, <1>5, SumIsBounded
<1>7. EstimateTokens(s) \in Nat /\ EstimateTokens(s) <= Len(s) * c
  BY <1>3, <1>6, Zenon
<1> QED  BY <1>7 DEF c

\* With room for the last n messages at their longest, all n are in the window.
LEMMA NewestAreKept ==
  ASSUME NEW talk \in Seq(Sized), NEW n \in 1 .. Len(Rest(talk)),
         n * (MaxMessageTokens + 7) + EstimateTokens(Pinned(AllCapped(talk))) <= MaxTokens
  PROVE  Len(Rest(TokenWindow(AllCapped(talk)))) >= n
<1> DEFINE capped == AllCapped(talk)
           rest == Rest(capped)
           pinned == Pinned(capped)
           L == Len(rest)
           c == MaxMessageTokens + 7
           room == MaxTokens - EstimateTokens(pinned)
<1>1. capped \in Seq(Sized) /\ capped \in Seq(Short)
  BY AllCappedIs
<1>2. L = Len(Rest(talk))
  BY CappedRest
<1> HIDE DEF capped
<1>3. /\ pinned \in Seq({m \in Sized : m.role = "system"})
      /\ rest \in Seq({m \in Sized : m.role # "system"})
  BY <1>1, PinnedAndRest
<1>4. rest \in Seq(Short) /\ rest \in Seq(Sized)
  <2>1. rest = Among(capped, {m \in Sized : m.role # "system"})
    BY <1>1, PinnedAndRest
  <2>2. Among(capped, {m \in Sized : m.role # "system"}) \in Seq(Short)
    BY <1>1, AmongElements
  <2> HIDE DEF rest
  <2> QED  BY <1>3, <2>1, <2>2
<1>5. /\ L \in Nat /\ 1 \in 1 .. L + 1
      /\ EstimateTokens(pinned) \in Nat /\ MaxTokens \in Nat /\ c \in Nat /\ room \in Int
  <2>1. pinned \in Seq(Sized)
    <3> HIDE DEF pinned
    <3> QED  BY <1>3
  <2>2. EstimateTokens(pinned) \in Nat
    BY <2>1, EstimateOfConcat
  <2> QED  BY <1>4, <2>2, MemoryAssumption
<1>6. n \in 1 .. L /\ n * c <= room /\ n * c \in Nat
  <2>1. n * c + EstimateTokens(pinned) <= MaxTokens
    BY DEF capped
  <2>2. n \in Nat /\ n \in 1 .. L
    BY <1>2
  <2>3. n * c \in Nat
    BY <1>5, <2>2
  <2> DEFINE d == n * c
             e == EstimateTokens(pinned)
  <2>4. d \in Nat /\ e \in Nat /\ d + e <= MaxTokens
    BY <1>5, <2>1, <2>3
  <2> HIDE DEF d, e
  <2>5. d <= MaxTokens - e
    BY <1>5, <2>4
  <2> QED  BY <2>2, <2>3, <2>5 DEF d, e
<1>7. PICK j \in 1 .. L + 1 :
        /\ TokenWindow(capped) = pinned \o Tail_(rest, j)
        /\ j # 1 => EstimateTokens(Tail_(rest, j - 1)) > room
  BY <1>4, <1>5, WindowIsTail
<1> HIDE DEF rest, pinned, room, c
<1>8. /\ Tail_(rest, j) \in Seq({m \in Sized : m.role # "system"}) /\ Len(Tail_(rest, j)) = L - j + 1
  BY <1>3, TailIs
<1>9. Rest(TokenWindow(capped)) = Tail_(rest, j)
  BY <1>3, <1>7, <1>8, PinnedFirst
<1>10. L - j + 1 >= n
  <2> SUFFICES ASSUME ~(L - j + 1 >= n)
               PROVE  FALSE
    OBVIOUS
  <2>1. j # 1 /\ j - 1 \in 1 .. L + 1 /\ L - (j - 1) + 1 \in 0 .. n
    BY <1>5, <1>6
  <2>2. Tail_(rest, j - 1) \in Seq(Short) /\ Len(Tail_(rest, j - 1)) = L - (j - 1) + 1
    BY <1>4, <2>1, TailIs
  <2>3. /\ EstimateTokens(Tail_(rest, j - 1)) \in Nat
        /\ EstimateTokens(Tail_(rest, j - 1)) <= Len(Tail_(rest, j - 1)) * c
    BY <2>2, ShortCosts DEF c
  <2> DEFINE e == EstimateTokens(Tail_(rest, j - 1))
             k == L - (j - 1) + 1
  <2>4. e \in Nat /\ e <= k * c /\ e > room /\ k \in 0 .. n
    BY <1>7, <2>1, <2>2, <2>3
  <2> HIDE DEF e, k, L
  <2>5. k * c <= n * c
    <3>1. n \in Nat /\ k \in Nat /\ k <= n /\ c \in Nat
      BY <1>5, <1>6, <2>4
    <3>2. (n - k) * c \in Nat /\ (n - k) * c = n * c - k * c
      <4>1. n - k \in Nat
        BY <3>1
      <4> QED  BY <3>1, <4>1
    <3>3. n * c \in Nat /\ k * c \in Nat
      BY <3>1
    <3> QED  BY <3>2, <3>3
  <2>6. k * c \in Nat
    BY <1>5, <2>4
  <2> QED  BY <1>5, <1>6, <2>4, <2>5, <2>6
<1>11. Len(Rest(TokenWindow(capped))) >= n
  BY <1>8, <1>9, <1>10
<1> QED  BY <1>11 DEF capped

\* The positions of a list, in order, of which some are picked.
Positions(n) == [i \in 1 .. n |-> i]

\* They are picked in order.
LEMMA PositionsInOrder ==
  ASSUME NEW some
  PROVE  \A n \in Nat :
           /\ Among(Positions(n), some) \in Seq(1 .. n)
           /\ ToSet(Among(Positions(n), some)) = 1 .. n \cap some
           /\ LET r == Among(Positions(n), some)
              IN  \A i, j \in DOMAIN r : i < j => r[i] < r[j]
<1> DEFINE R(n) == Among(Positions(n), some)
           N == {n \in Nat : \A i, j \in DOMAIN R(n) : i < j => R(n)[i] < R(n)[j]}
<1>1. \A n \in Nat : /\ Positions(n) \in Seq(1 .. n) /\ ToSet(Positions(n)) = 1 .. n
  BY DEF Positions, ToSet
<1>2. \A n \in Nat : R(n) \in Seq(1 .. n) /\ ToSet(R(n)) = 1 .. n \cap some
  BY <1>1, AmongElements
<1>3. 0 \in N
  <2>1. Positions(0) = <<>>
    BY DEF Positions
  <2>2. R(0) = <<>>
    BY <2>1, AmongEmpty
  <2> HIDE DEF R
  <2> QED  BY <2>2
<1>4. ASSUME NEW n \in Nat, n \in N
      PROVE  n + 1 \in N
  <2>1. Positions(n + 1) = Append(Positions(n), n + 1)
    <3> DEFINE a == Positions(n + 1)
               b == Append(Positions(n), n + 1)
    <3>1. Positions(n) \in Seq(Nat) /\ Len(Positions(n)) = n /\ \A i \in 1 .. n : Positions(n)[i] = i
      BY DEF Positions
    <3>2. a \in Seq(Nat) /\ Len(a) = n + 1 /\ \A i \in 1 .. n + 1 : a[i] = i
      BY DEF Positions
    <3>3. n + 1 \in Nat
      OBVIOUS
    <3>4. /\ b \in Seq(Nat) /\ Len(b) = Len(Positions(n)) + 1 /\ b[Len(Positions(n)) + 1] = n + 1
          /\ \A i \in 1 .. Len(Positions(n)) : b[i] = Positions(n)[i]
      BY <3>1, <3>3, AppendElements
    <3> HIDE DEF a, b
    <3>5. Len(b) = n + 1 /\ b[n + 1] = n + 1 /\ \A i \in 1 .. n : b[i] = i
      BY <3>1, <3>4
    <3>6. \A i \in 1 .. n + 1 : i \in 1 .. n \/ i = n + 1
      OBVIOUS
    <3>7. \A i \in 1 .. Len(a) : a[i] = b[i]
      BY <3>2, <3>5, <3>6
    <3>8. a = b
      BY <3>2, <3>4, <3>5, <3>7, SeqEqual
    <3> QED  BY <3>8 DEF a, b
  <2>2. R(n) \in Seq(1 .. n) /\ R(n) \in Seq(Nat) /\ Positions(n) \in Seq(Nat) /\ n + 1 \in Nat
    <3>1. R(n) \in Seq(1 .. n) /\ Positions(n) \in Seq(1 .. n)
      BY <1>1, <1>2
    <3> HIDE DEF R
    <3> QED  BY <3>1
  <2>3. \A i, j \in DOMAIN R(n) : i < j => R(n)[i] < R(n)[j]
    BY <1>4
  <2>6. \A s \in Seq(Nat), x \in Nat :
          /\ x \in some => Among(Append(s, x), some) = Append(Among(s, some), x)
          /\ x \notin some => Among(Append(s, x), some) = Among(s, some)
    BY AmongAppend
  <2>4. CASE n + 1 \notin some
    <3>1. R(n + 1) = R(n)
      BY <2>1, <2>2, <2>4, <2>6, Zenon
    <3> HIDE DEF R
    <3> QED  BY <2>3, <3>1
  <2>5. CASE n + 1 \in some
    <3>1. R(n + 1) = Append(R(n), n + 1)
      BY <2>1, <2>2, <2>5, <2>6, Zenon
    <3> HIDE DEF R
    <3>2. Len(R(n)) \in Nat /\ DOMAIN R(n) = 1 .. Len(R(n)) /\ \A i \in 1 .. Len(R(n)) : R(n)[i] \in 1 .. n
      BY <2>2
    <3>3. /\ DOMAIN R(n + 1) = 1 .. Len(R(n)) + 1 /\ R(n + 1)[Len(R(n)) + 1] = n + 1
          /\ \A i \in 1 .. Len(R(n)) : R(n + 1)[i] = R(n)[i]
      <4>1. /\ Append(R(n), n + 1) \in Seq(Nat) /\ Len(Append(R(n), n + 1)) = Len(R(n)) + 1
            /\ Append(R(n), n + 1)[Len(R(n)) + 1] = n + 1
            /\ \A i \in 1 .. Len(R(n)) : Append(R(n), n + 1)[i] = R(n)[i]
        BY <2>2, AppendElements
      <4>2. DOMAIN Append(R(n), n + 1) = 1 .. Len(R(n)) + 1
        BY <4>1
      <4> QED  BY <3>1, <4>1, <4>2, Zenon
    <3>4. ASSUME NEW i \in DOMAIN R(n + 1), NEW j \in DOMAIN R(n + 1), i < j
          PROVE  R(n + 1)[i] < R(n + 1)[j]
      <4>1. i \in 1 .. Len(R(n)) /\ R(n + 1)[i] = R(n)[i]
        BY <3>2, <3>3, <3>4
      <4>2. CASE j = Len(R(n)) + 1
        BY <3>2, <3>3, <4>1, <4>2
      <4>3. CASE j # Len(R(n)) + 1
        <5>1. j \in 1 .. Len(R(n))
          BY <3>2, <3>3, <4>3
        <5> QED  BY <2>3, <3>2, <3>3, <3>4, <4>1, <5>1
      <4> QED  BY <4>2, <4>3
    <3> QED  BY <3>4
  <2> QED  BY <2>4, <2>5
<1>5. Nat \subseteq N
  <2> HIDE DEF N
  <2> QED  BY <1>3, <1>4, SetInduction
<1> QED  BY <1>2, <1>5

\* What a recall prefers: at most k turns in order, and none left out is more
\* similar than one of them.
RecallsBest(found, talk, score, k) ==
  /\ Len(found) <= k
  /\ \A i, j \in DOMAIN found : i < j => found[i] < found[j]
  /\ \A p \in DOMAIN talk \ ToSet(found) :
       talk[p].role = "user" /\ score[p] > 0 =>
         Len(found) = k /\ \A i \in DOMAIN found : score[found[i]] >= score[p]

\* Each recall.
LEMMA RecallIsBest ==
  ASSUME NEW talk \in Seq(Sized), NEW score \in [DOMAIN talk -> Nat], NEW k \in Nat
  PROVE  RecallsBest(Recall(talk, score, k), talk, score, k)
<1> DEFINE S == TurnsIn(talk)
           B(i) == {j \in S : score[j] > score[i] \/ (score[j] = score[i] /\ j > i)}
           n == Len(talk)
           before == [i \in S |-> B(i)]
           C == Cardinality(S)
           count == [i \in S |-> Cardinality(before[i])]
           best == {i \in S : score[i] > 0 /\ Cardinality(B(i)) < k}
           found == Recall(talk, score, k)
<1>1. n \in Nat /\ DOMAIN talk = 1 .. n /\ S \subseteq 1 .. n
  BY DEF TurnsIn
<1>2. \A i \in S : score[i] \in Nat /\ i \in Nat
  BY <1>1
<1>3. found = Among(Positions(n), best)
  BY <1>1, Zenon DEF Recall, Positions
<1>4. \A p \in 1 .. n : talk[p].role = "user" => p \in S
  BY <1>1 DEF TurnsIn, PinnedIn
<1> HIDE DEF S
<1>5. /\ found \in Seq(1 .. n) /\ ToSet(found) = 1 .. n \cap best
      /\ \A i, j \in DOMAIN found : i < j => found[i] < found[j]
  <2> HIDE DEF best, found
  <2> QED  BY <1>1, <1>3, PositionsInOrder
<1>6. IsFiniteSet(S)
  <2>1. IsFiniteSet(1 .. n)
    <3>1. 1 \in Int /\ n \in Int
      BY <1>1
    <3> HIDE DEF n
    <3> QED  BY <3>1, FS_Interval
  <2> QED  BY <1>1, <2>1, FS_Subset, Zenon
<1>7. \A i, j \in S : j \in B(i) <=> score[j] > score[i] \/ (score[j] = score[i] /\ j > i)
  OBVIOUS
<1>8. before \in [S -> SUBSET S] /\ \A i \in S : before[i] = B(i)
  OBVIOUS
<1> HIDE DEF B, before
<1>9. /\ \A i \in S : i \notin before[i]
      /\ \A i, j \in S : i # j => i \in before[j] \/ j \in before[i]
      /\ \A i, j \in S : i \in before[j] => before[i] \subseteq before[j]
      /\ \A i, j \in S : i \in before[j] => score[i] >= score[j]
  <2>1. \A i \in S : i \notin B(i)
    BY <1>2, <1>7
  <2>2. \A i, j \in S : i # j => i \in B(j) \/ j \in B(i)
    BY <1>2, <1>7
  <2>3. \A i, j, l \in S : i \in B(j) /\ l \in B(i) => l \in B(j)
    BY <1>2, <1>7
  <2>4. \A i, j \in S : i \in B(j) => score[i] >= score[j]
    BY <1>2, <1>7
  <2>5. \A i \in S : before[i] = B(i) /\ B(i) \subseteq S
    BY <1>8
  <2>6. \A i, j \in S : i \in B(j) => B(i) \subseteq B(j)
    BY <2>3, <2>5
  <2> QED  BY <2>1, <2>2, <2>4, <2>5, <2>6
<1>10. /\ C \in Nat /\ count \in [S -> 0 .. C - 1]
       /\ \A i, j \in S : (i \in before[j] <=> count[i] < count[j]) /\ (count[i] = count[j] => i = j)
       /\ \A l \in 0 .. C - 1 : \E i \in S : count[i] = l
  BY <1>6, <1>8, <1>9, BeforeCounts
<1>11. best = {i \in S : score[i] > 0 /\ count[i] < k}
  BY <1>8
<1> HIDE DEF best, count, C
<1>12. IsFiniteSet(0 .. k - 1) /\ Cardinality(0 .. k - 1) = k
  <2>1. 0 \in Int /\ k - 1 \in Int
    OBVIOUS
  <2>2. IsFiniteSet(0 .. k - 1) /\ Cardinality(0 .. k - 1) = IF 0 > k - 1 THEN 0 ELSE k - 1 - 0 + 1
    BY <2>1, FS_Interval
  <2> QED  BY <2>2
<1>13. ToSet(found) = best
  BY <1>1, <1>5, <1>11
<1>14. IsFiniteSet(best) /\ Cardinality(best) = Len(found)
  <2> DEFINE m == Len(found)
  <2>1. m \in Nat /\ DOMAIN found = 1 .. m /\ \A i \in 1 .. m : found[i] \in Nat
    <3> HIDE DEF found
    <3> QED  BY <1>1, <1>5
  <2>2. found \in [1 .. m -> best]
    <3>1. \A i \in 1 .. m : found[i] \in best
      BY <1>13, <2>1 DEF ToSet
    <3>2. found = [i \in 1 .. m |-> found[i]]
      <4> HIDE DEF found
      <4> QED  BY <1>5, <2>1
    <3> HIDE DEF found
    <3> QED  BY <3>1, <3>2
  <2>3. \A i, j \in 1 .. m : found[i] = found[j] => i = j
    <3> HIDE DEF found, m
    <3> SUFFICES ASSUME NEW i \in 1 .. m, NEW j \in 1 .. m, found[i] = found[j]
                 PROVE  i = j
      OBVIOUS
    <3>1. i \in DOMAIN found /\ j \in DOMAIN found /\ i \in Int /\ j \in Int
      BY <2>1
    <3>2. ~(i < j) /\ ~(j < i)
      <4>1. (i < j => found[i] < found[j]) /\ (j < i => found[j] < found[i])
        BY <1>5, <3>1, Zenon
      <4>2. found[i] \in Nat /\ found[j] \in Nat
        BY <2>1
      <4> QED  BY <4>1, <4>2
    <3> QED  BY <3>1, <3>2
  <2>4. \A b \in best : \E i \in 1 .. m : found[i] = b
    BY <1>13, <2>1 DEF ToSet
  <2> HIDE DEF found, m
  <2>5. found \in Injection(1 .. m, best) /\ found \in Surjection(1 .. m, best)
    BY <2>2, <2>3, <2>4 DEF Injection, IsInjective, Surjection
  <2>6. IsFiniteSet(1 .. m) /\ Cardinality(1 .. m) = m
    <3>1. 1 \in Int /\ m \in Int
      BY <2>1
    <3>2. IsFiniteSet(1 .. m) /\ Cardinality(1 .. m) = IF 1 > m THEN 0 ELSE m - 1 + 1
      BY <3>1, FS_Interval
    <3> QED  BY <2>1, <3>2
  <2>7. IsFiniteSet(best) /\ Cardinality(best) = m
    BY <2>5, <2>6, FS_Surjection
  <2> QED  BY <2>7 DEF m
<1> DEFINE ranks == [i \in best |-> count[i]]
<1>15. ranks \in Injection(best, 0 .. k - 1)
  <2>1. \A i \in best : i \in S /\ count[i] \in 0 .. k - 1
    BY <1>10, <1>11
  <2>2. ranks \in [best -> 0 .. k - 1]
    BY <2>1
  <2>3. \A i, j \in best : ranks[i] = ranks[j] => i = j
    BY <1>10, <2>1
  <2> HIDE DEF ranks
  <2> QED  BY <2>2, <2>3 DEF Injection, IsInjective
<1>16. Len(found) <= k
  <2> HIDE DEF ranks
  <2>1. Cardinality(best) <= Cardinality(0 .. k - 1)
    BY <1>12, <1>14, <1>15, FS_Injection
  <2> QED  BY <1>12, <1>14, <2>1
<1>17. ASSUME NEW p \in DOMAIN talk \ ToSet(found), talk[p].role = "user", score[p] > 0
       PROVE  Len(found) = k /\ \A i \in DOMAIN found : score[found[i]] >= score[p]
  <2>1. p \in S /\ count[p] >= k /\ count[p] \in 0 .. C - 1
    BY <1>1, <1>4, <1>10, <1>11, <1>13, <1>17
  <2>2. \A i \in S : count[i] < k => score[i] >= score[p]
    <3>1. \A i \in S : count[i] < k => count[i] < count[p]
      BY <1>10, <2>1
    <3> QED  BY <1>9, <1>10, <2>1, <3>1
  <2>3. \A l \in 0 .. k - 1 : \E i \in best : ranks[i] = l
    <3> SUFFICES ASSUME NEW l \in 0 .. k - 1
                 PROVE  \E i \in best : ranks[i] = l
      OBVIOUS
    <3>1. l \in 0 .. C - 1 /\ l < k
      BY <1>10, <2>1
    <3>2. PICK i \in S : count[i] = l
      BY <1>10, <3>1
    <3>3. score[i] >= score[p] /\ score[i] > 0
      BY <1>2, <1>17, <2>1, <2>2, <3>1, <3>2
    <3>4. i \in best
      BY <1>11, <3>1, <3>2, <3>3
    <3> QED  BY <3>2, <3>4
  <2>4. ranks \in Surjection(best, 0 .. k - 1)
    <3> HIDE DEF ranks
    <3> QED  BY <1>15, <2>3 DEF Injection, Surjection
  <2>5. Len(found) = k
    <3> HIDE DEF ranks
    <3>1. Cardinality(0 .. k - 1) <= Cardinality(best)
      BY <1>14, <2>4, FS_Surjection
    <3> QED  BY <1>12, <1>14, <1>16, <3>1
  <2>6. \A i \in DOMAIN found : found[i] \in best
    BY <1>13 DEF ToSet
  <2> QED  BY <1>11, <2>2, <2>5, <2>6
<1> HIDE DEF found
<1>18. RecallsBest(found, talk, score, k)
  BY <1>5, <1>16, <1>17 DEF RecallsBest
<1> QED  BY <1>18 DEF found

\* A tail is a suffix.
LEMMA TailIsSuffix ==
  ASSUME NEW X, NEW s \in Seq(X), NEW i \in 1 .. Len(s) + 1
  PROVE  IsSuffix(Tail_(s, i), s)
<1> DEFINE t == Tail_(s, i)
           m == Len(t)
           L == Len(s)
<1>1. t \in Seq(X) /\ m = L - i + 1 /\ \A n \in 1 .. L - i + 1 : t[n] = s[i + n - 1]
  BY TailIs
<1> HIDE DEF t
<1>2. L \in Nat /\ m \in Nat /\ m <= L /\ DOMAIN s = 1 .. L /\ \A n \in 1 .. L : s[n] \in X
  BY <1>1
<1>3. \A n \in 1 .. m : t[m - n + 1] = s[L - n + 1] /\ L - n + 1 \in 1 .. L /\ n \in 1 .. L
  <2> SUFFICES ASSUME NEW n \in 1 .. m
               PROVE  t[m - n + 1] = s[L - n + 1] /\ L - n + 1 \in 1 .. L /\ n \in 1 .. L
    OBVIOUS
  <2>1. m - n + 1 \in 1 .. L - i + 1 /\ i + (m - n + 1) - 1 = L - n + 1
    BY <1>1, <1>2
  <2>2. t[m - n + 1] = s[i + (m - n + 1) - 1]
    BY <1>1, <2>1
  <2>3. L - n + 1 \in 1 .. L /\ n \in 1 .. L
    BY <1>2
  <2> QED  BY <2>1, <2>2, <2>3, Zenon
<1> HIDE DEF m, L
<1> DEFINE a == Reverse(t)
           b == Reverse(s)
<1>4. /\ a = [n \in 1 .. m |-> t[(m - n) + 1]] /\ b = [n \in 1 .. L |-> s[(L - n) + 1]]
  BY DEF Reverse, m, L
<1>5. a \in Seq(X) /\ Len(a) = m /\ \A n \in 1 .. m : a[n] = s[L - n + 1]
  <2>1. \A n \in 1 .. m : t[(m - n) + 1] \in X /\ t[(m - n) + 1] = s[L - n + 1]
    BY <1>2, <1>3
  <2> HIDE DEF a
  <2> QED  BY <1>2, <1>4, <2>1
<1>6. b \in Seq(X) /\ Len(b) = L /\ \A n \in 1 .. L : b[n] = s[L - n + 1]
  <2>1. \A n \in 1 .. L : (L - n) + 1 \in 1 .. L
    BY <1>2
  <2>2. \A n \in 1 .. L : s[(L - n) + 1] \in X
    BY <1>2, <2>1
  <2> HIDE DEF b
  <2> QED  BY <1>2, <1>4, <2>2
<1> HIDE DEF a, b
<1>7. /\ SubSeq(a, 1, m) \in Seq(X) /\ Len(SubSeq(a, 1, m)) = m
      /\ \A n \in 1 .. m : SubSeq(a, 1, m)[n] = a[n]
  BY <1>2, <1>5
<1>8. /\ SubSeq(b, 1, m) \in Seq(X) /\ Len(SubSeq(b, 1, m)) = m
      /\ \A n \in 1 .. m : SubSeq(b, 1, m)[n] = b[n]
  BY <1>2, <1>6
<1>9. \A n \in 1 .. m : a[n] = b[n]
  BY <1>3, <1>5, <1>6
<1>10. SubSeq(a, 1, m) = SubSeq(b, 1, m)
  BY <1>7, <1>8, <1>9, SeqEqual
<1>11. IsPrefix(a, b)
  BY <1>2, <1>5, <1>6, <1>10 DEF IsPrefix
<1> QED  BY <1>11 DEF IsSuffix, a, b, t

\* The last n of a list, or all of it: -0 is 0.
LEMMA LastNIs ==
  ASSUME NEW X, NEW s \in Seq(X), NEW n \in Nat
  PROVE  /\ LastN(s, n) \in Seq(X) /\ IsSuffix(LastN(s, n), s)
         /\ Len(LastN(s, n)) = IF n = 0 THEN Len(s) ELSE Min({n, Len(s)})
<1> DEFINE L == Len(s)
           first == Max({1, L - n + 1})
           least == Min({n, L})
<1>1. L \in Nat
  OBVIOUS
<1>2. least \in {n, L} /\ least <= n /\ least <= L
  <2>1. {n, L} \in SUBSET Nat /\ {n, L} # {}
    BY <1>1
  <2> QED  BY <2>1, MinIsLeast
<1>3. CASE n = 0
  <2>1. LastN(s, n) = s /\ Tail_(s, 1) = s /\ 1 \in 1 .. L + 1
    BY <1>1, <1>3, SubSeqFull DEF LastN, Tail_
  <2>2. IsSuffix(Tail_(s, 1), s)
    BY <2>1, TailIsSuffix
  <2> QED  BY <1>3, <2>1, <2>2
<1>4. CASE n # 0
  <2>1. first = IF L - n + 1 <= 1 THEN 1 ELSE L - n + 1
    <3> DEFINE k == L - n + 1
               m == IF k <= 1 THEN 1 ELSE k
    <3>1. k \in Int
      BY <1>1
    <3> HIDE DEF k
    <3>2. m \in {1, k} /\ \A x \in {1, k} : x \in Int /\ x <= m
      BY <3>1
    <3> HIDE DEF m
    <3>3. Max({1, k}) = m
      BY <3>2, MaxIs
    <3> QED  BY <3>3 DEF k, m
  <2> HIDE DEF first
  <2>2. first \in 1 .. L + 1
    BY <1>1, <1>4, <2>1
  <2>3. LastN(s, n) = Tail_(s, first)
    BY <1>4 DEF LastN, Tail_, first
  <2>4. /\ Tail_(s, first) \in Seq(X) /\ Len(Tail_(s, first)) = L - first + 1
        /\ IsSuffix(Tail_(s, first), s)
    BY <2>2, TailIs, TailIsSuffix
  <2>5. L - first + 1 = least
    <3> HIDE DEF least, L
    <3> QED  BY <1>1, <1>2, <1>4, <2>1
  <2> QED  BY <1>4, <2>3, <2>4, <2>5, Zenon
<1> QED  BY <1>3, <1>4

\* The window of the last k keeps the pinned messages, and those.
LEMMA WindowIs ==
  ASSUME NEW talk \in Seq(Sized), NEW k \in Nat
  PROVE  /\ Pinned(Window(talk, k)) = Pinned(talk)
         /\ IsSuffix(Rest(Window(talk, k)), Rest(talk))
         /\ Len(Rest(Window(talk, k))) = IF k = 0 THEN Len(Rest(talk)) ELSE Min({k, Len(Rest(talk))})
<1> DEFINE pins == {m \in Sized : m.role = "system"}
           turns == {m \in Sized : m.role # "system"}
           rest == Rest(talk)
           pinned == Pinned(talk)
           last == LastN(rest, k)
<1>1. pinned \in Seq(pins) /\ rest \in Seq(turns)
  BY PinnedAndRest
<1> HIDE DEF rest, pinned
<1>2. /\ last \in Seq(turns) /\ IsSuffix(last, rest)
      /\ Len(last) = IF k = 0 THEN Len(rest) ELSE Min({k, Len(rest)})
  BY <1>1, LastNIs
<1> HIDE DEF last
<1>3. Pinned(pinned \o last) = pinned /\ Rest(pinned \o last) = last
  BY <1>1, <1>2, PinnedFirst
<1>4. Window(talk, k) = pinned \o last
  BY DEF Window, pinned, last, rest
<1> QED  BY <1>2, <1>3, <1>4, Zenon DEF pinned, rest

\* Every window of the invariant's log keeps what it promises.
LEMMA WindowsOfLog ==
  ASSUME log \in Seq(Sized)
  PROVE  WindowsHold
<1> DEFINE capped == [i \in DOMAIN log |-> Capped(log[i])]
           budgeted == ConversationBudget(log)
<1>1. MaxMessages \in Nat /\ \A k \in 0 .. MaxMessages : k \in Nat
  BY MemoryAssumption
<1>2. \A k \in 0 .. MaxMessages :
        /\ Pinned(Window(log, k)) = Pinned(log)
        /\ IsSuffix(Rest(Window(log, k)), Rest(log))
        /\ Len(Rest(Window(log, k))) = IF k = 0 THEN Len(Rest(log)) ELSE Min({k, Len(Rest(log))})
  BY <1>1, WindowIs
<1>3. LongestFit(log, TokenWindow(log))
  BY WindowFits
<1>4. capped = AllCapped(log) /\ budgeted = TokenWindow(AllCapped(log)) /\ AllCapped(log) \in Seq(Sized)
  BY AllCappedIs DEF AllCapped, ConversationBudget
<1>5. LongestFit(capped, budgeted) /\ (WithinBudget(budgeted) \/ budgeted = Pinned(capped))
  BY <1>4, WindowFits, Zenon
<1>6. \A n \in 1 .. Len(Rest(log)) :
        n * (MaxMessageTokens + 7) + EstimateTokens(Pinned(capped)) <= MaxTokens
          => Len(Rest(budgeted)) >= n
  <2> SUFFICES ASSUME NEW n \in 1 .. Len(Rest(log)),
                      n * (MaxMessageTokens + 7) + EstimateTokens(Pinned(capped)) <= MaxTokens
               PROVE  Len(Rest(budgeted)) >= n
    OBVIOUS
  <2>1. n * (MaxMessageTokens + 7) + EstimateTokens(Pinned(AllCapped(log))) <= MaxTokens
    BY <1>4, Zenon
  <2>2. Len(Rest(TokenWindow(AllCapped(log)))) >= n
    BY <2>1, NewestAreKept, Zenon
  <2> QED  BY <1>4, <2>2, Zenon
<1>7. \A score \in [DOMAIN log -> 0 .. 2], k \in 0 .. 2 :
        LET found == Recall(log, score, k)
        IN  /\ Len(found) <= k
            /\ \A i, j \in DOMAIN found : i < j => found[i] < found[j]
            /\ \A p \in DOMAIN log \ ToSet(found) :
                 log[p].role = "user" /\ score[p] > 0 =>
                   Len(found) = k /\ \A i \in DOMAIN found : score[found[i]] >= score[p]
  <2> SUFFICES ASSUME NEW score \in [DOMAIN log -> 0 .. 2], NEW k \in 0 .. 2
               PROVE  RecallsBest(Recall(log, score, k), log, score, k)
    BY Zenon DEF RecallsBest
  <2>1. k \in Nat /\ score \in [DOMAIN log -> Nat]
    OBVIOUS
  <2> QED  BY <2>1, RecallIsBest
<1> HIDE DEF capped, budgeted
<1> QED  BY <1>2, <1>3, <1>5, <1>6, <1>7, Zenon DEF WindowsHold, capped, budgeted

\* "get back messages that fit" (memory.py:271): every window keeps the system
\* messages and the longest run of newest others within its limit, and a recall
\* the most similar.
THEOREM WindowsKeepWhatFits == MemorySpec => []WindowsHold
<1>1. MemoryInv => WindowsHold
  <2> SUFFICES ASSUME MemoryInv
               PROVE  WindowsHold
    OBVIOUS
  <2>1. Message \subseteq Sized
    BY MemoryAssumption DEF Message, Sized
  <2>2. log \in Seq(Sized)
    <3>1. log \in Seq(Message)
      BY DEF MemoryInv
    <3> HIDE DEF Message
    <3> QED  BY <2>1, <3>1
  <2> QED  BY <2>2, WindowsOfLog
<1> QED  BY <1>1, MemoryAlways, PTL
=============================================================================
