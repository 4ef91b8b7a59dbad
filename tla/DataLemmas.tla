------------------------------- MODULE DataLemmas -------------------------------
(***************************************************************************)
(* What the proofs of the components need of numbers and sequences, and of *)
(* the operators of the community modules.  Induction is by the least      *)
(* number of a set, which asks for no operator parameter.                  *)
(***************************************************************************)
EXTENDS Integers, Sequences, SequencesExt, FiniteSetTheorems, SequenceTheorems, TLAPS

SmallerPairs == {p \in Nat \X Nat : p[1] < p[2]}

\* A set of natural numbers with any member has a least one.
LEMMA LeastNatural ==
    ASSUME NEW T, T \subseteq Nat, T # {}
    PROVE  \E x \in T : \A y \in T : x <= y
<1>1. IsWellFoundedOn(SmallerPairs, Nat)
  BY NatLessThanWellFounded, Zenon DEF SmallerPairs, OpToRel
<1>2. PICK x \in T : \A y \in T : ~(<<y, x>> \in SmallerPairs)
  BY <1>1, WFMin, Zenon
<1>3. \A y \in T : x <= y
  <2> SUFFICES ASSUME NEW y \in T, y < x PROVE FALSE
    OBVIOUS
  <2>1. <<y, x>> \in Nat \X Nat /\ <<y, x>>[1] < <<y, x>>[2]
    OBVIOUS
  <2>2. <<y, x>> \in SmallerPairs
    BY <2>1, Zenon DEF SmallerPairs
  <2>3. QED BY <1>2, <2>2
<1>4. QED BY <1>3

\* Induction, with a set in the place of the predicate.
LEMMA SetInduction ==
    ASSUME NEW S, 0 \in S, \A n \in Nat : n \in S => n + 1 \in S
    PROVE  Nat \subseteq S
<1> SUFFICES ASSUME Nat \ S # {} PROVE FALSE
  OBVIOUS
<1>1. PICK x \in Nat \ S : \A y \in Nat \ S : x <= y
  BY LeastNatural
<1>2. x - 1 \in Nat /\ x - 1 \in S
  BY <1>1
<1>3. QED BY <1>1, <1>2

-------------------------------------------------------------------------------
\* A finite set becomes a sequence of its members.
LEMMA SetToSeqLists ==
    ASSUME NEW S, IsFiniteSet(S)
    PROVE  SetToSeq(S) \in Seq(S) /\ Range(SetToSeq(S)) = S
<1>1. Cardinality(S) \in Nat /\ ExistsBijection(1..Cardinality(S), S)
  BY FS_CardinalityType
<1>2. PICK f \in [1..Cardinality(S) -> S] : IsInjective(f)
  BY <1>1 DEF ExistsBijection, Bijection, Injection, IsInjective, Surjection
<1>3. SetToSeq(S) \in [1..Cardinality(S) -> S] /\ IsInjective(SetToSeq(S))
  BY <1>2, Zenon DEF SetToSeq
<1> DEFINE s == SetToSeq(S)
<1> HIDE DEF s
<1>4. s \in Injection(1..Cardinality(S), S)
  BY <1>3 DEF Injection, s
<1>5. s \in Surjection(1..Cardinality(S), S)
  <2>1. Cardinality(1..Cardinality(S)) = Cardinality(S)
    BY <1>1, FS_Interval
  <2>2. QED BY <1>4, <2>1, FS_Injection
<1>6. s \in Seq(S) /\ Range(s) = S
  <2>1. s \in [1..Cardinality(S) -> S]
    BY <1>3 DEF s
  <2>2. Range(s) = S
    BY <1>5, <2>1 DEF Surjection, Range
  <2>3. QED BY <1>1, <2>1, <2>2
<1>7. QED BY <1>6 DEF s

\* What a function makes of a finite set is finite.
LEMMA FiniteImage ==
    ASSUME NEW S, IsFiniteSet(S), NEW f
    PROVE  IsFiniteSet({f[x] : x \in S})
<1> DEFINE T == {f[x] : x \in S}
           g == [x \in S |-> f[x]]
<1>1. g \in Surjection(S, T)
  BY DEF Surjection
<1>2. QED BY <1>1, FS_Surjection

\* A finite set of natural numbers with any member has a greatest one.
LEMMA GreatestNatural ==
    ASSUME NEW n \in Nat, NEW T, T \subseteq 0..n, T # {}
    PROVE  Max(T) \in T /\ \A y \in T : y <= Max(T)
<1> DEFINE rest == {n - x : x \in T}
<1>1. rest \subseteq Nat /\ rest # {}
  <2>1. \A x \in T : n - x \in Nat
    OBVIOUS
  <2>2. PICK x \in T : TRUE
    OBVIOUS
  <2>3. n - x \in rest
    OBVIOUS
  <2>4. QED BY <2>1, <2>3
<1>2. PICK z \in rest : \A y \in rest : z <= y
  <2> HIDE DEF rest
  <2> QED BY <1>1, LeastNatural
<1>3. PICK x \in T : z = n - x
  BY <1>2
<1>4. \A y \in T : x >= y
  <2> SUFFICES ASSUME NEW y \in T PROVE x >= y
    OBVIOUS
  <2>1. n - y \in rest
    OBVIOUS
  <2>2. z <= n - y
    BY <1>2, <2>1
  <2>3. QED BY <1>3, <2>2
<1>5. Max(T) \in T /\ \A y \in T : Max(T) >= y
  BY <1>4, Zenon DEF Max
<1>6. QED BY <1>5

\* What a sequence of sequences flattens to.
LEMMA FlattenSeqJoins ==
    ASSUME NEW S, NEW seqs \in Seq(Seq(S))
    PROVE  /\ FlattenSeq(seqs) \in Seq(S)
           /\ Range(FlattenSeq(seqs)) = UNION {Range(seqs[i]) : i \in 1..Len(seqs)}
<1> DEFINE Extended(f, i) == IF i = 1 THEN seqs[i] ELSE f[i - 1] \o seqs[i]
           IsFlat(f, n) == f = [i \in 1..n |-> Extended(f, i)]
           solved == {n \in Nat : \E f : IsFlat(f, n)}
           flatten == CHOOSE f : IsFlat(f, Len(seqs))
<1>1. Len(seqs) \in Nat /\ \A i \in 1..Len(seqs) : seqs[i] \in Seq(S)
  OBVIOUS
<1>2. 0 \in solved
  <2>1. <<>> = [i \in 1..0 |-> Extended(<<>>, i)]
    OBVIOUS
  <2>2. QED BY <2>1
<1>3. ASSUME NEW n \in Nat, n \in solved PROVE n + 1 \in solved
  <2>1. PICK f : IsFlat(f, n)
    BY <1>3
  <2> DEFINE e == Extended(f, n + 1)
             g == [i \in 1..(n + 1) |-> IF i <= n THEN f[i] ELSE e]
  <2> HIDE DEF e
  <2>2. ASSUME NEW i \in 1..(n + 1) PROVE g[i] = Extended(g, i)
    <3>1. CASE i = n + 1
      <4>1. i # 1 => i - 1 \in 1..n /\ g[i - 1] = f[i - 1]
        BY <3>1
      <4>2. Extended(g, i) = Extended(f, i)
        BY <4>1
      <4>3. g[i] = e
        BY <3>1
      <4>4. QED BY <3>1, <4>2, <4>3 DEF e
    <3>2. CASE i # n + 1
      <4>1. i \in 1..n /\ g[i] = f[i]
        BY <3>2
      <4>2. i # 1 => i - 1 \in 1..n /\ g[i - 1] = f[i - 1]
        BY <3>2
      <4>3. Extended(g, i) = Extended(f, i)
        BY <4>2
      <4>4. f[i] = Extended(f, i)
        <5> HIDE DEF Extended
        <5> QED BY <2>1, <4>1
      <4>5. QED BY <4>1, <4>3, <4>4
    <3>3. QED BY <3>1, <3>2
  <2>3. g = [i \in 1..(n + 1) |-> g[i]]
    OBVIOUS
  <2>4. IsFlat(g, n + 1)
    <3> HIDE DEF g, Extended
    <3> QED BY <2>2, <2>3
  <2>5. QED
    <3> HIDE DEF g, IsFlat
    <3> QED BY <2>4
<1>4. Nat \subseteq solved
  <2> HIDE DEF solved
  <2> QED BY <1>2, <1>3, SetInduction
<1>5. IsFlat(flatten, Len(seqs))
  <2> HIDE DEF IsFlat
  <2> QED BY <1>1, <1>4
<1>6. FlattenSeq(seqs) = IF Len(seqs) = 0 THEN seqs ELSE flatten[Len(seqs)]
  BY Zenon DEF FlattenSeq
<1> HIDE DEF flatten, solved
<1>a. \A i \in 1..Len(seqs) : flatten[i] = Extended(flatten, i)
  <2> HIDE DEF Extended
  <2> QED BY <1>5
<1> HIDE DEF IsFlat
<1> DEFINE Joined(n) == UNION {Range(seqs[i]) : i \in 1..n}
           Good(n) == flatten[n] \in Seq(S) /\ Range(flatten[n]) = Joined(n)
           good == {n \in Nat : n + 1 <= Len(seqs) => Good(n + 1)}
<1>7. 0 \in good
  <2>1. ASSUME 1 <= Len(seqs) PROVE Good(1)
    <3>1. flatten[1] = seqs[1] /\ seqs[1] \in Seq(S)
      BY <1>1, <1>a, <2>1
    <3>2. Joined(1) = Range(seqs[1])
      <4>1. 1..1 = {1}
        OBVIOUS
      <4>2. QED BY <4>1
    <3>3. QED BY <3>1, <3>2
  <2> HIDE DEF Good
  <2>2. QED BY <2>1
<1>8. ASSUME NEW n \in Nat, n \in good PROVE n + 1 \in good
  <2>1. ASSUME n + 2 <= Len(seqs) PROVE Good(n + 2)
    <3>1. n + 2 \in 1..Len(seqs) /\ n + 1 <= Len(seqs)
      BY <1>1, <2>1
    <3>2. flatten[n + 2] = flatten[n + 1] \o seqs[n + 2] /\ seqs[n + 2] \in Seq(S)
      <4>1. PICK k \in 1..Len(seqs) : k = n + 2 /\ k - 1 = n + 1 /\ k # 1
        BY <3>1
      <4>2. flatten[k] = flatten[k - 1] \o seqs[k]
        BY <1>a, <4>1
      <4>3. QED BY <1>1, <4>1, <4>2
    <3>3. flatten[n + 1] \in Seq(S) /\ Range(flatten[n + 1]) = Joined(n + 1)
      BY <1>8, <3>1
    <3>4. Joined(n + 2) = Joined(n + 1) \cup Range(seqs[n + 2])
      <4>1. 1..(n + 2) = (1..(n + 1)) \cup {n + 2}
        OBVIOUS
      <4>2. QED BY <4>1
    <3> HIDE DEF Joined
    <3>5. flatten[n + 2] \in Seq(S)
      BY <3>2, <3>3, ConcatProperties
    <3>6. Range(flatten[n + 2]) = Range(flatten[n + 1]) \cup Range(seqs[n + 2])
      BY <3>2, <3>3, RangeConcatenation
    <3>7. QED BY <3>3, <3>4, <3>5, <3>6
  <2> HIDE DEF Good
  <2>2. n + 1 + 1 = n + 2
    OBVIOUS
  <2>3. QED BY <2>1, <2>2
<1>9. Nat \subseteq good
  <2> HIDE DEF good
  <2> QED BY <1>7, <1>8, SetInduction
<1>10. CASE Len(seqs) = 0
  <2>1. seqs = <<>> /\ FlattenSeq(seqs) = seqs /\ 1..Len(seqs) = {}
    BY <1>6, <1>10
  <2>2. Range(seqs) = {} /\ UNION {Range(seqs[i]) : i \in 1..Len(seqs)} = {} /\ seqs \in Seq(S)
    BY <2>1 DEF Range
  <2>3. QED BY <2>1, <2>2
<1>11. CASE Len(seqs) # 0
  <2>1. Len(seqs) - 1 \in Nat /\ Len(seqs) - 1 + 1 = Len(seqs)
    BY <1>1, <1>11
  <2>2. Good(Len(seqs))
    <3> HIDE DEF Good
    <3>1. Len(seqs) - 1 \in good
      BY <1>9, <2>1
    <3>2. QED BY <1>1, <2>1, <3>1
  <2>3. QED BY <1>6, <1>11, <2>2
<1>12. QED BY <1>10, <1>11

\* A sequence is its head and its tail.
LEMMA HeadAndTail ==
    ASSUME NEW S, NEW s \in Seq(S), s # <<>>
    PROVE  /\ Tail(s) \in Seq(S) /\ Len(Tail(s)) = Len(s) - 1 /\ Len(s) \in Nat \ {0}
           /\ (Tail(s) = <<>>) = (Len(s) = 1)
           /\ Range(s) = {Head(s)} \cup Range(Tail(s))
<1>1. Len(s) \in Nat \ {0} /\ Tail(s) \in Seq(S) /\ Len(Tail(s)) = Len(s) - 1
  BY HeadTailProperties, EmptySeq
<1>2. (Tail(s) = <<>>) = (Len(s) = 1)
  <2>1. Tail(s) = <<>> <=> Len(Tail(s)) = 0
    BY <1>1, EmptySeq
  <2>2. Len(Tail(s)) = 0 <=> Len(s) = 1
    BY <1>1
  <2>3. QED BY <2>1, <2>2
<1>3. PICK n \in Nat : n = Len(s) - 1 /\ n + 1 = Len(s)
  <2>1. Len(s) - 1 \in Nat /\ (Len(s) - 1) + 1 = Len(s)
    BY <1>1
  <2> DEFINE m == Len(s) - 1
  <2>2. m \in Nat /\ m = Len(s) - 1 /\ m + 1 = Len(s)
    BY <2>1
  <2> HIDE DEF m
  <2>3. QED BY <2>2
<1>4. DOMAIN s = 1..(n + 1) /\ DOMAIN Tail(s) = 1..n
  BY <1>1, <1>3
<1>5. \A k \in 1..n : Tail(s)[k] = s[k + 1]
  BY <1>1, <1>3, HeadTailProperties
<1>6. Head(s) = s[1]
  BY HeadTailProperties
<1>7. ASSUME NEW k \in 1..(n + 1) PROVE s[k] \in {Head(s)} \cup Range(Tail(s))
  <2>1. CASE k = 1
    BY <1>6, <2>1
  <2>2. CASE k # 1
    <3>1. PICK j : j = k - 1 /\ j \in 1..n /\ k = j + 1
      BY <2>2
    <3>2. QED BY <1>4, <1>5, <3>1 DEF Range
  <2>3. QED BY <2>1, <2>2
<1>8. ASSUME NEW k \in 1..n PROVE Tail(s)[k] \in Range(s)
  <2>1. k + 1 \in 1..(n + 1)
    OBVIOUS
  <2>2. QED BY <1>4, <1>5, <2>1 DEF Range
<1>9. Head(s) \in Range(s)
  BY <1>4, <1>6 DEF Range
<1>10. Range(s) = {Head(s)} \cup Range(Tail(s))
  BY <1>4, <1>7, <1>8, <1>9 DEF Range
<1>11. QED BY <1>1, <1>2, <1>10

-------------------------------------------------------------------------------
(* Sequences of whatever they hold *)

SomeSeq(s) == \E S : s \in Seq(S)

LEMMA SeqFacts ==
    ASSUME NEW s, SomeSeq(s)
    PROVE  /\ s \in Seq(Range(s)) /\ Len(s) \in Nat /\ DOMAIN s = 1..Len(s)
           /\ s = [i \in 1..Len(s) |-> s[i]]
<1>1. PICK S : s \in Seq(S)
  BY DEF SomeSeq
<1>2. Len(s) \in Nat /\ DOMAIN s = 1..Len(s) /\ s \in [1..Len(s) -> S]
  BY <1>1
<1>3. s \in [1..Len(s) -> Range(s)]
  BY <1>2 DEF Range
<1>4. QED BY <1>2, <1>3

\* What is made of a sequence place by place is one.
LEMMA SameDomainIsASeq ==
    ASSUME NEW s, SomeSeq(s), NEW t, t = [i \in DOMAIN s |-> t[i]]
    PROVE  SomeSeq(t) /\ Len(t) = Len(s) /\ DOMAIN t = DOMAIN s
<1>1. PICK n \in Nat : n = Len(s) /\ DOMAIN s = 1..n
  BY SeqFacts
<1>2. t \in [1..n -> Range(t)]
  BY <1>1 DEF Range
<1>3. t \in Seq(Range(t)) /\ Len(t) = n
  BY <1>2
<1>4. QED BY <1>1, <1>3 DEF SomeSeq

LEMMA AppendIsASeq ==
    ASSUME NEW s, SomeSeq(s), NEW x
    PROVE  /\ SomeSeq(Append(s, x)) /\ Len(Append(s, x)) = Len(s) + 1
           /\ \A i \in DOMAIN s : Append(s, x)[i] = s[i]
           /\ Append(s, x)[Len(s) + 1] = x
           /\ DOMAIN Append(s, x) = DOMAIN s \cup {Len(s) + 1} /\ Len(s) + 1 \notin DOMAIN s
<1>1. s \in Seq(Range(s) \cup {x}) /\ Len(s) \in Nat /\ DOMAIN s = 1..Len(s)
  BY SeqFacts
<1>2. /\ Append(s, x) \in Seq(Range(s) \cup {x}) /\ Len(Append(s, x)) = Len(s) + 1
      /\ \A i \in 1..Len(s) : Append(s, x)[i] = s[i]
      /\ Append(s, x)[Len(s) + 1] = x
      /\ DOMAIN Append(s, x) = 1..(Len(s) + 1)
  BY <1>1
<1>3. QED BY <1>1, <1>2 DEF SomeSeq

LEMMA ConcatIsASeq ==
    ASSUME NEW s, SomeSeq(s), NEW t, SomeSeq(t)
    PROVE  SomeSeq(s \o t) /\ Range(s \o t) = Range(s) \cup Range(t)
<1>1. s \in Seq(Range(s) \cup Range(t)) /\ t \in Seq(Range(s) \cup Range(t))
  <2>1. \A S, T, u : u \in Seq(S) /\ S \subseteq T => u \in Seq(T)
    OBVIOUS
  <2>2. QED BY <2>1, SeqFacts
<1>2. s \o t \in Seq(Range(s) \cup Range(t))
  BY <1>1
<1>3. /\ Len(s) \in Nat /\ Len(t) \in Nat /\ DOMAIN s = 1..Len(s) /\ DOMAIN t = 1..Len(t)
      /\ DOMAIN (s \o t) = 1..(Len(s) + Len(t))
      /\ \A i \in 1..Len(s) : (s \o t)[i] = s[i]
      /\ \A i \in (Len(s) + 1)..(Len(s) + Len(t)) : (s \o t)[i] = t[i - Len(s)]
  BY <1>1, SeqFacts
<1>4. Range(s \o t) \subseteq Range(s) \cup Range(t)
  <2>1. ASSUME NEW i \in 1..(Len(s) + Len(t)) PROVE (s \o t)[i] \in Range(s) \cup Range(t)
    <3>1. CASE i \in 1..Len(s)
      BY <1>3, <3>1 DEF Range
    <3>2. CASE i \notin 1..Len(s)
      <4>1. i \in (Len(s) + 1)..(Len(s) + Len(t)) /\ i - Len(s) \in 1..Len(t)
        BY <1>3, <3>2
      <4>2. QED BY <1>3, <4>1 DEF Range
    <3>3. QED BY <3>1, <3>2
  <2>2. QED BY <1>3, <2>1 DEF Range
<1>5. ASSUME NEW i \in 1..Len(s) PROVE s[i] \in Range(s \o t)
  <2>1. i \in 1..(Len(s) + Len(t))
    BY <1>3
  <2>2. QED BY <1>3, <2>1 DEF Range
<1>6. ASSUME NEW i \in 1..Len(t) PROVE t[i] \in Range(s \o t)
  <2>1. PICK j : j = i + Len(s) /\ j \in (Len(s) + 1)..(Len(s) + Len(t)) /\ j \in 1..(Len(s) + Len(t)) /\ j - Len(s) = i
    BY <1>3
  <2>2. QED BY <1>3, <2>1 DEF Range
<1>7. Range(s) \cup Range(t) \subseteq Range(s \o t)
  BY <1>3, <1>5, <1>6 DEF Range
<1>8. QED BY <1>2, <1>4, <1>7 DEF SomeSeq

LEMMA FlattenIsASeq ==
    ASSUME NEW seqs, SomeSeq(seqs), \A i \in DOMAIN seqs : SomeSeq(seqs[i])
    PROVE  /\ SomeSeq(FlattenSeq(seqs))
           /\ \A x \in Range(FlattenSeq(seqs)) : \E i \in DOMAIN seqs : x \in Range(seqs[i])
           /\ \A i \in DOMAIN seqs : Range(seqs[i]) \subseteq Range(FlattenSeq(seqs))
<1> DEFINE S == UNION {Range(seqs[i]) : i \in DOMAIN seqs}
<1>1. \A i \in DOMAIN seqs : seqs[i] \in Seq(S)
  <2>1. \A U, T, u : u \in Seq(U) /\ U \subseteq T => u \in Seq(T)
    OBVIOUS
  <2>2. SUFFICES ASSUME NEW i \in DOMAIN seqs PROVE seqs[i] \in Seq(S)
    OBVIOUS
  <2>3. seqs[i] \in Seq(Range(seqs[i])) /\ Range(seqs[i]) \subseteq S
    BY SeqFacts
  <2>4. QED BY <2>1, <2>3
<1> HIDE DEF S
<1>2. seqs \in Seq(Seq(S)) /\ DOMAIN seqs = 1..Len(seqs)
  <2>1. seqs \in Seq(Range(seqs)) /\ Len(seqs) \in Nat /\ DOMAIN seqs = 1..Len(seqs)
    BY SeqFacts
  <2>2. seqs \in [1..Len(seqs) -> Seq(S)]
    BY <1>1, <2>1
  <2>3. QED BY <2>1, <2>2
<1>3. FlattenSeq(seqs) \in Seq(S) /\ Range(FlattenSeq(seqs)) = UNION {Range(seqs[i]) : i \in 1..Len(seqs)}
  BY <1>2, FlattenSeqJoins
<1>4. QED BY <1>2, <1>3 DEF SomeSeq

-------------------------------------------------------------------------------
(* Sums *)

\* Induction over the subsets of a finite set, with a set in the place of the predicate.
LEMMA SubsetInduction ==
    ASSUME NEW S, IsFiniteSet(S), NEW P, {} \in P,
           \A s \in SUBSET S : \A x \in S \ s : s \in P => s \cup {x} \in P
    PROVE  SUBSET S \subseteq P
<1> DEFINE good == {n \in Nat : \A s \in SUBSET S : Cardinality(s) = n => s \in P}
<1>1. \A s \in SUBSET S : IsFiniteSet(s) /\ Cardinality(s) \in Nat
  BY FS_Subset, FS_CardinalityType
<1>2. 0 \in good
  <2>1. \A s \in SUBSET S : Cardinality(s) = 0 => s = {}
    BY <1>1, FS_EmptySet
  <2> QED BY <2>1
<1>3. ASSUME NEW n \in Nat, n \in good PROVE n + 1 \in good
  <2> SUFFICES ASSUME NEW s \in SUBSET S, Cardinality(s) = n + 1 PROVE s \in P
    OBVIOUS
  <2>1. s # {}
    <3>1. Cardinality({}) = 0 /\ n + 1 # 0
      BY FS_EmptySet
    <3> QED BY <3>1
  <2>2. PICK x \in s : TRUE
    BY <2>1
  <2>3. Cardinality(s \ {x}) = n
    <3>1. IsFiniteSet(s)
      BY <1>1
    <3>2. Cardinality(s \ {x}) = Cardinality(s) - 1
      BY <3>1, FS_RemoveElement
    <3> QED BY <3>2
  <2>4. s \ {x} \in P /\ x \in S \ (s \ {x}) /\ (s \ {x}) \cup {x} = s
    BY <1>3, <2>3
  <2>5. (s \ {x}) \cup {x} \in P
    BY <2>4
  <2> QED BY <2>4, <2>5
<1>4. Nat \subseteq good
  <2> HIDE DEF good
  <2> QED BY <1>2, <1>3, SetInduction
<1> QED BY <1>1, <1>4

Picked(s) == CHOOSE x \in s : TRUE
SumStep(fun, f, s) == IF s = {} THEN 0 ELSE fun[Picked(s)] + f[s \ {Picked(s)}]
IsSumOn(fun, f, D) == f = [s \in D |-> SumStep(fun, f, s)]

\* The sum of a function over a finite domain takes one member after another.
LEMMA SumUnfolds ==
    ASSUME NEW fun, IsFiniteSet(DOMAIN fun)
    PROVE  \E f : /\ SumFunction(fun) = f[DOMAIN fun]
                  /\ \A s \in SUBSET DOMAIN fun : f[s] = SumStep(fun, f, s)
<1> DEFINE S == DOMAIN fun
           Sized(n) == {s \in SUBSET S : Cardinality(s) <= n}
           solved == {n \in Nat : \E f : IsSumOn(fun, f, Sized(n))}
           iter == CHOOSE f : IsSumOn(fun, f, SUBSET S)
<1>1. \A s \in SUBSET S : IsFiniteSet(s) /\ Cardinality(s) \in Nat /\ Cardinality(s) <= Cardinality(S)
  BY FS_Subset, FS_CardinalityType
<1>2. \A s : s # {} => Picked(s) \in s
  BY DEF Picked
<1>3. \A s \in SUBSET S :
        s # {} => s \ {Picked(s)} \in SUBSET S /\ Cardinality(s \ {Picked(s)}) = Cardinality(s) - 1
  BY <1>1, <1>2, FS_RemoveElement
<1>4. 0 \in solved
  <2> DEFINE f == [s \in Sized(0) |-> 0]
  <2>1. \A s \in Sized(0) : SumStep(fun, f, s) = 0
    BY <1>1, FS_EmptySet DEF SumStep
  <2>2. IsSumOn(fun, f, Sized(0))
    BY <2>1 DEF IsSumOn
  <2> QED BY <2>2
<1>5. ASSUME NEW n \in Nat, n \in solved PROVE n + 1 \in solved
  <2>1. PICK f : IsSumOn(fun, f, Sized(n))
    BY <1>5
  <2> DEFINE g == [s \in Sized(n + 1) |-> IF Cardinality(s) <= n THEN f[s] ELSE SumStep(fun, f, s)]
  <2>2. ASSUME NEW s \in Sized(n) PROVE f[s] = SumStep(fun, f, s)
    <3> HIDE DEF Sized
    <3> QED BY <2>1 DEF IsSumOn
  <2>3. ASSUME NEW s \in Sized(n + 1) PROVE g[s] = SumStep(fun, g, s)
    <3>1. g[s] = SumStep(fun, f, s)
      BY <1>1, <2>2
    <3>2. s # {} => s \ {Picked(s)} \in Sized(n) /\ s \ {Picked(s)} \in Sized(n + 1)
      BY <1>1, <1>3
    <3>3. s # {} => g[s \ {Picked(s)}] = f[s \ {Picked(s)}]
      BY <3>2
    <3>4. SumStep(fun, g, s) = SumStep(fun, f, s)
      <4> HIDE DEF g
      <4> QED BY <3>3 DEF SumStep
    <3> QED BY <3>1, <3>4
  <2>4. g = [s \in Sized(n + 1) |-> g[s]]
    OBVIOUS
  <2>5. IsSumOn(fun, g, Sized(n + 1))
    <3> HIDE DEF g, Sized
    <3> QED BY <2>3, <2>4 DEF IsSumOn
  <2>6. \E h : IsSumOn(fun, h, Sized(n + 1))
    <3> HIDE DEF g, Sized
    <3> QED BY <2>5
  <2> HIDE DEF Sized
  <2> QED BY <2>6
<1>6. Nat \subseteq solved
  <2> HIDE DEF solved
  <2> QED BY <1>4, <1>5, SetInduction
<1>7. IsSumOn(fun, iter, SUBSET S)
  <2>1. Cardinality(S) \in Nat /\ Sized(Cardinality(S)) = SUBSET S
    BY <1>1
  <2> HIDE DEF Sized
  <2>2. \E f : IsSumOn(fun, f, SUBSET S)
    BY <1>6, <2>1
  <2> QED BY <2>2
<1>8. SumFunction(fun) = iter[S]
  BY Zenon DEF SumFunction, SumFunctionOnSet, FoldFunctionOnSet, MapThenFoldSet, IsSumOn, SumStep, Picked
<1> HIDE DEF iter
<1>9. \A s \in SUBSET S : iter[s] = SumStep(fun, iter, s)
  BY <1>7 DEF IsSumOn
<1> QED BY <1>8, <1>9

\* Which one comes first makes no difference.
LEMMA SumFacts ==
    ASSUME NEW fun, IsFiniteSet(DOMAIN fun), \A x \in DOMAIN fun : fun[x] \in Nat
    PROVE  \E f : /\ SumFunction(fun) = f[DOMAIN fun] /\ f[{}] = 0
                  /\ \A s \in SUBSET DOMAIN fun : f[s] \in Nat /\ \A x \in s : f[s] = fun[x] + f[s \ {x}]
<1> DEFINE S == DOMAIN fun
<1>1. PICK f : SumFunction(fun) = f[S] /\ \A s \in SUBSET S : f[s] = SumStep(fun, f, s)
  BY SumUnfolds
<1>2. f[{}] = 0
  BY <1>1 DEF SumStep
<1>3. \A s \in SUBSET S : s # {} => Picked(s) \in s /\ f[s] = fun[Picked(s)] + f[s \ {Picked(s)}]
  BY <1>1 DEF SumStep, Picked
<1> DEFINE AnyFirst(s) == f[s] \in Nat /\ \A x \in s : f[s] = fun[x] + f[s \ {x}]
           good == {n \in Nat : \A s \in SUBSET S : Cardinality(s) <= n => AnyFirst(s)}
<1>4. \A s \in SUBSET S : IsFiniteSet(s) /\ Cardinality(s) \in Nat
  BY FS_Subset, FS_CardinalityType
<1>a. \A s \in SUBSET S : \A x \in s : s \ {x} \in SUBSET S /\ Cardinality(s \ {x}) = Cardinality(s) - 1
  BY <1>4, FS_RemoveElement
<1>5. 0 \in good
  <2>1. \A s \in SUBSET S : Cardinality(s) <= 0 => s = {}
    BY <1>4, FS_EmptySet
  <2> QED BY <1>2, <2>1
<1>6. ASSUME NEW n \in Nat, n \in good PROVE n + 1 \in good
  <2> SUFFICES ASSUME NEW s \in SUBSET S, Cardinality(s) <= n + 1 PROVE AnyFirst(s)
    OBVIOUS
  <2>1. CASE s = {}
    BY <1>2, <2>1
  <2>2. CASE s # {}
    <3>1. PICK p \in s : f[s] = fun[p] + f[s \ {p}]
      BY <1>3, <2>2
    <3>2. \A x \in s : fun[x] \in Nat /\ s \ {x} \in SUBSET S /\ Cardinality(s \ {x}) <= n
      BY <1>4, <1>a
    <3>3. \A x \in s : AnyFirst(s \ {x})
      <4> HIDE DEF AnyFirst
      <4> QED BY <1>6, <3>2
    <3>4. fun[p] \in Nat /\ f[s \ {p}] \in Nat
      BY <3>2, <3>3
    <3>5. ASSUME NEW x \in s, x # p PROVE f[s] = fun[x] + f[s \ {x}]
      <4> DEFINE rest == s \ {p, x}
      <4>1. (s \ {p}) \ {x} = rest /\ (s \ {x}) \ {p} = rest /\ x \in s \ {p} /\ p \in s \ {x}
        BY <3>5
      <4>2. f[s \ {p}] = fun[x] + f[rest] /\ f[s \ {x}] = fun[p] + f[rest]
        BY <3>3, <4>1
      <4>3. AnyFirst(rest)
        <5> HIDE DEF AnyFirst
        <5>1. Cardinality((s \ {p}) \ {x}) = Cardinality(s \ {p}) - 1 /\ Cardinality(s \ {p}) \in Nat
          BY <1>4, <1>a, <3>2, <4>1
        <5>2. rest \in SUBSET S /\ Cardinality(rest) <= n
          BY <3>2, <4>1, <5>1
        <5> QED BY <1>6, <5>2
      <4>4. f[rest] \in Nat /\ fun[x] \in Nat
        BY <3>2, <4>3
      <4> HIDE DEF rest
      <4> QED BY <3>1, <3>4, <4>2, <4>4
    <3>6. f[s] \in Nat
      BY <3>1, <3>4
    <3> QED BY <3>1, <3>5, <3>6
  <2> QED BY <2>1, <2>2
<1>7. Nat \subseteq good
  <2> HIDE DEF good
  <2> QED BY <1>5, <1>6, SetInduction
<1>8. \A s \in SUBSET S : AnyFirst(s)
  <2> HIDE DEF AnyFirst
  <2> QED BY <1>4, <1>7
<1> QED BY <1>1, <1>2, <1>8

LEMMA SumIsBounded ==
    ASSUME NEW fun, IsFiniteSet(DOMAIN fun), NEW k \in Nat, \A x \in DOMAIN fun : fun[x] \in 0..k
    PROVE  SumFunction(fun) \in 0..(k * Cardinality(DOMAIN fun))
<1> DEFINE S == DOMAIN fun
           most(n) == k * n
<1>a. \A x \in S : fun[x] \in Nat
  OBVIOUS
<1>1. PICK f : /\ SumFunction(fun) = f[S] /\ f[{}] = 0
               /\ \A s \in SUBSET S : f[s] \in Nat /\ \A x \in s : f[s] = fun[x] + f[s \ {x}]
  BY <1>a, SumFacts
<1> DEFINE P == {s \in SUBSET S : f[s] <= most(Cardinality(s))}
<1>2. most(0) = 0 /\ \A n \in Nat : most(n) \in Nat /\ most(n + 1) = most(n) + k
  OBVIOUS
<1> HIDE DEF most
<1>3. {} \in P
  BY <1>1, <1>2, FS_EmptySet
<1>4. ASSUME NEW s \in SUBSET S, NEW x \in S \ s, s \in P PROVE s \cup {x} \in P
  <2>1. IsFiniteSet(s)
    BY FS_Subset
  <2>2. Cardinality(s) \in Nat /\ Cardinality(s \cup {x}) = Cardinality(s) + 1
    BY <2>1, FS_AddElement, FS_CardinalityType
  <2>3. (s \cup {x}) \ {x} = s /\ s \cup {x} \in SUBSET S /\ x \in s \cup {x}
    BY <1>4
  <2>4. f[s \cup {x}] = fun[x] + f[s] /\ f[s] \in Nat /\ fun[x] \in 0..k
    BY <1>1, <2>3
  <2>5. f[s] <= most(Cardinality(s))
    BY <1>4
  <2>6. most(Cardinality(s)) \in Nat /\ most(Cardinality(s \cup {x})) = most(Cardinality(s)) + k
    BY <1>2, <2>2
  <2>7. f[s \cup {x}] <= most(Cardinality(s \cup {x}))
    BY <2>4, <2>5, <2>6
  <2> QED BY <2>3, <2>7
<1>5. SUBSET S \subseteq P
  <2>1. IsFiniteSet(S)
    OBVIOUS
  <2> HIDE DEF P, S
  <2> QED BY <2>1, <1>3, <1>4, SubsetInduction
<1>6. f[S] \in Nat /\ f[S] <= most(Cardinality(S)) /\ Cardinality(S) \in Nat
  BY <1>1, <1>5, FS_CardinalityType
<1>7. f[S] \in 0..most(Cardinality(S))
  BY <1>2, <1>6
<1> QED BY <1>1, <1>7 DEF most

\* One more member adds its own value.
LEMMA SumExtends ==
    ASSUME NEW f, IsFiniteSet(DOMAIN f), NEW g, NEW x, x \notin DOMAIN f, DOMAIN g = DOMAIN f \cup {x},
           \A y \in DOMAIN f : g[y] = f[y], \A y \in DOMAIN g : g[y] \in Nat
    PROVE  SumFunction(f) \in Nat /\ SumFunction(g) = SumFunction(f) + g[x]
<1>1. PICK sf : /\ SumFunction(f) = sf[DOMAIN f] /\ sf[{}] = 0
                /\ \A s \in SUBSET DOMAIN f : sf[s] \in Nat /\ \A y \in s : sf[s] = f[y] + sf[s \ {y}]
  BY SumFacts
<1>2. IsFiniteSet(DOMAIN g)
  BY FS_AddElement
<1>3. PICK sg : /\ SumFunction(g) = sg[DOMAIN g] /\ sg[{}] = 0
                /\ \A s \in SUBSET DOMAIN g : sg[s] \in Nat /\ \A y \in s : sg[s] = g[y] + sg[s \ {y}]
  BY <1>2, SumFacts
<1> DEFINE P == {s \in SUBSET DOMAIN f : sg[s] = sf[s]}
<1>4. {} \in P
  BY <1>1, <1>3
<1>5. ASSUME NEW s \in SUBSET DOMAIN f, NEW y \in DOMAIN f \ s, s \in P PROVE s \cup {y} \in P
  <2>1. (s \cup {y}) \ {y} = s /\ s \cup {y} \in SUBSET DOMAIN f /\ s \cup {y} \in SUBSET DOMAIN g /\ y \in s \cup {y}
    BY <1>5
  <2>2. sf[s \cup {y}] = f[y] + sf[s]
    BY <1>1, <2>1
  <2>a. sg[s \cup {y}] = g[y] + sg[s]
    BY <1>3, <2>1
  <2>3. g[y] = f[y] /\ sg[s] = sf[s]
    BY <1>5
  <2> QED BY <2>1, <2>2, <2>a, <2>3
<1>6. SUBSET DOMAIN f \subseteq P
  <2> HIDE DEF P
  <2> QED BY <1>4, <1>5, SubsetInduction
<1>7. sg[DOMAIN f] = sf[DOMAIN f] /\ sf[DOMAIN f] \in Nat
  BY <1>1, <1>6
<1>8. DOMAIN g \ {x} = DOMAIN f /\ x \in DOMAIN g
  OBVIOUS
<1>9. sg[DOMAIN g] = g[x] + sg[DOMAIN f] /\ g[x] \in Nat
  BY <1>3, <1>8
<1> QED BY <1>1, <1>3, <1>7, <1>9

LEMMA SumOfNothing ==
    ASSUME NEW f, DOMAIN f = {}
    PROVE  SumFunction(f) = 0
<1>1. IsFiniteSet(DOMAIN f)
  BY FS_EmptySet
<1> QED BY <1>1, SumFacts

\* A function to the natural numbers on a finite set, and the sums on its parts.
CountsOn(f) == IsFiniteSet(DOMAIN f) /\ \A x \in DOMAIN f : f[x] \in Nat
IsSummedBy(f, sf) ==
    /\ SumFunction(f) = sf[DOMAIN f] /\ sf[{}] = 0
    /\ \A s \in SUBSET DOMAIN f : sf[s] \in Nat /\ \A y \in s : sf[s] = f[y] + sf[s \ {y}]

LEMMA SumsAre ==
    ASSUME NEW f, CountsOn(f)
    PROVE  \E sf : IsSummedBy(f, sf)
BY SumFacts DEF CountsOn, IsSummedBy

\* g is f under other names.
Renames(name, f, g) ==
    /\ \A x \in DOMAIN f, y \in DOMAIN f : name[x] = name[y] => x = y
    /\ DOMAIN g = {name[x] : x \in DOMAIN f} /\ \A x \in DOMAIN f : g[name[x]] = f[x]

\* Told under other names, the same values add up to the same.
LEMMA SumOfTheRenamed ==
    ASSUME NEW f, CountsOn(f), NEW name, NEW g, Renames(name, f, g)
    PROVE  SumFunction(g) = SumFunction(f)
<1>a. CountsOn(g)
  BY FiniteImage DEF CountsOn, Renames
<1>b. PICK sf : IsSummedBy(f, sf)
  BY SumsAre
<1>1. /\ SumFunction(f) = sf[DOMAIN f] /\ sf[{}] = 0
      /\ \A s \in SUBSET DOMAIN f : sf[s] \in Nat /\ \A y \in s : sf[s] = f[y] + sf[s \ {y}]
  BY <1>b DEF IsSummedBy
<1>c. PICK sg : IsSummedBy(g, sg)
  BY <1>a, SumsAre
<1>4. /\ SumFunction(g) = sg[DOMAIN g] /\ sg[{}] = 0
      /\ \A s \in SUBSET DOMAIN g : sg[s] \in Nat /\ \A y \in s : sg[s] = g[y] + sg[s \ {y}]
  BY <1>c DEF IsSummedBy
<1> DEFINE Renamed(s) == {name[x] : x \in s}
           P == {s \in SUBSET DOMAIN f : sg[Renamed(s)] = sf[s]}
<1>5. {} \in P
  BY <1>1, <1>4
<1>6. ASSUME NEW s \in SUBSET DOMAIN f, NEW y \in DOMAIN f \ s, s \in P PROVE s \cup {y} \in P
  <2>1. (s \cup {y}) \ {y} = s /\ s \cup {y} \in SUBSET DOMAIN f /\ y \in s \cup {y}
    BY <1>6
  <2>2. sf[s \cup {y}] = f[y] + sf[s]
    BY <1>1, <2>1
  <2>3. /\ Renamed(s \cup {y}) \ {name[y]} = Renamed(s) /\ Renamed(s \cup {y}) \in SUBSET DOMAIN g
        /\ name[y] \in Renamed(s \cup {y})
    BY DEF Renames
  <2>4. sg[Renamed(s \cup {y})] = g[name[y]] + sg[Renamed(s)]
    <3>1. PICK more, it : more = Renamed(s \cup {y}) /\ it = name[y]
      OBVIOUS
    <3>2. more \in SUBSET DOMAIN g /\ it \in more /\ more \ {it} = Renamed(s)
      BY <2>3, <3>1
    <3>3. sg[more] = g[it] + sg[more \ {it}]
      BY <1>4, <3>2
    <3> QED BY <3>1, <3>2, <3>3
  <2>5. g[name[y]] = f[y] /\ sg[Renamed(s)] = sf[s]
    BY <1>6 DEF Renames
  <2> QED BY <2>1, <2>2, <2>4, <2>5
<1>7. SUBSET DOMAIN f \subseteq P
  <2> HIDE DEF P
  <2>1. IsFiniteSet(DOMAIN f)
    BY DEF CountsOn
  <2> QED BY <1>5, <1>6, <2>1, SubsetInduction
<1>8. sg[Renamed(DOMAIN f)] = sf[DOMAIN f]
  BY <1>7
<1>9. DOMAIN g = Renamed(DOMAIN f)
  BY DEF Renames
<1> QED BY <1>1, <1>4, <1>8, <1>9

\* As many names as there were things.
LEMMA CountOfTheRenamed ==
    ASSUME NEW S, IsFiniteSet(S), NEW name, \A x \in S, y \in S : name[x] = name[y] => x = y,
           NEW T, T = {name[x] : x \in S}
    PROVE  IsFiniteSet(T) /\ Cardinality(T) = Cardinality(S)
<1> DEFINE h == [x \in S |-> name[x]]
<1>1. h \in Bijection(S, T)
  BY DEF Bijection, Injection, Surjection, IsInjective
<1>2. ExistsBijection(S, T)
  BY <1>1 DEF ExistsBijection
<1>3. QED BY <1>2, FS_Bijection

\* Finitely many natural numbers have a bound, a greatest and a least.
LEMMA FiniteIsBounded ==
    ASSUME NEW T, IsFiniteSet(T), T \subseteq Nat
    PROVE  \E n \in Nat : T \subseteq 0..n
<1> DEFINE P == {s \in SUBSET T : \E n \in Nat : s \subseteq 0..n}
<1>1. {} \in P
  OBVIOUS
<1>2. ASSUME NEW s \in SUBSET T, NEW x \in T \ s, s \in P PROVE s \cup {x} \in P
  <2>1. PICK n \in Nat : s \subseteq 0..n
    BY <1>2
  <2>2. n + x \in Nat /\ x \in 0..(n + x) /\ 0..n \subseteq 0..(n + x)
    OBVIOUS
  <2>3. s \cup {x} \subseteq 0..(n + x)
    BY <2>1, <2>2
  <2>4. QED BY <2>2, <2>3
<1>3. SUBSET T \subseteq P
  <2> HIDE DEF P
  <2> QED BY <1>1, <1>2, SubsetInduction
<1>4. QED BY <1>3

LEMMA GreatestIsOfThem ==
    ASSUME NEW T, IsFiniteSet(T), T \subseteq Nat, T # {}
    PROVE  Max(T) \in T /\ \A y \in T : y <= Max(T)
<1>1. PICK n \in Nat : T \subseteq 0..n
  BY FiniteIsBounded
<1>2. QED BY <1>1, GreatestNatural

LEMMA LeastIsOfThem ==
    ASSUME NEW T, T \subseteq Nat, T # {}
    PROVE  Min(T) \in T /\ \A y \in T : Min(T) <= y
<1>1. PICK x \in T : \A y \in T : x <= y
  BY LeastNatural
<1>2. QED BY <1>1, Zenon DEF Min
================================================================================
