----------------------------- MODULE ExchangeProofs -----------------------------
(* Machine-checked proofs about how a vault travels: the container it travels in *)
(* (Container), and the listener, its workers and the senders that carry it       *)
(* (Transfer).                                                                    *)
(*                                                                                *)
(* Container: for any vaults, recipients and options, any sequence of writes and  *)
(* any damage, what a reader gets out of a container is what its writer was given. *)
(* Transfer: the listener, its workers and the senders implement Delivery, for    *)
(* any set of connections and any amount of loss and repetition, and a stopped    *)
(* session stores nothing unfinished.                                             *)
EXTENDS Container, Transfer, FiniteSetTheorems, SequenceTheorems, NaturalsInduction,
        WellFoundedInduction, TLAPS

\* A set of numbers has a least one.
LEMMA LeastNumber ==
    ASSUME NEW T \in SUBSET Nat, T # {}
    PROVE  \E n \in T : \A m \in T : n <= m
<1>1. IsWellFoundedOn(OpToRel(<, Nat), Nat)
  BY NatLessThanWellFounded
<1>2. PICK n \in T : \A m \in T : ~(<<m, n>> \in OpToRel(<, Nat))
  BY <1>1, WFMin
<1>3. \A m \in T : ~(m < n)
  BY <1>2 DEF OpToRel
<1> QED BY <1>3

\* Induction, for a set of numbers.
LEMMA InductionOverNat ==
    ASSUME NEW P, 0 \in P, \A n \in Nat : n \in P => n + 1 \in P
    PROVE  Nat \subseteq P
<1> DEFINE T == Nat \ P
<1> SUFFICES ASSUME T # {} PROVE FALSE
  OBVIOUS
<1>1. PICK n \in T : \A m \in T : n <= m
  BY LeastNumber
<1> QED BY <1>1

-------------------------------------------------------------------------------
(* Sequences, sums and concatenations.                                       *)

\* A sequence over any set is a sequence over its elements.
LEMMA SeqIsSeq ==
    ASSUME NEW S, NEW s \in Seq(S)
    PROVE  IsSeq(s) /\ DOMAIN s = 1 .. Len(s) /\ Len(s) \in Nat /\ ToSet(s) \subseteq S
<1>1. s \in [1 .. Len(s) -> ToSet(s)]
  BY DEF ToSet
<1> QED BY <1>1 DEF IsSeq, ToSet

\* What it is to be a sequence.
LEMMA IsSeqIs ==
    ASSUME NEW s, IsSeq(s)
    PROVE  s \in Seq(ToSet(s)) /\ Len(s) \in Nat /\ DOMAIN s = 1 .. Len(s)
BY DEF IsSeq

\* The empty sequence.
LEMMA EmptyIsSeq == IsSeq(<<>>) /\ ToSet(<<>>) = {} /\ Len(<<>>) = 0
BY DEF IsSeq, ToSet

\* A sequence given by its elements.
LEMMA FcnIsSeq ==
    ASSUME NEW n \in Nat, NEW f, DOMAIN f = 1 .. n, f = [i \in 1 .. n |-> f[i]]
    PROVE  IsSeq(f) /\ Len(f) = n
<1>1. f \in [1 .. n -> ToSet(f)]
  BY DEF ToSet
<1>2. f \in Seq(ToSet(f))
  BY <1>1
<1> QED BY <1>1, <1>2 DEF IsSeq

\* Sequences with the same elements are the same.
LEMMA SameSeq ==
    ASSUME NEW s, NEW t, IsSeq(s), IsSeq(t), Len(s) = Len(t), \A i \in 1 .. Len(s) : s[i] = t[i]
    PROVE  s = t
<1> DEFINE S == ToSet(s) \cup ToSet(t)
<1>1. s \in Seq(S) /\ t \in Seq(S)
  BY IsSeqIs, SeqMonotonic
<1> HIDE DEF S
<1> QED BY <1>1, SeqEqual

\* The elements of a concatenation.
LEMMA ConcatIsSeq ==
    ASSUME NEW s, NEW t, IsSeq(s), IsSeq(t)
    PROVE  /\ IsSeq(s \o t) /\ Len(s \o t) = Len(s) + Len(t)
           /\ ToSet(s \o t) = ToSet(s) \cup ToSet(t)
           /\ \A i \in 1 .. Len(s) : (s \o t)[i] = s[i]
           /\ \A i \in 1 .. Len(t) : (s \o t)[Len(s) + i] = t[i]
<1> DEFINE S == ToSet(s) \cup ToSet(t)
           u == s \o t
<1>1. s \in Seq(S) /\ t \in Seq(S)
  BY IsSeqIs, SeqMonotonic
<1>2. /\ u \in Seq(S) /\ Len(u) = Len(s) + Len(t)
      /\ \A i \in 1 .. Len(s) + Len(t) : u[i] = IF i <= Len(s) THEN s[i] ELSE t[i - Len(s)]
  BY <1>1, ConcatProperties
<1>3. /\ Len(s) \in Nat /\ Len(t) \in Nat /\ DOMAIN s = 1 .. Len(s) /\ DOMAIN t = 1 .. Len(t)
      /\ DOMAIN u = 1 .. Len(u) /\ ToSet(u) \subseteq S /\ IsSeq(u)
  BY <1>1, <1>2, SeqIsSeq
<1> HIDE DEF u
<1>4. \A i \in 1 .. Len(s) : u[i] = s[i]
  BY <1>2, <1>3
<1>5. \A i \in 1 .. Len(t) : u[Len(s) + i] = t[i]
  BY <1>2, <1>3
<1>6. ToSet(s) \subseteq ToSet(u)
  BY <1>2, <1>3, <1>4 DEF ToSet
<1>7. ToSet(t) \subseteq ToSet(u)
  BY <1>2, <1>3, <1>5 DEF ToSet
<1> QED BY <1>2, <1>3, <1>4, <1>5, <1>6, <1>7 DEF u

\* The elements of a sequence and one more.
LEMMA AppendIsSeq ==
    ASSUME NEW s, NEW e, IsSeq(s)
    PROVE  /\ IsSeq(Append(s, e)) /\ Len(Append(s, e)) = Len(s) + 1
           /\ Append(s, e) = s \o <<e>>
           /\ ToSet(Append(s, e)) = ToSet(s) \cup {e}
           /\ \A i \in 1 .. Len(s) : Append(s, e)[i] = s[i]
           /\ Append(s, e)[Len(s) + 1] = e
<1> DEFINE S == ToSet(s) \cup {e}
           u == Append(s, e)
<1>1. s \in Seq(S)
  BY IsSeqIs, SeqMonotonic
<1>2. /\ u \in Seq(S) /\ Len(u) = Len(s) + 1
      /\ \A i \in 1 .. Len(s) : u[i] = s[i]
      /\ u[Len(s) + 1] = e
  BY <1>1, AppendProperties
<1>3. u = s \o <<e>>
  BY <1>1, AppendIsConcat
<1>4. /\ Len(s) \in Nat /\ DOMAIN s = 1 .. Len(s)
      /\ DOMAIN u = 1 .. Len(u) /\ ToSet(u) \subseteq S /\ IsSeq(u)
  BY <1>1, <1>2, SeqIsSeq
<1> HIDE DEF u
<1>5. ToSet(s) \subseteq ToSet(u) /\ e \in ToSet(u)
  BY <1>2, <1>4 DEF ToSet
<1> QED BY <1>2, <1>3, <1>4, <1>5 DEF u

\* ... one by one.
LEMMA AppendElements ==
    ASSUME NEW s, NEW e, IsSeq(s)
    PROVE  /\ IsSeq(Append(s, e)) /\ Len(Append(s, e)) = Len(s) + 1
           /\ \A i \in 1 .. Len(s) : Append(s, e)[i] = s[i]
           /\ Append(s, e)[Len(s) + 1] = e
<1>1. IsSeq(Append(s, e)) /\ Len(Append(s, e)) = Len(s) + 1
  BY ONLY IsSeq(s), AppendIsSeq
<1>2. \A i \in 1 .. Len(s) : Append(s, e)[i] = s[i]
  BY ONLY IsSeq(s), AppendIsSeq
<1>3. Append(s, e)[Len(s) + 1] = e
  BY ONLY IsSeq(s), AppendIsSeq
<1> QED BY ONLY <1>1, <1>2, <1>3

\* Concatenation is associative.
LEMMA ConcatIsAssociative ==
    ASSUME NEW s, NEW t, NEW u, IsSeq(s), IsSeq(t), IsSeq(u)
    PROVE  (s \o t) \o u = s \o (t \o u)
<1> DEFINE S == ToSet(s) \cup ToSet(t) \cup ToSet(u)
<1>1. s \in Seq(S) /\ t \in Seq(S) /\ u \in Seq(S)
  BY IsSeqIs, SeqMonotonic
<1> HIDE DEF S
<1> QED BY <1>1, ConcatAssociative

\* A prefix grows by one element at a time.
LEMMA PrefixGrows ==
    ASSUME NEW s, IsSeq(s)
    PROVE  /\ SubSeq(s, 1, 0) = <<>>
           /\ SubSeq(s, 1, Len(s)) = s
           /\ \A n \in 0 .. Len(s) : IsSeq(SubSeq(s, 1, n)) /\ Len(SubSeq(s, 1, n)) = n
                                     /\ \A i \in 1 .. n : SubSeq(s, 1, n)[i] = s[i]
           /\ \A n \in 1 .. Len(s) : SubSeq(s, 1, n) = Append(SubSeq(s, 1, n - 1), s[n])
<1>1. s \in Seq(ToSet(s)) /\ Len(s) \in Nat /\ DOMAIN s = 1 .. Len(s)
  BY IsSeqIs
<1>2. SubSeq(s, 1, 0) = <<>> /\ SubSeq(s, 1, Len(s)) = s
  BY <1>1, SubSeqEmpty, SubSeqFull
<1>3. ASSUME NEW n \in 0 .. Len(s)
      PROVE  /\ SubSeq(s, 1, n) \in Seq(ToSet(s)) /\ IsSeq(SubSeq(s, 1, n)) /\ Len(SubSeq(s, 1, n)) = n
             /\ \A i \in 1 .. n : SubSeq(s, 1, n)[i] = s[i]
  <2>1. \A i \in 1 .. n : s[i] \in ToSet(s)
    BY <1>1 DEF ToSet
  <2>2. /\ SubSeq(s, 1, n) \in Seq(ToSet(s)) /\ Len(SubSeq(s, 1, n)) = n
        /\ \A i \in 1 .. n : SubSeq(s, 1, n)[i] = s[i]
    BY <2>1, <1>1, SubSeqProperties
  <2> QED BY <2>2, SeqIsSeq
<1>4. ASSUME NEW n \in 1 .. Len(s)
      PROVE  SubSeq(s, 1, n) = Append(SubSeq(s, 1, n - 1), s[n])
  <2>1. SubSeq(s, 1, n) = SubSeq(s, 1, n - 1) \o <<s[n]>>
    BY <1>1, SubSeqRecursiveSecond
  <2>2. IsSeq(SubSeq(s, 1, n - 1))
    BY <1>1, <1>3
  <2> QED BY <2>1, <2>2, AppendIsSeq
<1> QED BY <1>2, <1>3, <1>4

\* A sum is the last of its partial sums.
LEMMA SumIs ==
    ASSUME NEW lens, Len(lens) \in Nat
    PROVE  \E g : /\ g[0] = 0
                  /\ \A n \in 1 .. Len(lens) : g[n] = g[n - 1] + lens[n]
                  /\ SumOf(lens) = g[Len(lens)]
<1> DEFINE Pass(g, n) == IF n = 0 THEN 0 ELSE g[n - 1] + lens[n]
           P == {m \in Nat : \E g : g = [n \in 0 .. m |-> Pass(g, n)]}
<1>1. 0 \in P
  <2> DEFINE g == [n \in 0 .. 0 |-> 0]
  <2>1. g = [n \in 0 .. 0 |-> Pass(g, n)]
    OBVIOUS
  <2> QED BY <2>1
<1>2. ASSUME NEW m \in Nat, m \in P PROVE m + 1 \in P
  <2>1. PICK g : g = [n \in 0 .. m |-> Pass(g, n)]
    BY <1>2
  <2> DEFINE h == [n \in 0 .. m + 1 |-> IF n = m + 1 THEN g[m] + lens[m + 1] ELSE g[n]]
  <2>2. \A n \in 0 .. m : h[n] = g[n] /\ g[n] = Pass(g, n)
    BY <2>1
  <2>3. h[m + 1] = h[m] + lens[m + 1] /\ h[0] = 0
    BY <2>2
  <2>4. \A n \in 1 .. m : h[n] = h[n - 1] + lens[n]
    BY <2>2
  <2> HIDE DEF h
  <2>5. \A n \in 0 .. m + 1 : h[n] = Pass(h, n)
    BY <2>3, <2>4
  <2>6. h = [n \in 0 .. m + 1 |-> Pass(h, n)]
    BY <2>5 DEF h
  <2>7. \E k : k = [n \in 0 .. m + 1 |-> Pass(k, n)]
    BY <2>6
  <2> QED BY <2>7
<1>3. Len(lens) \in P
  BY <1>1, <1>2, InductionOverNat
<1>4. PICK f : f = [n \in 0 .. Len(lens) |-> Pass(f, n)]
  BY <1>3
<1> DEFINE g == CHOOSE g : g = [n \in 0 .. Len(lens) |-> Pass(g, n)]
<1>5. g = [n \in 0 .. Len(lens) |-> Pass(g, n)]
  BY <1>4
<1>6. SumOf(lens) = g[Len(lens)]
  BY DEF SumOf
<1> HIDE DEF g
<1>7. g[0] = 0 /\ \A n \in 1 .. Len(lens) : g[n] = g[n - 1] + lens[n]
  BY <1>5
<1> QED BY <1>6, <1>7

\* Nothing sums to nothing.
LEMMA SumEmpty == SumOf(<<>>) = 0
<1>1. Len(<<>>) = 0
  OBVIOUS
<1> QED BY <1>1, SumIs

\* A sum with one more summand.
LEMMA SumAppend ==
    ASSUME NEW lens \in Seq(Nat), NEW x \in Nat
    PROVE  SumOf(lens) \in Nat /\ SumOf(Append(lens, x)) = SumOf(lens) + x
<1> DEFINE more == Append(lens, x)
<1>1. /\ Len(more) = Len(lens) + 1 /\ Len(lens) \in Nat /\ Len(more) \in Nat
      /\ \A i \in 1 .. Len(lens) : more[i] = lens[i] /\ lens[i] \in Nat
      /\ more[Len(lens) + 1] = x
  BY AppendProperties, ElementOfSeq, LenProperties
<1> HIDE DEF more
<1>2. PICK f : /\ f[0] = 0
               /\ \A n \in 1 .. Len(lens) : f[n] = f[n - 1] + lens[n]
               /\ SumOf(lens) = f[Len(lens)]
  BY <1>1, SumIs
<1>3. PICK g : /\ g[0] = 0
               /\ \A n \in 1 .. Len(more) : g[n] = g[n - 1] + more[n]
               /\ SumOf(more) = g[Len(more)]
  BY <1>1, SumIs
<1> DEFINE P == {m \in Nat : m <= Len(lens) => f[m] \in Nat /\ g[m] = f[m]}
<1>4. 0 \in P
  BY <1>2, <1>3
<1>5. ASSUME NEW m \in Nat, m \in P PROVE m + 1 \in P
  <2> SUFFICES ASSUME m + 1 <= Len(lens) PROVE f[m + 1] \in Nat /\ g[m + 1] = f[m + 1]
    OBVIOUS
  <2>1. f[m] \in Nat /\ g[m] = f[m]
    BY <1>5, <1>1
  <2>2. m + 1 \in 1 .. Len(lens) /\ m + 1 \in 1 .. Len(more) /\ (m + 1) - 1 = m
    BY <1>1
  <2>3. f[m + 1] = f[m] + lens[m + 1]
    BY <1>2, <2>2
  <2>4. g[m + 1] = g[m] + more[m + 1]
    BY <1>3, <2>2
  <2>5. more[m + 1] = lens[m + 1] /\ lens[m + 1] \in Nat
    BY <1>1, <2>2
  <2> QED BY <2>1, <2>3, <2>4, <2>5
<1>6. Len(lens) \in P
  BY <1>1, <1>4, <1>5, InductionOverNat
<1>7. f[Len(lens)] \in Nat /\ g[Len(lens)] = f[Len(lens)]
  BY <1>1, <1>6
<1>8. g[Len(more)] = g[Len(lens)] + x
  <2>1. Len(more) \in 1 .. Len(more) /\ Len(more) - 1 = Len(lens)
    BY <1>1
  <2> QED BY <2>1, <1>1, <1>3
<1> QED BY <1>2, <1>3, <1>7, <1>8 DEF more

\* The concatenation of several sequences is the last of the partial ones.
LEMMA FlattenIs ==
    ASSUME NEW ss, Len(ss) \in Nat, Len(ss) # 0
    PROVE  \E g : /\ g[1] = ss[1]
                  /\ \A n \in 2 .. Len(ss) : g[n] = g[n - 1] \o ss[n]
                  /\ FlattenSeq(ss) = g[Len(ss)]
<1> DEFINE Join(x, n) == x \o ss[n]
           Pass(g, n) == IF n = 1 THEN ss[n] ELSE Join(g[n - 1], n)
           P == {m \in Nat : \E g : g = [n \in 1 .. m |-> Pass(g, n)]}
<1> HIDE DEF Join
<1>1. 0 \in P
  <2> DEFINE g == [n \in 1 .. 0 |-> 0]
  <2>1. g = [n \in 1 .. 0 |-> Pass(g, n)]
    OBVIOUS
  <2> QED BY <2>1
<1>2. ASSUME NEW m \in Nat, m \in P PROVE m + 1 \in P
  <2>1. PICK g : g = [n \in 1 .. m |-> Pass(g, n)]
    BY <1>2
  <2> DEFINE h == [n \in 1 .. m + 1 |-> IF n = m + 1 THEN Pass(g, n) ELSE g[n]]
  <2>2. \A n \in 1 .. m : h[n] = g[n] /\ g[n] = Pass(g, n)
    BY <2>1
  <2>3. h[m + 1] = Pass(g, m + 1)
    OBVIOUS
  <2> HIDE DEF h
  <2>4. \A n \in 1 .. m + 1 : n # 1 => n - 1 \in 1 .. m
    OBVIOUS
  <2>5. \A n \in 1 .. m + 1 : h[n] = Pass(h, n)
    BY <2>2, <2>3, <2>4
  <2>6. h = [n \in 1 .. m + 1 |-> Pass(h, n)]
    BY <2>5 DEF h
  <2>7. \E k : k = [n \in 1 .. m + 1 |-> Pass(k, n)]
    BY <2>6
  <2> QED BY <2>7
<1>3. Len(ss) \in P
  BY <1>1, <1>2, InductionOverNat
<1>4. PICK f : f = [n \in 1 .. Len(ss) |-> Pass(f, n)]
  BY <1>3
<1> DEFINE g == CHOOSE g : g = [n \in 1 .. Len(ss) |-> Pass(g, n)]
<1>5. g = [n \in 1 .. Len(ss) |-> Pass(g, n)]
  BY <1>4
<1>6. FlattenSeq(ss) = g[Len(ss)]
  BY DEF FlattenSeq, Join
<1> HIDE DEF g
<1>7. g[1] = ss[1] /\ \A n \in 2 .. Len(ss) : g[n] = Join(g[n - 1], n)
  BY <1>5
<1> QED BY <1>6, <1>7 DEF Join

\* Nothing concatenates to nothing.
LEMMA FlattenEmpty == FlattenSeq(<<>>) = <<>>
BY DEF FlattenSeq

\* The concatenation with one more sequence.
LEMMA FlattenAppend ==
    ASSUME NEW ss, NEW s, IsSeq(ss), IsSeq(s), \A i \in DOMAIN ss : IsSeq(ss[i])
    PROVE  IsSeq(FlattenSeq(ss)) /\ FlattenSeq(Append(ss, s)) = FlattenSeq(ss) \o s
<1> DEFINE more == Append(ss, s)
<1>1. /\ Len(more) = Len(ss) + 1 /\ Len(ss) \in Nat /\ Len(more) \in Nat /\ Len(more) # 0
      /\ \A i \in 1 .. Len(ss) : more[i] = ss[i] /\ IsSeq(ss[i])
      /\ more[Len(ss) + 1] = s
  BY AppendElements, IsSeqIs
<1>2. CASE Len(ss) = 0
  <2>1. ss = <<>>
    BY <1>2, IsSeqIs, EmptySeq
  <2>2. PICK g : g[1] = more[1] /\ FlattenSeq(more) = g[Len(more)]
    BY <1>1, <1>2, FlattenIs
  <2>3. FlattenSeq(more) = s
    BY <2>2, <1>1, <1>2
  <2>4. <<>> \o s = s
    BY IsSeqIs, ConcatEmptySeq
  <2> QED BY <2>1, <2>3, <2>4, FlattenEmpty, EmptyIsSeq
<1>3. CASE Len(ss) # 0
  <2> HIDE DEF more
  <2>2. PICK f : /\ f[1] = ss[1]
                 /\ \A n \in 2 .. Len(ss) : f[n] = f[n - 1] \o ss[n]
                 /\ FlattenSeq(ss) = f[Len(ss)]
    BY <1>1, <1>3, FlattenIs
  <2>3. PICK g : /\ g[1] = more[1]
                 /\ \A n \in 2 .. Len(more) : g[n] = g[n - 1] \o more[n]
                 /\ FlattenSeq(more) = g[Len(more)]
    BY <1>1, FlattenIs
  <2> DEFINE P == {m \in Nat : m + 1 <= Len(ss) => IsSeq(f[m + 1]) /\ g[m + 1] = f[m + 1]}
  <2>4. 0 \in P
    <3>1. 1 \in 1 .. Len(ss) /\ 0 + 1 = 1
      BY <1>1, <1>3
    <3>2. IsSeq(f[0 + 1]) /\ g[0 + 1] = f[0 + 1]
      BY <3>1, <1>1, <2>2, <2>3
    <3> QED BY <3>2
  <2>5. ASSUME NEW m \in Nat, m \in P PROVE m + 1 \in P
    <3> SUFFICES ASSUME m + 2 <= Len(ss) PROVE IsSeq(f[m + 2]) /\ g[m + 2] = f[m + 2]
      OBVIOUS
    <3>1. IsSeq(f[m + 1]) /\ g[m + 1] = f[m + 1]
      BY <2>5, <1>1
    <3>2. m + 2 \in 2 .. Len(ss) /\ m + 2 \in 1 .. Len(ss) /\ m + 2 \in 2 .. Len(more) /\ (m + 2) - 1 = m + 1
      BY <1>1
    <3>3. f[m + 2] = f[m + 1] \o ss[m + 2]
      BY <2>2, <3>2
    <3>4. g[m + 2] = g[m + 1] \o more[m + 2]
      BY <2>3, <3>2
    <3>5. more[m + 2] = ss[m + 2] /\ IsSeq(ss[m + 2])
      BY <1>1, <3>2
    <3> QED BY <3>1, <3>3, <3>4, <3>5, ConcatIsSeq
  <2>6. Len(ss) - 1 \in P
    <3>1. Len(ss) - 1 \in Nat
      BY <1>1, <1>3
    <3> HIDE DEF P
    <3> QED BY <3>1, <2>4, <2>5, InductionOverNat
  <2>7. IsSeq(f[Len(ss)]) /\ g[Len(ss)] = f[Len(ss)]
    <3>1. Len(ss) - 1 + 1 = Len(ss)
      BY <1>1
    <3> QED BY <3>1, <2>6, <1>1
  <2>8. g[Len(more)] = g[Len(ss)] \o s
    <3>1. Len(more) \in 2 .. Len(more) /\ Len(more) - 1 = Len(ss)
      BY <1>1, <1>3
    <3> QED BY <3>1, <1>1, <2>3
  <2> QED BY <2>2, <2>3, <2>7, <2>8 DEF more
<1> QED BY <1>2, <1>3

-------------------------------------------------------------------------------
(* What the invariant is made of.                                            *)

\* An entry of a manifest, its size that of its content.
IsEntry(e) ==
    /\ e = [path |-> e.path, kind |-> e.kind, size |-> e.size, hash |-> e.hash, offset |-> e.offset]
    /\ IsSeq(e.path) /\ IsSeq(e.hash) /\ e.size = Len(e.hash) /\ e.offset \in Nat
    /\ e.kind = "file" \/ (e.kind = "dir" /\ e.hash = <<>>)

\* Each path once.
IsManifest(es) ==
    /\ IsSeq(es)
    /\ \A i \in DOMAIN es : IsEntry(es[i])
    /\ \A i, j \in DOMAIN es : es[i].path = es[j].path => i = j

\* Files laid end to end, in the order of the entries.
Placed(es) == \A i \in DOMAIN es : IsFile(es[i]) => es[i].offset = TotalSize(SubSeq(es, 1, i - 1))

\* The bytes of each entry, one after the other.
Carries(es, plain) ==
    /\ Len(plain) = TotalSize(es)
    /\ \A i \in DOMAIN es :
          SubSeq(plain, TotalSize(SubSeq(es, 1, i - 1)) + 1, TotalSize(SubSeq(es, 1, i))) = es[i].hash

\* What a writer may be asked to seal.
Sound(es, plain, want, torn) ==
    /\ IsManifest(es) /\ Placed(es)
    /\ IsSeq(plain)
    /\ ~torn => Carries(es, plain)
    /\ want = TreeWith(es)

\* Chunks, and a stream of them.
IsChunk(c) == DOMAIN c = {"key", "n", "last", "aad", "body"} /\ IsSeq(c.body)
IsData(data) == IsSeq(data) /\ \A i \in DOMAIN data : IsChunk(data[i])

\* The k-th container is the one its writer was given.
MadeOk(k, m) ==
    LET es == m.file.man.body
        plain == PlaintextOf(m.file.data)
    IN /\ Sound(es, plain, m.want, m.torn)
       /\ Len(plain) = TotalSize(es)
       /\ m.file.hdr.sender \in Ids
       /\ m.len = ContainerLen(m.file.hdr)
       /\ \E opt \in Options :
             /\ ~PlanRefused(m.file.hdr.sender, m.to, opt)
             /\ m.file = Written(k, es, plain, m.file.hdr.sender, m.to, opt)

\* ... and so is every one.
MadeInv == IsSeq(made) /\ \A k \in DOMAIN made : MadeOk(k, made[k])

\* Damage mixes sections and chunks that were written with ones that mean nothing.
HeaderOk(h) ==
    /\ DOMAIN h = {"suite", "nonce", "sender", "fpr", "recipients", "manifestLen", "chunk", "dataLen"}
    /\ \E k \in DOMAIN made : h.recipients \subseteq made[k].file.hdr.recipients
ManifestOk(m) ==
    /\ DOMAIN m = {"key", "aad", "body"}
    /\ m.key = 0 \/ \E k \in DOMAIN made : m = made[k].file.man
ChunkOk(x) == IsChunk(x) /\ (x.key = 0 \/ \E k \in DOMAIN made : x \in ToSet(made[k].file.data))
DataOk(data) == IsSeq(data) /\ \A x \in ToSet(data) : ChunkOk(x)
SignatureMade(ed) == ed.over = <<>> \/ \E k \in DOMAIN made : ed = made[k].file.ed
AtMostOne(S) == S = {} \/ \E x \in S : S = {x}
PartsOk(c) ==
    /\ c = [x \in DOMAIN c |-> c[x]] /\ DOMAIN c = {"pre", "hdr", "man", "data", "ed", "pq"}
    /\ HeaderOk(c.hdr) /\ ManifestOk(c.man) /\ DataOk(c.data) /\ SignatureMade(c.ed) /\ AtMostOne(c.pq)

\* The file at the path: until it is damaged, the container written last.
DiskInv ==
    disk = NoFile \/ (PartsOk(disk) /\ (damage = 0 => made # <<>> /\ disk = made[Len(made)].file))

\* The inductive invariant.
ContainerIInv == MadeInv /\ DiskInv /\ damage \in Nat /\ IsTree(local)

-------------------------------------------------------------------------------
(* Sizes.                                                                     *)

\* Entries with a size.
Sized(es) == IsSeq(es) /\ \A i \in DOMAIN es : es[i].size \in Nat

\* An empty manifest has no bytes.
LEMMA TotalEmpty == TotalSize(<<>>) = 0
<1>1. [i \in DOMAIN <<>> |-> <<>>[i].size] = <<>>
  OBVIOUS
<1> QED BY <1>1, SumEmpty DEF TotalSize

\* The total with one more entry.
LEMMA TotalAppend ==
    ASSUME NEW es, NEW e, Sized(es), e.size \in Nat
    PROVE  /\ TotalSize(es) \in Nat
           /\ TotalSize(Append(es, e)) = TotalSize(es) + e.size
           /\ Sized(Append(es, e))
<1> DEFINE lens == [i \in DOMAIN es |-> es[i].size]
           u == Append(es, e)
           more == [i \in DOMAIN u |-> u[i].size]
<1>a. IsSeq(es) /\ DOMAIN es = 1 .. Len(es) /\ Len(es) \in Nat
  BY IsSeqIs DEF Sized
<1>b. /\ IsSeq(u) /\ Len(u) = Len(es) + 1
      /\ \A i \in 1 .. Len(es) : u[i] = es[i]
      /\ u[Len(es) + 1] = e
  <2>1. IsSeq(es)
    BY <1>a
  <2> QED BY ONLY <2>1, AppendElements DEF u
<1> HIDE DEF u
<1>c. DOMAIN u = 1 .. Len(u)
  BY <1>b, IsSeqIs
<1>1. /\ DOMAIN es = 1 .. Len(es) /\ Len(es) \in Nat
      /\ IsSeq(u) /\ DOMAIN u = 1 .. Len(es) + 1
      /\ \A i \in 1 .. Len(es) : u[i] = es[i]
      /\ u[Len(es) + 1] = e
  BY <1>a, <1>b, <1>c
<1>2. lens \in Seq(Nat) /\ Len(lens) = Len(es)
  BY <1>1 DEF Sized
<1>3. more \in Seq(Nat) /\ Len(more) = Len(es) + 1
  <2>1. \A i \in 1 .. Len(es) + 1 : u[i].size \in Nat
    BY <1>1 DEF Sized
  <2> QED BY <1>1, <2>1
<1>4. /\ Append(lens, e.size) \in Seq(Nat) /\ Len(Append(lens, e.size)) = Len(es) + 1
      /\ \A i \in 1 .. Len(es) : Append(lens, e.size)[i] = lens[i]
      /\ Append(lens, e.size)[Len(es) + 1] = e.size
  <2> HIDE DEF lens
  <2> QED BY <1>2, AppendProperties
<1>5. \A i \in 1 .. Len(es) + 1 : more[i] = Append(lens, e.size)[i]
  <2>1. \A i \in 1 .. Len(es) : more[i] = es[i].size /\ lens[i] = es[i].size
    BY <1>1
  <2>2. more[Len(es) + 1] = e.size
    BY <1>1
  <2> HIDE DEF more, lens
  <2> QED BY <1>1, <1>4, <2>1, <2>2
<1>6. more = Append(lens, e.size)
  <2> HIDE DEF more, lens
  <2> QED BY <1>3, <1>4, <1>5, SeqEqual
<1>7. SumOf(lens) \in Nat /\ SumOf(Append(lens, e.size)) = SumOf(lens) + e.size
  BY <1>2, SumAppend
<1>8. TotalSize(es) = SumOf(lens) /\ TotalSize(u) = SumOf(more)
  BY DEF TotalSize
<1>9. Sized(u)
  BY <1>1 DEF Sized
<1> QED BY <1>6, <1>7, <1>8, <1>9 DEF u

\* The total of a prefix, and how it grows.
LEMMA TotalPrefix ==
    ASSUME NEW es, Sized(es)
    PROVE  /\ TotalSize(SubSeq(es, 1, 0)) = 0
           /\ \A n \in 0 .. Len(es) : TotalSize(SubSeq(es, 1, n)) \in Nat /\ Sized(SubSeq(es, 1, n))
           /\ \A n \in 1 .. Len(es) :
                 TotalSize(SubSeq(es, 1, n)) = TotalSize(SubSeq(es, 1, n - 1)) + es[n].size
           /\ TotalSize(es) = TotalSize(SubSeq(es, 1, Len(es)))
<1>1. /\ SubSeq(es, 1, 0) = <<>> /\ SubSeq(es, 1, Len(es)) = es
      /\ \A n \in 0 .. Len(es) : IsSeq(SubSeq(es, 1, n)) /\ Len(SubSeq(es, 1, n)) = n
                                 /\ \A i \in 1 .. n : SubSeq(es, 1, n)[i] = es[i]
      /\ \A n \in 1 .. Len(es) : SubSeq(es, 1, n) = Append(SubSeq(es, 1, n - 1), es[n])
  BY PrefixGrows DEF Sized
<1>2. DOMAIN es = 1 .. Len(es) /\ Len(es) \in Nat /\ \A i \in 1 .. Len(es) : es[i].size \in Nat
  BY IsSeqIs DEF Sized
<1>3. ASSUME NEW n \in 0 .. Len(es)
      PROVE  Sized(SubSeq(es, 1, n))
  <2>1. DOMAIN SubSeq(es, 1, n) = 1 .. n
    BY <1>1, IsSeqIs
  <2>2. \A i \in 1 .. n : SubSeq(es, 1, n)[i].size \in Nat
    BY <1>1, <1>2
  <2> QED BY <1>1, <2>1, <2>2 DEF Sized
<1>4. ASSUME NEW n \in 0 .. Len(es)
      PROVE  TotalSize(SubSeq(es, 1, n)) \in Nat
  <2>1. [path |-> 0, size |-> 0].size \in Nat
    OBVIOUS
  <2> QED BY <1>3, <2>1, TotalAppend
<1>5. ASSUME NEW n \in 1 .. Len(es)
      PROVE  TotalSize(SubSeq(es, 1, n)) = TotalSize(SubSeq(es, 1, n - 1)) + es[n].size
  <2>1. n - 1 \in 0 .. Len(es) /\ es[n].size \in Nat
    BY <1>2
  <2>2. Sized(SubSeq(es, 1, n - 1))
    BY <2>1, <1>3
  <2> QED BY <1>1, <2>1, <2>2, TotalAppend
<1> QED BY <1>1, <1>3, <1>4, <1>5, TotalEmpty

\* No prefix is larger than the whole.
LEMMA TotalMonotone ==
    ASSUME NEW es, Sized(es)
    PROVE  \A n \in 0 .. Len(es) : TotalSize(SubSeq(es, 1, n)) <= TotalSize(es)
<1> DEFINE tot(n) == TotalSize(SubSeq(es, 1, n))
<1>1. Len(es) \in Nat /\ DOMAIN es = 1 .. Len(es)
  BY IsSeqIs DEF Sized
<1>5. /\ \A n \in 0 .. Len(es) : tot(n) \in Nat
      /\ \A n \in 1 .. Len(es) : tot(n) = tot(n - 1) + es[n].size
      /\ tot(Len(es)) = TotalSize(es)
  BY TotalPrefix
<1>4. TotalSize(es) \in Nat
  BY <1>1, <1>5
<1> HIDE DEF tot
<1> DEFINE P == {m \in Nat : m <= Len(es) => tot(Len(es) - m) <= TotalSize(es)}
<1>6. 0 \in P
  <2>1. Len(es) - 0 = Len(es)
    BY <1>1
  <2>2. tot(Len(es) - 0) <= TotalSize(es)
    BY <2>1, <1>4, <1>5
  <2> QED BY <2>2
<1>7. ASSUME NEW m \in Nat, m \in P PROVE m + 1 \in P
  <2> SUFFICES ASSUME m + 1 <= Len(es) PROVE tot(Len(es) - (m + 1)) <= TotalSize(es)
    OBVIOUS
  <2>1. tot(Len(es) - m) <= TotalSize(es)
    BY <1>7, <1>1
  <2>2. Len(es) - m \in 1 .. Len(es) /\ (Len(es) - m) - 1 = Len(es) - (m + 1) /\ Len(es) - (m + 1) \in 0 .. Len(es)
        /\ Len(es) - m \in 0 .. Len(es)
    BY <1>1
  <2>3. tot(Len(es) - m) = tot(Len(es) - (m + 1)) + es[Len(es) - m].size
    BY <2>2, <1>5
  <2>4. es[Len(es) - m].size \in Nat
    BY <2>2, <1>1 DEF Sized
  <2>5. tot(Len(es) - m) \in Nat /\ tot(Len(es) - (m + 1)) \in Nat
    BY <2>2, <1>5
  <2> QED BY <2>1, <2>3, <2>4, <2>5, <1>4
<1>8. \A m \in Nat : m \in P
  BY <1>6, <1>7, InductionOverNat
<1>9. ASSUME NEW n \in 0 .. Len(es) PROVE tot(n) <= TotalSize(es)
  <2>1. Len(es) - n \in Nat /\ Len(es) - n <= Len(es) /\ Len(es) - (Len(es) - n) = n
    BY <1>1
  <2> QED BY <1>8, <2>1
<1> QED BY <1>9 DEF tot

\* A prefix of an extended sequence.
LEMMA PrefixOfAppend ==
    ASSUME NEW s, NEW e, IsSeq(s)
    PROVE  /\ \A n \in 0 .. Len(s) : SubSeq(Append(s, e), 1, n) = SubSeq(s, 1, n)
           /\ SubSeq(Append(s, e), 1, Len(s) + 1) = Append(s, e)
<1> DEFINE u == Append(s, e)
<1>a. Len(s) \in Nat
  BY IsSeqIs
<1>b. IsSeq(u) /\ Len(u) = Len(s) + 1 /\ \A i \in 1 .. Len(s) : u[i] = s[i]
  BY AppendElements
<1> HIDE DEF u
<1>1. /\ IsSeq(u) /\ Len(u) = Len(s) + 1 /\ Len(s) \in Nat
      /\ \A i \in 1 .. Len(s) : u[i] = s[i]
  BY <1>a, <1>b
<1>2. ASSUME NEW n \in 0 .. Len(s)
      PROVE  SubSeq(u, 1, n) = SubSeq(s, 1, n)
  <2>1. n \in 0 .. Len(u)
    BY <1>1
  <2>2. /\ IsSeq(SubSeq(u, 1, n)) /\ Len(SubSeq(u, 1, n)) = n
        /\ \A i \in 1 .. n : SubSeq(u, 1, n)[i] = u[i]
    BY <1>1, <2>1, PrefixGrows
  <2>3. /\ IsSeq(SubSeq(s, 1, n)) /\ Len(SubSeq(s, 1, n)) = n
        /\ \A i \in 1 .. n : SubSeq(s, 1, n)[i] = s[i]
    BY <1>1, PrefixGrows
  <2>4. \A i \in 1 .. n : SubSeq(u, 1, n)[i] = SubSeq(s, 1, n)[i]
    BY <1>1, <2>2, <2>3
  <2> QED BY <2>2, <2>3, <2>4, SameSeq
<1>3. SubSeq(u, 1, Len(s) + 1) = u
  BY <1>1, PrefixGrows
<1> QED BY <1>2, <1>3 DEF u

-------------------------------------------------------------------------------
(* Dropping entries.                                                         *)

\* A function that continues a sequence by one element appends it.
LEMMA FcnIsAppend ==
    ASSUME NEW s, IsSeq(s), NEW f, DOMAIN f = 1 .. Len(s) + 1, f = [i \in 1 .. Len(s) + 1 |-> f[i]],
           \A i \in 1 .. Len(s) : f[i] = s[i]
    PROVE  f = Append(s, f[Len(s) + 1])
<1> DEFINE e == f[Len(s) + 1]
           u == Append(s, e)
<1>a. Len(s) \in Nat
  BY IsSeqIs
<1>b. /\ IsSeq(u) /\ Len(u) = Len(s) + 1 /\ \A i \in 1 .. Len(s) : u[i] = s[i]
      /\ u[Len(s) + 1] = e
  BY AppendElements
<1> HIDE DEF u
<1>1. IsSeq(f) /\ Len(f) = Len(s) + 1
  BY <1>a, FcnIsSeq
<1>2. \A i \in 1 .. Len(f) : f[i] = u[i]
  <2>1. \A i \in 1 .. Len(s) : f[i] = u[i]
    BY <1>b
  <2>2. f[Len(s) + 1] = u[Len(s) + 1]
    BY <1>b
  <2>3. \A i \in 1 .. Len(f) : i \in 1 .. Len(s) \/ i = Len(s) + 1
    BY <1>a, <1>1
  <2> QED BY <2>1, <2>2, <2>3
<1>3. f = u
  BY <1>b, <1>1, <1>2, SameSeq
<1> QED BY <1>3 DEF u

\* Nothing is kept of nothing.
LEMMA KeptEmpty == ASSUME NEW gone PROVE Kept(<<>>, gone) = <<>>
<1>1. [i \in DOMAIN <<>> |-> IF <<>>[i] \in gone THEN <<>> ELSE <<<<>>[i]>>] = <<>>
  OBVIOUS
<1> QED BY <1>1, FlattenEmpty DEF Kept

\* A sequence of one element.
LEMMA SingleIsSeq == ASSUME NEW e PROVE IsSeq(<<e>>) /\ ToSet(<<e>>) = {e}
<1>1. <<e>> \in Seq({e}) /\ DOMAIN <<e>> = 1 .. 1 /\ <<e>>[1] = e
  OBVIOUS
<1>2. ToSet(<<e>>) = {e}
  BY <1>1 DEF ToSet
<1> QED BY <1>1, <1>2 DEF IsSeq

\* One more element is kept behind the others, or not at all.
LEMMA KeptAppend ==
    ASSUME NEW es, NEW e, NEW gone, IsSeq(es)
    PROVE  /\ IsSeq(Kept(es, gone))
           /\ Kept(Append(es, e), gone) = IF e \in gone THEN Kept(es, gone) ELSE Append(Kept(es, gone), e)
<1> DEFINE u == Append(es, e)
           one(x) == IF x \in gone THEN <<>> ELSE <<x>>
           parts == [i \in DOMAIN es |-> one(es[i])]
           more == [i \in DOMAIN u |-> one(u[i])]
<1>a. DOMAIN es = 1 .. Len(es) /\ Len(es) \in Nat
  BY IsSeqIs
<1>b. /\ IsSeq(u) /\ Len(u) = Len(es) + 1
      /\ \A i \in 1 .. Len(es) : u[i] = es[i]
      /\ u[Len(es) + 1] = e
  BY AppendElements
<1>d. Kept(es, gone) = FlattenSeq(parts) /\ Kept(u, gone) = FlattenSeq(more)
  BY DEF Kept
<1> HIDE DEF u
<1>c. DOMAIN u = 1 .. Len(u)
  BY <1>b, IsSeqIs
<1>e. \A x : IsSeq(one(x))
  BY EmptyIsSeq, SingleIsSeq
<1> HIDE DEF one
<1>1. /\ IsSeq(parts) /\ Len(parts) = Len(es) /\ DOMAIN parts = DOMAIN es
      /\ \A i \in DOMAIN parts : IsSeq(parts[i])
  <2>1. DOMAIN parts = 1 .. Len(es) /\ parts = [i \in 1 .. Len(es) |-> parts[i]]
    BY <1>a
  <2>2. \A i \in DOMAIN parts : IsSeq(parts[i])
    BY <1>e
  <2> HIDE DEF parts
  <2> QED BY <1>a, <2>1, <2>2, FcnIsSeq
<1>2. /\ DOMAIN more = 1 .. Len(parts) + 1 /\ more = [i \in 1 .. Len(parts) + 1 |-> more[i]]
      /\ \A i \in 1 .. Len(parts) : more[i] = parts[i]
      /\ more[Len(parts) + 1] = one(e)
  BY <1>a, <1>b, <1>c, <1>1
<1> HIDE DEF parts, more
<1>3. more = Append(parts, one(e))
  BY <1>1, <1>2, FcnIsAppend
<1>4. IsSeq(FlattenSeq(parts)) /\ FlattenSeq(more) = FlattenSeq(parts) \o one(e)
  BY <1>1, <1>3, <1>e, FlattenAppend
<1>5. CASE e \in gone
  <2>1. FlattenSeq(parts) \o <<>> = FlattenSeq(parts)
    BY <1>4, IsSeqIs, ConcatEmptySeq
  <2> QED BY <1>4, <1>5, <1>d, <2>1 DEF u, one
<1>6. CASE e \notin gone
  <2>1. Append(FlattenSeq(parts), e) = FlattenSeq(parts) \o <<e>>
    BY <1>4, AppendIsSeq
  <2> QED BY <1>4, <1>6, <1>d, <2>1 DEF u, one
<1> QED BY <1>5, <1>6

\* What is kept, and that no path comes twice.
LEMMA KeptIs ==
    ASSUME NEW es, NEW gone, IsSeq(es)
    PROVE  /\ IsSeq(Kept(es, gone)) /\ ToSet(Kept(es, gone)) = ToSet(es) \ gone
           /\ (\A i, j \in DOMAIN es : es[i].path = es[j].path => i = j) =>
                 \A i, j \in DOMAIN Kept(es, gone) : Kept(es, gone)[i].path = Kept(es, gone)[j].path => i = j
<1> DEFINE pre(n) == SubSeq(es, 1, n)
           Uniq(s) == \A i, j \in DOMAIN s : s[i].path = s[j].path => i = j
           Fine(s, k) == /\ IsSeq(k) /\ ToSet(k) = ToSet(s) \ gone
                         /\ Uniq(es) => Uniq(k)
           P == {n \in Nat : n <= Len(es) => Fine(pre(n), Kept(pre(n), gone))}
<1>1. /\ DOMAIN es = 1 .. Len(es) /\ Len(es) \in Nat
      /\ pre(0) = <<>> /\ pre(Len(es)) = es
      /\ \A n \in 0 .. Len(es) : IsSeq(pre(n)) /\ Len(pre(n)) = n /\ \A i \in 1 .. n : pre(n)[i] = es[i]
      /\ \A n \in 1 .. Len(es) : pre(n) = Append(pre(n - 1), es[n])
  BY IsSeqIs, PrefixGrows
<1> HIDE DEF pre
<1>2. 0 \in P
  <2>1. Kept(pre(0), gone) = <<>>
    BY <1>1, KeptEmpty
  <2>2. Uniq(<<>>)
    OBVIOUS
  <2>3. Fine(pre(0), <<>>)
    BY <1>1, <2>2, EmptyIsSeq
  <2> QED BY <2>1, <2>3
<1>3. ASSUME NEW n \in Nat, n \in P PROVE n + 1 \in P
  <2> SUFFICES ASSUME n + 1 <= Len(es) PROVE Fine(pre(n + 1), Kept(pre(n + 1), gone))
    OBVIOUS
  <2>a. n + 1 \in 1 .. Len(es) /\ (n + 1) - 1 = n /\ n \in 0 .. Len(es) /\ n <= Len(es)
    BY <1>1
  <2> DEFINE e == es[n + 1]
             s == pre(n)
             k == Kept(s, gone)
  <2>1. /\ IsSeq(k) /\ ToSet(k) = ToSet(s) \ gone
        /\ Uniq(es) => Uniq(k)
        /\ IsSeq(s) /\ Len(s) = n /\ \A i \in 1 .. n : s[i] = es[i]
    BY <1>1, <1>3, <2>a
  <2>2. pre(n + 1) = Append(s, e)
    BY <1>1, <2>a
  <2>3. ToSet(Append(s, e)) = ToSet(s) \cup {e}
    BY <2>1, AppendIsSeq
  <2> HIDE DEF Uniq
  <2>4. Kept(Append(s, e), gone) = IF e \in gone THEN k ELSE Append(k, e)
    <3>1. IsSeq(s)
      BY <2>1
    <3> HIDE DEF s, e
    <3> QED BY ONLY <3>1, KeptAppend DEF k
  <2>5. Uniq(es) => \A x \in ToSet(k) : x.path # e.path
    <3> SUFFICES ASSUME Uniq(es), NEW x \in ToSet(k) PROVE x.path # e.path
      OBVIOUS
    <3>1. x \in ToSet(s)
      BY <2>1
    <3>2. PICK i \in 1 .. n : x = s[i]
      BY <3>1, <2>1, IsSeqIs DEF ToSet
    <3>3. x = es[i] /\ i \in DOMAIN es /\ n + 1 \in DOMAIN es /\ i # n + 1
      BY <3>2, <2>1, <1>1, <2>a
    <3> QED BY <3>3 DEF Uniq
  <2> HIDE DEF e, s, k
  <2>6. CASE e \in gone
    BY <2>1, <2>2, <2>3, <2>4, <2>6
  <2>7. CASE e \notin gone
    <3> DEFINE w == Append(k, e)
    <3>1. /\ IsSeq(w) /\ ToSet(w) = ToSet(k) \cup {e} /\ Len(w) = Len(k) + 1
          /\ \A i \in 1 .. Len(k) : w[i] = k[i]
          /\ w[Len(k) + 1] = e
      <4>1. IsSeq(k)
        BY <2>1
      <4>2. ToSet(w) = ToSet(k) \cup {e}
        BY ONLY <4>1, AppendIsSeq DEF w
      <4> QED BY ONLY <4>1, <4>2, AppendElements DEF w
    <3> HIDE DEF w
    <3>2. DOMAIN w = 1 .. Len(k) + 1 /\ DOMAIN k = 1 .. Len(k) /\ Len(k) \in Nat
      BY <2>1, <3>1, IsSeqIs
    <3>3. Uniq(es) => Uniq(w)
      <4> USE DEF Uniq
      <4> SUFFICES ASSUME Uniq(es), NEW i \in DOMAIN w, NEW j \in DOMAIN w, w[i].path = w[j].path PROVE i = j
        OBVIOUS
      <4>1. \A x \in 1 .. Len(k) : k[x].path # e.path
        BY <2>5, <3>2 DEF ToSet
      <4>2. \A x, y \in 1 .. Len(k) : k[x].path = k[y].path => x = y
        BY <2>1, <3>2
      <4>3. CASE i \in 1 .. Len(k) /\ j \in 1 .. Len(k)
        BY <4>2, <4>3, <3>1
      <4>4. CASE i = Len(k) + 1 /\ j \in 1 .. Len(k)
        BY <4>1, <4>4, <3>1
      <4>5. CASE j = Len(k) + 1 /\ i \in 1 .. Len(k)
        BY <4>1, <4>5, <3>1
      <4>6. CASE i = Len(k) + 1 /\ j = Len(k) + 1
        BY <4>6
      <4> QED BY <3>2, <4>3, <4>4, <4>5, <4>6
    <3>4. ToSet(w) = ToSet(Append(s, e)) \ gone
      BY <2>1, <2>3, <2>7, <3>1
    <3>5. Fine(Append(s, e), w)
      BY <3>1, <3>3, <3>4
    <3> QED BY <2>2, <2>4, <2>7, <3>5 DEF w
  <2> QED BY <2>6, <2>7
<1>4. Len(es) \in P
  BY <1>1, <1>2, <1>3, InductionOverNat
<1>5. Fine(pre(Len(es)), Kept(pre(Len(es)), gone))
  BY <1>1, <1>4
<1> QED BY <1>1, <1>5

-------------------------------------------------------------------------------
(* Entries and their bytes.                                                  *)

\* The elements of a segment.
LEMMA SegmentIs ==
    ASSUME NEW p, IsSeq(p), NEW a \in Nat, NEW b \in Nat, b <= Len(p)
    PROVE  /\ IsSeq(SubSeq(p, a + 1, b))
           /\ Len(SubSeq(p, a + 1, b)) = IF a <= b THEN b - a ELSE 0
           /\ \A i \in 1 .. b - a : SubSeq(p, a + 1, b)[i] = p[a + i]
<1>1. p \in Seq(ToSet(p)) /\ Len(p) \in Nat /\ DOMAIN p = 1 .. Len(p)
  BY IsSeqIs
<1>2. \A i \in a + 1 .. b : p[i] \in ToSet(p)
  BY <1>1 DEF ToSet
<1>3. /\ SubSeq(p, a + 1, b) \in Seq(ToSet(p))
      /\ Len(SubSeq(p, a + 1, b)) = IF a + 1 <= b THEN b - (a + 1) + 1 ELSE 0
      /\ \A i \in 1 .. b - (a + 1) + 1 : SubSeq(p, a + 1, b)[i] = p[(a + 1) + i - 1]
  BY <1>2, SubSeqProperties
<1>4. IsSeq(SubSeq(p, a + 1, b))
  BY <1>3, SeqIsSeq
<1>5. \A i \in 1 .. b - a : SubSeq(p, a + 1, b)[i] = p[a + i]
  <2> SUFFICES ASSUME NEW i \in 1 .. b - a PROVE SubSeq(p, a + 1, b)[i] = p[a + i]
    OBVIOUS
  <2>1. i \in 1 .. b - (a + 1) + 1 /\ (a + 1) + i - 1 = a + i
    OBVIOUS
  <2> QED BY <1>3, <2>1
<1> QED BY <1>3, <1>4, <1>5

\* A segment of the first part, and the second part.
LEMMA SegmentOfConcat ==
    ASSUME NEW p, NEW h, IsSeq(p), IsSeq(h)
    PROVE  /\ \A a, b \in Nat : b <= Len(p) => SubSeq(p \o h, a + 1, b) = SubSeq(p, a + 1, b)
           /\ SubSeq(p \o h, Len(p) + 1, Len(p) + Len(h)) = h
<1> DEFINE u == p \o h
<1>1. /\ IsSeq(u) /\ Len(u) = Len(p) + Len(h)
      /\ \A i \in 1 .. Len(p) : u[i] = p[i]
      /\ \A i \in 1 .. Len(h) : u[Len(p) + i] = h[i]
  BY ConcatIsSeq
<1>2. Len(p) \in Nat /\ Len(h) \in Nat
  BY IsSeqIs
<1> HIDE DEF u
<1>3. ASSUME NEW a \in Nat, NEW b \in Nat, b <= Len(p)
      PROVE  SubSeq(u, a + 1, b) = SubSeq(p, a + 1, b)
  <2>1. b <= Len(u)
    BY <1>1, <1>2, <1>3
  <2>2. /\ IsSeq(SubSeq(p, a + 1, b))
        /\ Len(SubSeq(p, a + 1, b)) = IF a <= b THEN b - a ELSE 0
        /\ \A i \in 1 .. b - a : SubSeq(p, a + 1, b)[i] = p[a + i]
    BY <1>3, SegmentIs
  <2>3. /\ IsSeq(SubSeq(u, a + 1, b))
        /\ Len(SubSeq(u, a + 1, b)) = IF a <= b THEN b - a ELSE 0
        /\ \A i \in 1 .. b - a : SubSeq(u, a + 1, b)[i] = u[a + i]
    BY <1>1, <2>1, SegmentIs
  <2>4. \A i \in 1 .. b - a : u[a + i] = p[a + i]
    <3>1. \A i \in 1 .. b - a : a + i \in 1 .. Len(p)
      BY <1>2, <1>3
    <3> QED BY <3>1, <1>1
  <2>5. \A i \in 1 .. Len(SubSeq(u, a + 1, b)) : i \in 1 .. b - a
    BY <2>3
  <2>6. \A i \in 1 .. Len(SubSeq(u, a + 1, b)) : SubSeq(u, a + 1, b)[i] = SubSeq(p, a + 1, b)[i]
    BY <2>2, <2>3, <2>4, <2>5
  <2> QED BY <2>2, <2>3, <2>6, SameSeq
<1>4. SubSeq(u, Len(p) + 1, Len(p) + Len(h)) = h
  <2> DEFINE w == SubSeq(u, Len(p) + 1, Len(p) + Len(h))
  <2>1. Len(p) + Len(h) \in Nat /\ Len(p) + Len(h) <= Len(u) /\ Len(p) + Len(h) - Len(p) = Len(h) /\ Len(p) <= Len(p) + Len(h)
    BY <1>1, <1>2
  <2>2. /\ IsSeq(w) /\ Len(w) = Len(h)
        /\ \A i \in 1 .. Len(h) : w[i] = u[Len(p) + i]
    <3> DEFINE b == Len(p) + Len(h)
    <3>1. b \in Nat /\ b <= Len(u) /\ b - Len(p) = Len(h) /\ Len(p) <= b
      BY <2>1
    <3> HIDE DEF b
    <3>2. /\ IsSeq(SubSeq(u, Len(p) + 1, b))
          /\ Len(SubSeq(u, Len(p) + 1, b)) = IF Len(p) <= b THEN b - Len(p) ELSE 0
          /\ \A i \in 1 .. b - Len(p) : SubSeq(u, Len(p) + 1, b)[i] = u[Len(p) + i]
      BY <1>1, <1>2, <3>1, SegmentIs
    <3> QED BY <3>1, <3>2 DEF b
  <2> HIDE DEF w
  <2>3. \A i \in 1 .. Len(w) : w[i] = h[i]
    BY <2>2, <1>1
  <2>4. w = h
    BY <2>2, <2>3, SameSeq
  <2> QED BY <2>4 DEF w
<1> QED BY <1>3, <1>4 DEF u

\* What a manifest is.
LEMMA ManifestIs ==
    ASSUME NEW es, IsManifest(es)
    PROVE  /\ Sized(es) /\ IsSeq(es) /\ Len(es) \in Nat /\ DOMAIN es = 1 .. Len(es)
           /\ \A i \in DOMAIN es : IsEntry(es[i]) /\ es[i].size \in Nat /\ es[i].size = Len(es[i].hash)
                                   /\ IsSeq(es[i].hash)
<1>1. IsSeq(es) /\ Len(es) \in Nat /\ DOMAIN es = 1 .. Len(es)
  BY IsSeqIs DEF IsManifest
<1>2. ASSUME NEW i \in DOMAIN es
      PROVE  IsEntry(es[i]) /\ es[i].size \in Nat /\ es[i].size = Len(es[i].hash) /\ IsSeq(es[i].hash)
  <2>1. IsEntry(es[i])
    BY DEF IsManifest
  <2>2. es[i].size = Len(es[i].hash) /\ IsSeq(es[i].hash)
    BY <2>1 DEF IsEntry
  <2> QED BY <2>1, <2>2, IsSeqIs
<1> QED BY <1>1, <1>2 DEF Sized

\* A new entry behind the others.
LEMMA ManifestAppend ==
    ASSUME NEW es, NEW e, IsManifest(es), IsEntry(e), e.path \notin PathsOf(es)
    PROVE  /\ IsManifest(Append(es, e))
           /\ PathsOf(Append(es, e)) = PathsOf(es) \cup {e.path}
<1> DEFINE u == Append(es, e)
<1>1. Sized(es) /\ IsSeq(es) /\ Len(es) \in Nat /\ DOMAIN es = 1 .. Len(es)
  BY ManifestIs
<1>2. /\ IsSeq(u) /\ Len(u) = Len(es) + 1
      /\ \A i \in 1 .. Len(es) : u[i] = es[i]
      /\ u[Len(es) + 1] = e
  <2>1. IsSeq(es)
    BY <1>1
  <2> QED BY ONLY <2>1, AppendElements DEF u
<1> HIDE DEF u
<1>5. DOMAIN u = 1 .. Len(es) + 1
  BY <1>2, IsSeqIs
<1>6. \A i \in DOMAIN u : i \in 1 .. Len(es) \/ i = Len(es) + 1
  BY <1>1, <1>5
<1>7. \A i \in 1 .. Len(es) : es[i].path # e.path
  BY <1>1 DEF PathsOf
<1>8. IsManifest(u)
  <2>1. \A i \in DOMAIN u : IsEntry(u[i])
    BY <1>1, <1>2, <1>6 DEF IsManifest
  <2>2. ASSUME NEW i \in DOMAIN u, NEW j \in DOMAIN u, u[i].path = u[j].path PROVE i = j
    <3>1. \A x, y \in 1 .. Len(es) : es[x].path = es[y].path => x = y
      BY <1>1 DEF IsManifest
    <3>2. CASE i \in 1 .. Len(es) /\ j \in 1 .. Len(es)
      BY <3>1, <3>2, <2>2, <1>2
    <3>3. CASE i = Len(es) + 1 /\ j \in 1 .. Len(es)
      BY <1>7, <3>3, <2>2, <1>2
    <3>4. CASE j = Len(es) + 1 /\ i \in 1 .. Len(es)
      BY <1>7, <3>4, <2>2, <1>2
    <3>5. CASE i = Len(es) + 1 /\ j = Len(es) + 1
      BY <3>5
    <3> QED BY <1>6, <3>2, <3>3, <3>4, <3>5
  <2> QED BY <1>2, <2>1, <2>2 DEF IsManifest
<1>10. PathsOf(u) = PathsOf(es) \cup {e.path}
  <2>1. PathsOf(u) \subseteq PathsOf(es) \cup {e.path}
    BY <1>1, <1>2, <1>6 DEF PathsOf
  <2>2. e.path \in PathsOf(u)
    BY <1>1, <1>2, <1>5 DEF PathsOf
  <2>3. PathsOf(es) \subseteq PathsOf(u)
    BY <1>1, <1>2, <1>5 DEF PathsOf
  <2> QED BY <2>1, <2>2, <2>3
<1> QED BY <1>8, <1>10 DEF u

\* ... laid where they end.
LEMMA PlacedAppend ==
    ASSUME NEW es, NEW e, IsManifest(es), Placed(es), IsFile(e) => e.offset = TotalSize(es)
    PROVE  Placed(Append(es, e))
<1> DEFINE u == Append(es, e)
<1>1. IsSeq(es) /\ Len(es) \in Nat /\ DOMAIN es = 1 .. Len(es)
  BY ManifestIs
<1>2. /\ IsSeq(u) /\ Len(u) = Len(es) + 1
      /\ \A i \in 1 .. Len(es) : u[i] = es[i]
      /\ u[Len(es) + 1] = e
  <2>1. IsSeq(es)
    BY <1>1
  <2> QED BY ONLY <2>1, AppendElements DEF u
<1>3. \A n \in 0 .. Len(es) : SubSeq(u, 1, n) = SubSeq(es, 1, n)
  BY <1>1, PrefixOfAppend
<1>4. SubSeq(es, 1, Len(es)) = es
  BY <1>1, PrefixGrows
<1> HIDE DEF u
<1>5. DOMAIN u = 1 .. Len(es) + 1
  BY <1>2, IsSeqIs
<1>6. \A i \in DOMAIN u : i \in 1 .. Len(es) \/ i = Len(es) + 1
  BY <1>1, <1>5
<1>9. Placed(u)
  <2> SUFFICES ASSUME NEW i \in DOMAIN u, IsFile(u[i])
               PROVE  u[i].offset = TotalSize(SubSeq(u, 1, i - 1))
    BY DEF Placed
  <2>1. CASE i \in 1 .. Len(es)
    <3>1. SubSeq(u, 1, i - 1) = SubSeq(es, 1, i - 1) /\ u[i] = es[i] /\ i \in DOMAIN es
      BY <2>1, <1>1, <1>2, <1>3
    <3> QED BY <3>1 DEF Placed
  <2>2. CASE i = Len(es) + 1
    <3>1. i - 1 = Len(es) /\ i - 1 \in 0 .. Len(es)
      BY <2>2, <1>1
    <3>2. SubSeq(u, 1, i - 1) = es /\ u[i] = e
      BY <2>2, <3>1, <1>2, <1>3, <1>4
    <3> QED BY <3>2
  <2> QED BY <1>6, <2>1, <2>2
<1> QED BY <1>9 DEF u

\* No entries, no bytes.
LEMMA CarriesEmpty == Carries(<<>>, <<>>)
BY TotalEmpty DEF Carries

\* ... and its bytes behind theirs.
LEMMA CarriesAppend ==
    ASSUME NEW es, NEW e, NEW plain, Sized(es), IsSeq(plain), IsSeq(e.hash), e.size = Len(e.hash),
           Carries(es, plain)
    PROVE  Carries(Append(es, e), plain \o e.hash)
<1> DEFINE u == Append(es, e)
           all == plain \o e.hash
           tot(n) == TotalSize(SubSeq(es, 1, n))
<1>1. IsSeq(es) /\ Len(es) \in Nat /\ DOMAIN es = 1 .. Len(es) /\ e.size \in Nat
  BY IsSeqIs DEF Sized
<1>2. /\ IsSeq(u) /\ Len(u) = Len(es) + 1
      /\ \A i \in 1 .. Len(es) : u[i] = es[i]
      /\ u[Len(es) + 1] = e
  <2>1. IsSeq(es)
    BY <1>1
  <2> QED BY ONLY <2>1, AppendElements DEF u
<1>3. /\ \A n \in 0 .. Len(es) : SubSeq(u, 1, n) = SubSeq(es, 1, n)
      /\ SubSeq(u, 1, Len(es) + 1) = u
  BY <1>1, PrefixOfAppend
<1>4. /\ TotalSize(u) = TotalSize(es) + e.size /\ TotalSize(es) \in Nat
  BY <1>1, TotalAppend
<1>5. /\ \A n \in 0 .. Len(es) : tot(n) \in Nat
      /\ \A n \in 1 .. Len(es) : tot(n) = tot(n - 1) + es[n].size
      /\ tot(Len(es)) = TotalSize(es)
  BY TotalPrefix
<1>6. IsSeq(all) /\ Len(all) = Len(plain) + e.size
  BY ConcatIsSeq
<1>7. /\ \A a, b \in Nat : b <= Len(plain) => SubSeq(all, a + 1, b) = SubSeq(plain, a + 1, b)
      /\ SubSeq(all, Len(plain) + 1, Len(plain) + Len(e.hash)) = e.hash
  BY SegmentOfConcat
<1>8. Len(plain) = TotalSize(es)
  BY DEF Carries
<1> HIDE DEF u, all, tot
<1>9. \A n \in 0 .. Len(es) : tot(n) <= Len(plain)
  BY <1>8, TotalMonotone DEF tot
<1>10. ASSUME NEW i \in 1 .. Len(es) + 1
       PROVE  SubSeq(all, TotalSize(SubSeq(u, 1, i - 1)) + 1, TotalSize(SubSeq(u, 1, i))) = u[i].hash
  <2>1. CASE i \in 1 .. Len(es)
    <3>1. i - 1 \in 0 .. Len(es) /\ i \in 0 .. Len(es)
      BY <1>1, <2>1
    <3>2. TotalSize(SubSeq(u, 1, i - 1)) = tot(i - 1) /\ TotalSize(SubSeq(u, 1, i)) = tot(i)
      BY <3>1, <1>3 DEF tot
    <3>3. SubSeq(all, tot(i - 1) + 1, tot(i)) = SubSeq(plain, tot(i - 1) + 1, tot(i))
      BY <3>1, <1>5, <1>7, <1>9
    <3>4. SubSeq(plain, tot(i - 1) + 1, tot(i)) = es[i].hash
      BY <2>1, <1>1 DEF Carries, tot
    <3> QED BY <2>1, <3>2, <3>3, <3>4, <1>2
  <2>2. CASE i = Len(es) + 1
    <3>1. i - 1 = Len(es) /\ i - 1 \in 0 .. Len(es)
      BY <1>1, <2>2
    <3>2. TotalSize(SubSeq(u, 1, i - 1)) = Len(plain)
      BY <3>1, <1>3, <1>5, <1>8 DEF tot
    <3>3. TotalSize(SubSeq(u, 1, i)) = Len(plain) + Len(e.hash)
      BY <2>2, <1>3, <1>4, <1>8
    <3> QED BY <2>2, <3>2, <3>3, <1>2, <1>7
  <2> QED BY <1>1, <2>1, <2>2
<1>11. Len(all) = TotalSize(u) /\ DOMAIN u = 1 .. Len(es) + 1
  BY <1>2, <1>4, <1>6, <1>8, IsSeqIs
<1>12. Carries(u, all)
  BY <1>10, <1>11 DEF Carries
<1> QED BY <1>12 DEF u, all

\* A concatenation of sequences is a sequence.
LEMMA FlattenIsSeq ==
    ASSUME NEW ss, IsSeq(ss), \A i \in DOMAIN ss : IsSeq(ss[i])
    PROVE  IsSeq(FlattenSeq(ss))
BY EmptyIsSeq, FlattenAppend

\* A concatenation grows by one sequence at a time.
LEMMA FlattenPrefix ==
    ASSUME NEW ss, IsSeq(ss), \A i \in DOMAIN ss : IsSeq(ss[i])
    PROVE  /\ FlattenSeq(SubSeq(ss, 1, 0)) = <<>>
           /\ FlattenSeq(SubSeq(ss, 1, Len(ss))) = FlattenSeq(ss)
           /\ \A n \in 0 .. Len(ss) : IsSeq(FlattenSeq(SubSeq(ss, 1, n)))
           /\ \A n \in 1 .. Len(ss) :
                 FlattenSeq(SubSeq(ss, 1, n)) = FlattenSeq(SubSeq(ss, 1, n - 1)) \o ss[n]
<1>1. /\ SubSeq(ss, 1, 0) = <<>> /\ SubSeq(ss, 1, Len(ss)) = ss
      /\ \A n \in 0 .. Len(ss) : IsSeq(SubSeq(ss, 1, n)) /\ Len(SubSeq(ss, 1, n)) = n
                                 /\ \A i \in 1 .. n : SubSeq(ss, 1, n)[i] = ss[i]
      /\ \A n \in 1 .. Len(ss) : SubSeq(ss, 1, n) = Append(SubSeq(ss, 1, n - 1), ss[n])
  BY PrefixGrows
<1>2. Len(ss) \in Nat /\ DOMAIN ss = 1 .. Len(ss)
  BY IsSeqIs
<1>3. ASSUME NEW n \in 0 .. Len(ss)
      PROVE  \A i \in DOMAIN SubSeq(ss, 1, n) : IsSeq(SubSeq(ss, 1, n)[i])
  <2>1. DOMAIN SubSeq(ss, 1, n) = 1 .. n
    BY <1>1, IsSeqIs
  <2> QED BY <1>1, <1>2, <2>1
<1>4. ASSUME NEW n \in 0 .. Len(ss)
      PROVE  IsSeq(FlattenSeq(SubSeq(ss, 1, n)))
  BY <1>1, <1>3, FlattenIsSeq
<1>5. ASSUME NEW n \in 1 .. Len(ss)
      PROVE  FlattenSeq(SubSeq(ss, 1, n)) = FlattenSeq(SubSeq(ss, 1, n - 1)) \o ss[n]
  <2>1. n - 1 \in 0 .. Len(ss) /\ n \in DOMAIN ss
    BY <1>2
  <2>2. IsSeq(SubSeq(ss, 1, n - 1)) /\ \A i \in DOMAIN SubSeq(ss, 1, n - 1) : IsSeq(SubSeq(ss, 1, n - 1)[i])
    BY <2>1, <1>1, <1>3
  <2>3. FlattenSeq(Append(SubSeq(ss, 1, n - 1), ss[n])) = FlattenSeq(SubSeq(ss, 1, n - 1)) \o ss[n]
    BY <2>1, <2>2, FlattenAppend
  <2> QED BY <2>3, <1>1
<1> QED BY <1>1, <1>4, <1>5, FlattenEmpty

\* The bytes of all entries, in their order.
LEMMA CarriesAll ==
    ASSUME NEW es, NEW ss, IsManifest(es), IsSeq(ss), Len(ss) = Len(es), \A i \in DOMAIN es : ss[i] = es[i].hash
    PROVE  IsSeq(FlattenSeq(ss)) /\ Carries(es, FlattenSeq(ss))
<1> DEFINE pre(n) == SubSeq(es, 1, n)
           bytes(n) == FlattenSeq(SubSeq(ss, 1, n))
           P == {n \in Nat : n <= Len(es) => Carries(pre(n), bytes(n))}
<1>1. /\ Sized(es) /\ IsSeq(es) /\ Len(es) \in Nat /\ DOMAIN es = 1 .. Len(es) /\ DOMAIN ss = 1 .. Len(es)
      /\ \A i \in 1 .. Len(es) : ss[i] = es[i].hash /\ IsSeq(ss[i]) /\ es[i].size = Len(es[i].hash)
  BY ManifestIs, IsSeqIs
<1>2. /\ pre(0) = <<>> /\ pre(Len(es)) = es
      /\ \A n \in 1 .. Len(es) : pre(n) = Append(pre(n - 1), es[n])
  BY <1>1, PrefixGrows
<1>3. \A n \in 0 .. Len(es) : Sized(pre(n))
  BY <1>1, TotalPrefix
<1>4. /\ bytes(0) = <<>> /\ bytes(Len(es)) = FlattenSeq(ss)
      /\ \A n \in 0 .. Len(es) : IsSeq(bytes(n))
      /\ \A n \in 1 .. Len(es) : bytes(n) = bytes(n - 1) \o ss[n]
  BY <1>1, FlattenPrefix
<1> HIDE DEF pre, bytes
<1>5. 0 \in P
  BY <1>2, <1>4, CarriesEmpty
<1>6. ASSUME NEW n \in Nat, n \in P PROVE n + 1 \in P
  <2> SUFFICES ASSUME n + 1 <= Len(es) PROVE Carries(pre(n + 1), bytes(n + 1))
    OBVIOUS
  <2>1. n + 1 \in 1 .. Len(es) /\ (n + 1) - 1 = n /\ n \in 0 .. Len(es) /\ n <= Len(es)
    BY <1>1
  <2>2. Carries(pre(n), bytes(n)) /\ Sized(pre(n)) /\ IsSeq(bytes(n))
    BY <1>3, <1>4, <1>6, <2>1
  <2>3. ss[n + 1] = es[n + 1].hash /\ IsSeq(es[n + 1].hash) /\ es[n + 1].size = Len(es[n + 1].hash)
    BY <1>1, <2>1
  <2>4. pre(n + 1) = Append(pre(n), es[n + 1]) /\ bytes(n + 1) = bytes(n) \o es[n + 1].hash
    BY <1>2, <1>4, <2>1, <2>3
  <2> QED BY <2>2, <2>3, <2>4, CarriesAppend
<1>7. Carries(pre(Len(es)), bytes(Len(es)))
  <2>1. Len(es) \in P
    BY <1>1, <1>5, <1>6, InductionOverNat
  <2> QED BY <1>1, <2>1
<1>8. IsSeq(FlattenSeq(ss))
  BY <1>1, <1>4
<1> QED BY <1>2, <1>4, <1>7, <1>8

\* The total depends on nothing but the sizes.
LEMMA SameSizes ==
    ASSUME NEW a, NEW b, DOMAIN a = DOMAIN b, \A i \in DOMAIN a : a[i].size = b[i].size
    PROVE  TotalSize(a) = TotalSize(b)
<1>1. [i \in DOMAIN a |-> a[i].size] = [i \in DOMAIN b |-> b[i].size]
  OBVIOUS
<1> QED BY <1>1 DEF TotalSize

\* The tree of a manifest, entry by entry.
LEMMA TreeWithIs ==
    ASSUME NEW es
    PROVE  TreeWith(es) = {[path |-> es[i].path, kind |-> es[i].kind, content |-> es[i].hash] : i \in DOMAIN es}
<1> DEFINE node(e) == [path |-> e.path, kind |-> e.kind, content |-> e.hash]
<1>1. TreeWith(es) = {node(e) : e \in ToSet(es)}
  BY DEF TreeWith
<1> HIDE DEF node
<1>2. TreeWith(es) = {node(es[i]) : i \in DOMAIN es}
  BY <1>1 DEF ToSet
<1> QED BY <1>2 DEF node

\* Laying entries out changes nothing but the offsets.
LEMMA LaidOutIs ==
    ASSUME NEW es, IsManifest(es)
    PROVE  /\ IsManifest(LaidOut(es)) /\ Placed(LaidOut(es))
           /\ TreeWith(LaidOut(es)) = TreeWith(es)
           /\ \A plain : Carries(es, plain) => Carries(LaidOut(es), plain)
<1> DEFINE u == LaidOut(es)
           off(i) == IF IsFile(es[i]) THEN TotalSize(SubSeq(es, 1, i - 1)) ELSE es[i].offset
<1>1. /\ Sized(es) /\ IsSeq(es) /\ Len(es) \in Nat /\ DOMAIN es = 1 .. Len(es)
      /\ \A i \in 1 .. Len(es) : IsEntry(es[i])
  BY ManifestIs
<1>2. u = [i \in 1 .. Len(es) |-> [path |-> es[i].path, kind |-> es[i].kind, size |-> es[i].size,
                                   hash |-> es[i].hash, offset |-> off(i)]]
  BY <1>1 DEF LaidOut
<1> HIDE DEF u
<1>3. ASSUME NEW i \in 1 .. Len(es)
      PROVE  off(i) \in Nat
  <2>1. i - 1 \in 0 .. Len(es)
    BY <1>1
  <2>2. TotalSize(SubSeq(es, 1, i - 1)) \in Nat /\ es[i].offset \in Nat
    BY <1>1, <2>1, TotalPrefix DEF IsEntry
  <2> QED BY <2>2
<1>4. DOMAIN u = 1 .. Len(es) /\ u = [i \in 1 .. Len(es) |-> u[i]]
  BY <1>2
<1>5. \A i \in 1 .. Len(es) : /\ u[i] = [path |-> es[i].path, kind |-> es[i].kind, size |-> es[i].size,
                                         hash |-> es[i].hash, offset |-> off(i)]
  BY <1>2
<1> HIDE DEF off
<1>6. \A i \in 1 .. Len(es) : /\ u[i].path = es[i].path /\ u[i].kind = es[i].kind /\ u[i].size = es[i].size
                              /\ u[i].hash = es[i].hash /\ u[i].offset = off(i)
  <2> SUFFICES ASSUME NEW i \in 1 .. Len(es)
               PROVE  /\ u[i].path = es[i].path /\ u[i].kind = es[i].kind /\ u[i].size = es[i].size
                      /\ u[i].hash = es[i].hash /\ u[i].offset = off(i)
    OBVIOUS
  <2>1. u[i] = [path |-> es[i].path, kind |-> es[i].kind, size |-> es[i].size,
                hash |-> es[i].hash, offset |-> off(i)]
    BY <1>5
  <2> QED BY ONLY <2>1
<1>7. IsSeq(u) /\ Len(u) = Len(es)
  BY <1>1, <1>4, FcnIsSeq
<1>8. IsManifest(u)
  <2>1. ASSUME NEW i \in 1 .. Len(es) PROVE IsEntry(u[i])
    BY <1>1, <1>3, <1>5, <1>6 DEF IsEntry
  <2>2. \A i, j \in 1 .. Len(es) : u[i].path = u[j].path => i = j
    BY <1>1, <1>6 DEF IsManifest
  <2> QED BY <1>4, <1>7, <2>1, <2>2 DEF IsManifest
<1>9. ASSUME NEW n \in 0 .. Len(es)
      PROVE  TotalSize(SubSeq(u, 1, n)) = TotalSize(SubSeq(es, 1, n))
  <2>1. /\ IsSeq(SubSeq(u, 1, n)) /\ Len(SubSeq(u, 1, n)) = n
        /\ \A i \in 1 .. n : SubSeq(u, 1, n)[i] = u[i]
    BY <1>7, PrefixGrows
  <2>2. /\ IsSeq(SubSeq(es, 1, n)) /\ Len(SubSeq(es, 1, n)) = n
        /\ \A i \in 1 .. n : SubSeq(es, 1, n)[i] = es[i]
    BY <1>1, PrefixGrows
  <2>3. DOMAIN SubSeq(u, 1, n) = 1 .. n /\ DOMAIN SubSeq(es, 1, n) = 1 .. n
    BY <2>1, <2>2, IsSeqIs
  <2>4. \A i \in 1 .. n : SubSeq(u, 1, n)[i].size = SubSeq(es, 1, n)[i].size
    BY <2>1, <2>2, <1>1, <1>6
  <2> QED BY <2>3, <2>4, SameSizes
<1>10. Placed(u)
  <2> SUFFICES ASSUME NEW i \in 1 .. Len(es), IsFile(u[i])
               PROVE  u[i].offset = TotalSize(SubSeq(u, 1, i - 1))
    BY <1>4 DEF Placed
  <2>1. i - 1 \in 0 .. Len(es)
    BY <1>1
  <2>2. IsFile(es[i])
    BY <1>6 DEF IsFile
  <2> QED BY <2>1, <2>2, <1>6, <1>9 DEF off
<1>11. TreeWith(u) = TreeWith(es)
  <2> DEFINE now(i) == [path |-> u[i].path, kind |-> u[i].kind, content |-> u[i].hash]
             old(i) == [path |-> es[i].path, kind |-> es[i].kind, content |-> es[i].hash]
  <2>1. \A i \in 1 .. Len(es) : now(i) = old(i)
    BY <1>6
  <2>2. TreeWith(u) = {now(i) : i \in 1 .. Len(es)} /\ TreeWith(es) = {old(i) : i \in 1 .. Len(es)}
    BY <1>1, <1>4, TreeWithIs
  <2> HIDE DEF now, old
  <2> QED BY <2>1, <2>2
<1>12. TotalSize(u) = TotalSize(es)
  BY <1>1, <1>4, <1>6, SameSizes
<1>13. ASSUME NEW plain, Carries(es, plain) PROVE Carries(u, plain)
  <2>1. ASSUME NEW i \in 1 .. Len(es)
        PROVE  SubSeq(plain, TotalSize(SubSeq(u, 1, i - 1)) + 1, TotalSize(SubSeq(u, 1, i))) = u[i].hash
    <3>1. i - 1 \in 0 .. Len(es) /\ i \in 0 .. Len(es) /\ i \in DOMAIN es
      BY <1>1
    <3>2. SubSeq(plain, TotalSize(SubSeq(es, 1, i - 1)) + 1, TotalSize(SubSeq(es, 1, i))) = es[i].hash
      BY <3>1, <1>13 DEF Carries
    <3> QED BY <3>1, <3>2, <1>6, <1>9
  <2>2. Len(plain) = TotalSize(u)
    BY <1>12, <1>13 DEF Carries
  <2> QED BY <2>1, <2>2, <1>4 DEF Carries
<1> QED BY <1>8, <1>10, <1>11, <1>13 DEF u

-------------------------------------------------------------------------------
(* The chunked stream.                                                       *)

\* The chunks of a stream cover it, and the last of them is needed.
LEMMA ChunkCountIs ==
    ASSUME NEW n \in Nat, NEW d \in Nat \ {0}
    PROVE  /\ ChunkCount(n, d) \in Nat \ {0}
           /\ (ChunkCount(n, d) - 1) * d <= n /\ n <= ChunkCount(n, d) * d
           /\ n # 0 => (ChunkCount(n, d) - 1) * d < n
           /\ n = 0 => ChunkCount(n, d) = 1
<1>1. CASE n = 0
  <2>1. ChunkCount(n, d) = 1
    BY <1>1 DEF ChunkCount
  <2>2. (1 - 1) * d = 0 /\ 1 * d = d
    OBVIOUS
  <2> QED BY <1>1, <2>1, <2>2
<1>2. CASE n # 0
  <2> DEFINE q == (n + d - 1) \div d
  <2>1. ChunkCount(n, d) = q
    BY <1>2 DEF ChunkCount, DivCeil
  <2>2. \A x \in Nat : x \div d \in Nat /\ (x \div d) * d <= x /\ x < (x \div d) * d + d
    OBVIOUS
  <2>3. n + d - 1 \in Nat
    OBVIOUS
  <2>4. q \in Nat /\ q * d <= n + d - 1 /\ n + d - 1 < q * d + d
    BY <2>2, <2>3
  <2> HIDE DEF q
  <2>5. n <= q * d
    <3>1. q * d \in Nat
      BY <2>4
    <3> QED BY <3>1, <2>4
  <2>6. q # 0
    <3>1. 0 * d = 0
      OBVIOUS
    <3> QED BY <1>2, <2>5, <3>1
  <2>7. (q - 1) * d = q * d - d
    BY <2>4
  <2>8. (q - 1) * d < n
    <3>1. q * d \in Nat
      BY <2>4
    <3> QED BY <3>1, <2>4, <2>7
  <2> QED BY <1>2, <2>1, <2>4, <2>5, <2>6, <2>8
<1> QED BY <1>1, <1>2

\* Multiplication is monotone.
LEMMA TimesMonotone == \A x, y, d \in Nat : x <= y => x * d <= y * d
<1> SUFFICES ASSUME NEW x \in Nat, NEW y \in Nat, NEW d \in Nat, x <= y PROVE x * d <= y * d
  OBVIOUS
<1>1. PICK z \in Nat : y = x + z
  <2>1. y - x \in Nat /\ y = x + (y - x)
    OBVIOUS
  <2> QED BY <2>1
<1>2. y * d = x * d + z * d
  BY <1>1
<1>3. x * d \in Nat /\ z * d \in Nat
  OBVIOUS
<1> QED BY <1>2, <1>3

\* The length of the stream tells the length of what is in it.
LEMMA CiphertextTellsLength ==
    ASSUME NEW a \in Nat, NEW b \in Nat, NEW d \in Nat \ {0},
           DataCiphertextLen(a, d) = DataCiphertextLen(b, d)
    PROVE  a = b
<1>1. ASSUME NEW x \in Nat, NEW y \in Nat, x < y
      PROVE  DataCiphertextLen(x, d) < DataCiphertextLen(y, d)
  <2> DEFINE p == ChunkCount(x, d)
             q == ChunkCount(y, d)
  <2>1. /\ p \in Nat \ {0} /\ q \in Nat \ {0}
        /\ x # 0 => (p - 1) * d < x
        /\ x = 0 => p = 1
        /\ y <= q * d
    BY ChunkCountIs
  <2>2. DataCiphertextLen(x, d) = x + p /\ DataCiphertextLen(y, d) = y + q
    BY <2>1 DEF DataCiphertextLen, Tag
  <2> HIDE DEF p, q
  <2>3. p <= q
    <3>1. CASE x = 0
      BY <2>1, <3>1
    <3>2. CASE x # 0
      <4> SUFFICES ASSUME p > q PROVE FALSE
        BY <2>1
      <4>1. q <= p - 1 /\ p - 1 \in Nat
        BY <2>1
      <4>2. q * d <= (p - 1) * d
        BY <2>1, <4>1, TimesMonotone
      <4>3. q * d \in Nat /\ (p - 1) * d \in Nat
        BY <2>1, <4>1
      <4> QED BY <2>1, <3>2, <4>2, <4>3, <1>1
    <3> QED BY <3>1, <3>2
  <2> QED BY <2>1, <2>2, <2>3, <1>1
<1>2. \A n \in Nat : DataCiphertextLen(n, d) \in Nat
  <2> SUFFICES ASSUME NEW n \in Nat PROVE DataCiphertextLen(n, d) \in Nat
    OBVIOUS
  <2>1. ChunkCount(n, d) \in Nat
    BY ChunkCountIs
  <2> QED BY <2>1 DEF DataCiphertextLen, Tag
<1>3. CASE a < b
  BY <1>1, <1>2, <1>3
<1>4. CASE b < a
  BY <1>1, <1>2, <1>4
<1> QED BY <1>3, <1>4

\* The length of the stream grows by one chunk at a time.
LEMMA DataPrefix ==
    ASSUME NEW d, IsData(d)
    PROVE  /\ DataLen(SubSeq(d, 1, 0)) = 0
           /\ \A n \in 0 .. Len(d) : DataLen(SubSeq(d, 1, n)) \in Nat
           /\ \A n \in 1 .. Len(d) :
                 DataLen(SubSeq(d, 1, n)) = DataLen(SubSeq(d, 1, n - 1)) + (Len(d[n].body) + Tag)
           /\ DataLen(SubSeq(d, 1, Len(d))) = DataLen(d)
<1> DEFINE sizes(x) == [i \in DOMAIN x |-> [size |-> ChunkLen(x[i])]]
           es == sizes(d)
<1>1. IsSeq(d) /\ DOMAIN d = 1 .. Len(d) /\ Len(d) \in Nat /\ \A i \in 1 .. Len(d) : IsSeq(d[i].body)
  BY IsSeqIs DEF IsData, IsChunk
<1>2. \A x : DataLen(x) = TotalSize(sizes(x))
  <2> SUFFICES ASSUME NEW x PROVE DataLen(x) = TotalSize(sizes(x))
    OBVIOUS
  <2>1. [i \in DOMAIN x |-> ChunkLen(x[i])] = [i \in DOMAIN sizes(x) |-> sizes(x)[i].size]
    OBVIOUS
  <2> QED BY <2>1 DEF DataLen, TotalSize
<1>3. \A i \in 1 .. Len(d) : es[i].size = Len(d[i].body) + Tag
  BY <1>1 DEF ChunkLen
<1>4. DOMAIN es = 1 .. Len(d) /\ es = [i \in 1 .. Len(d) |-> es[i]]
  BY <1>1
<1>5. \A x : DOMAIN sizes(x) = DOMAIN x /\ \A i \in DOMAIN x : sizes(x)[i].size = ChunkLen(x[i])
  OBVIOUS
<1>9. es = sizes(d)
  OBVIOUS
<1> HIDE DEF es, sizes
<1>6. IsSeq(es) /\ Len(es) = Len(d)
  BY <1>1, <1>4, FcnIsSeq
<1>7. Sized(es)
  <2>1. \A i \in 1 .. Len(d) : Len(d[i].body) \in Nat
    BY <1>1, IsSeqIs
  <2> QED BY <2>1, <1>3, <1>4, <1>6 DEF Sized, Tag
<1>8. ASSUME NEW n \in 0 .. Len(d)
      PROVE  DataLen(SubSeq(d, 1, n)) = TotalSize(SubSeq(es, 1, n))
  <2>1. /\ IsSeq(SubSeq(d, 1, n)) /\ Len(SubSeq(d, 1, n)) = n
        /\ \A i \in 1 .. n : SubSeq(d, 1, n)[i] = d[i]
    BY <1>1, PrefixGrows
  <2>2. /\ IsSeq(SubSeq(es, 1, n)) /\ Len(SubSeq(es, 1, n)) = n
        /\ \A i \in 1 .. n : SubSeq(es, 1, n)[i] = es[i]
    BY <1>6, PrefixGrows
  <2>3. DOMAIN SubSeq(d, 1, n) = 1 .. n /\ DOMAIN SubSeq(es, 1, n) = 1 .. n
    BY <2>1, <2>2, IsSeqIs
  <2>4. \A i \in 1 .. n : i \in 1 .. Len(d)
    BY <1>1
  <2>5. \A i \in 1 .. n : sizes(SubSeq(d, 1, n))[i].size = SubSeq(es, 1, n)[i].size
    <3> SUFFICES ASSUME NEW i \in 1 .. n PROVE sizes(SubSeq(d, 1, n))[i].size = SubSeq(es, 1, n)[i].size
      OBVIOUS
    <3>1. sizes(SubSeq(d, 1, n))[i].size = ChunkLen(SubSeq(d, 1, n)[i])
      BY <1>5, <2>3
    <3>2. SubSeq(d, 1, n)[i] = d[i] /\ i \in DOMAIN d
      BY <2>1, <2>4, <1>1
    <3>3. es[i].size = ChunkLen(d[i])
      BY <1>5, <1>9, <3>2
    <3>4. SubSeq(es, 1, n)[i] = es[i]
      BY <2>2
    <3> QED BY <3>1, <3>2, <3>3, <3>4
  <2>6. TotalSize(sizes(SubSeq(d, 1, n))) = TotalSize(SubSeq(es, 1, n))
    BY <1>5, <2>3, <2>5, SameSizes
  <2> QED BY <1>2, <2>6
<1>10. SubSeq(d, 1, Len(d)) = d
  BY <1>1, PrefixGrows
<1>11. /\ TotalSize(SubSeq(es, 1, 0)) = 0
       /\ \A n \in 0 .. Len(d) : TotalSize(SubSeq(es, 1, n)) \in Nat
       /\ \A n \in 1 .. Len(d) : TotalSize(SubSeq(es, 1, n)) = TotalSize(SubSeq(es, 1, n - 1)) + es[n].size
  BY <1>6, <1>7, TotalPrefix
<1>12. 0 \in 0 .. Len(d) /\ \A n \in 1 .. Len(d) : n \in 0 .. Len(d) /\ n - 1 \in 0 .. Len(d)
  BY <1>1
<1>13. ASSUME NEW n \in 1 .. Len(d)
       PROVE  DataLen(SubSeq(d, 1, n)) = DataLen(SubSeq(d, 1, n - 1)) + (Len(d[n].body) + Tag)
  BY <1>3, <1>8, <1>11, <1>12
<1>14. DataLen(SubSeq(d, 1, 0)) = 0 /\ \A n \in 0 .. Len(d) : DataLen(SubSeq(d, 1, n)) \in Nat
  BY <1>8, <1>11, <1>12
<1> QED BY <1>10, <1>13, <1>14

\* Every chunk where it belongs.
StreamChunks(st, key, aad, count, chunk) ==
    /\ \A i \in 1 .. count : ChunkOpens(st[i], key, aad, i - 1, i = count)
    /\ \A n \in 0 .. count - 1 : DataLen(SubSeq(st, 1, n)) = n * (chunk + Tag)

\* A stream has the declared length, its plaintext is what was put in, and every
\* chunk opens in its place and at its computed offset.
LEMMA StreamIs ==
    ASSUME NEW key, NEW aad, NEW plain, IsSeq(plain), NEW chunk \in Nat \ {0},
           NEW st, st = Stream(key, aad, plain, chunk)
    PROVE  /\ IsData(st) /\ Len(st) = ChunkCount(Len(plain), chunk)
           /\ DataLen(st) = DataCiphertextLen(Len(plain), chunk)
           /\ PlaintextOf(st) = plain
           /\ StreamChunks(st, key, aad, ChunkCount(Len(plain), chunk), chunk)
<1> DEFINE L == Len(plain)
           N == ChunkCount(L, chunk)
           till(i) == IF i = N THEN L ELSE i * chunk
           body(i) == SubSeq(plain, (i - 1) * chunk + 1, till(i))
<1>1. L \in Nat /\ N \in Nat \ {0} /\ (N - 1) * chunk <= L /\ L <= N * chunk
  <2>1. L \in Nat
    BY IsSeqIs
  <2> QED BY <2>1, ChunkCountIs
<1>2. st = [i \in 1 .. N |-> [key |-> key, n |-> i - 1, last |-> i = N, aad |-> aad, body |-> body(i)]]
  BY DEF Stream
<1> HIDE DEF L, N
<1>3. \A i \in 0 .. N - 1 : i * chunk \in Nat /\ i * chunk <= (N - 1) * chunk /\ i * chunk <= L
  <2> SUFFICES ASSUME NEW i \in 0 .. N - 1
               PROVE  i * chunk \in Nat /\ i * chunk <= (N - 1) * chunk /\ i * chunk <= L
    OBVIOUS
  <2>1. i \in Nat /\ N - 1 \in Nat /\ i <= N - 1
    BY <1>1
  <2>2. i * chunk <= (N - 1) * chunk
    BY <2>1, TimesMonotone
  <2>3. i * chunk \in Nat /\ (N - 1) * chunk \in Nat
    BY <2>1
  <2> QED BY <2>2, <2>3, <1>1
<1>4. \A i \in 1 .. N : i - 1 \in 0 .. N - 1 /\ (i # N => i \in 0 .. N - 1) /\ i \in Nat
  BY <1>1
<1>5. \A i \in 1 .. N : till(i) \in Nat /\ till(i) <= L /\ (i - 1) * chunk \in Nat /\ (i - 1) * chunk <= till(i)
  <2> SUFFICES ASSUME NEW i \in 1 .. N
               PROVE  till(i) \in Nat /\ till(i) <= L /\ (i - 1) * chunk \in Nat /\ (i - 1) * chunk <= till(i)
    OBVIOUS
  <2>1. (i - 1) * chunk \in Nat /\ (i - 1) * chunk <= L
    BY <1>3, <1>4
  <2>2. CASE i = N
    BY <2>1, <2>2, <1>1
  <2>3. CASE i # N
    <3>1. i * chunk \in Nat /\ i * chunk <= L
      BY <2>3, <1>3, <1>4
    <3>2. (i - 1) * chunk <= i * chunk
      <4>1. i - 1 \in Nat /\ i \in Nat /\ i - 1 <= i
        BY <1>1
      <4> QED BY <4>1, TimesMonotone
    <3> QED BY <2>1, <2>3, <3>1, <3>2
  <2> QED BY <2>2, <2>3
<1>6. \A i \in 1 .. N : IsSeq(body(i)) /\ Len(body(i)) = till(i) - (i - 1) * chunk
  <2> SUFFICES ASSUME NEW i \in 1 .. N
               PROVE  IsSeq(body(i)) /\ Len(body(i)) = till(i) - (i - 1) * chunk
    OBVIOUS
  <2> DEFINE a == (i - 1) * chunk
             b == till(i)
  <2>1. a \in Nat /\ b \in Nat /\ b <= Len(plain) /\ a <= b
    BY <1>5 DEF L
  <2> HIDE DEF a, b
  <2>2. IsSeq(SubSeq(plain, a + 1, b)) /\ Len(SubSeq(plain, a + 1, b)) = b - a
    BY <2>1, SegmentIs
  <2> QED BY <2>2 DEF a, b
<1> HIDE DEF body
<1>7. DOMAIN st = 1 .. N /\ st = [i \in 1 .. N |-> st[i]]
  BY <1>2
<1>8. \A i \in 1 .. N : /\ DOMAIN st[i] = {"key", "n", "last", "aad", "body"}
                        /\ st[i].key = key /\ st[i].n = i - 1 /\ st[i].aad = aad /\ st[i].body = body(i)
  BY <1>2
<1>9. \A i \in 1 .. N : st[i].last = (i = N)
  BY <1>2
<1>10. IsSeq(st) /\ Len(st) = N
  BY <1>1, <1>7, FcnIsSeq
<1>11. IsData(st)
  BY <1>6, <1>7, <1>8, <1>10 DEF IsData, IsChunk
<1>12. \A i \in 1 .. N : ChunkOpens(st[i], key, aad, i - 1, i = N)
  BY <1>8, <1>9 DEF ChunkOpens
<1>13. /\ DataLen(SubSeq(st, 1, 0)) = 0
       /\ \A n \in 1 .. N : DataLen(SubSeq(st, 1, n)) = DataLen(SubSeq(st, 1, n - 1)) + (Len(st[n].body) + Tag)
       /\ DataLen(SubSeq(st, 1, N)) = DataLen(st)
  BY <1>10, <1>11, DataPrefix
<1>14. \A n \in 0 .. N - 1 : DataLen(SubSeq(st, 1, n)) = n * (chunk + Tag)
  <2> DEFINE P == {m \in Nat : m <= N - 1 => DataLen(SubSeq(st, 1, m)) = m * (chunk + Tag)}
  <2>1. 0 \in P
    BY <1>13 DEF Tag
  <2>2. ASSUME NEW m \in Nat, m \in P PROVE m + 1 \in P
    <3> SUFFICES ASSUME m + 1 <= N - 1 PROVE DataLen(SubSeq(st, 1, m + 1)) = (m + 1) * (chunk + Tag)
      OBVIOUS
    <3>1. m + 1 \in 1 .. N /\ (m + 1) - 1 = m /\ m <= N - 1 /\ m + 1 # N
      BY <1>1
    <3>2. DataLen(SubSeq(st, 1, m)) = m * (chunk + Tag)
      BY <2>2, <3>1
    <3>3. DataLen(SubSeq(st, 1, m + 1)) = DataLen(SubSeq(st, 1, m)) + (Len(st[m + 1].body) + Tag)
      BY <1>13, <3>1
    <3>4. Len(st[m + 1].body) = chunk
      <4>1. till(m + 1) = (m + 1) * chunk /\ Len(body(m + 1)) = till(m + 1) - m * chunk
        BY <3>1, <1>6
      <4>2. (m + 1) * chunk - m * chunk = chunk
        OBVIOUS
      <4> QED BY <4>1, <4>2, <3>1, <1>8
    <3>5. (m + 1) * (chunk + Tag) = m * (chunk + Tag) + (chunk + Tag)
      BY DEF Tag
    <3> QED BY <3>2, <3>3, <3>4, <3>5
  <2>3. Nat \subseteq P
    <3> HIDE DEF P
    <3> QED BY <2>1, <2>2, InductionOverNat
  <2>4. \A n \in 0 .. N - 1 : n \in Nat /\ n <= N - 1
    BY <1>1
  <2> QED BY <2>3, <2>4
<1>15. DataLen(st) = DataCiphertextLen(L, chunk)
  <2>1. DataLen(SubSeq(st, 1, N - 1)) = (N - 1) * (chunk + Tag)
    BY <1>1, <1>14
  <2>2. DataLen(SubSeq(st, 1, N)) = DataLen(SubSeq(st, 1, N - 1)) + (Len(st[N].body) + Tag)
    BY <1>1, <1>13
  <2>3. Len(st[N].body) = L - (N - 1) * chunk
    <3>1. N \in 1 .. N
      BY <1>1
    <3>2. st[N].body = body(N)
      BY <3>1, <1>8
    <3>3. Len(body(N)) = till(N) - (N - 1) * chunk
      BY <3>1, <1>6
    <3> QED BY <3>2, <3>3
  <2>4. (N - 1) * (chunk + Tag) = (N - 1) * chunk + (N - 1) * Tag
    BY <1>1 DEF Tag
  <2>5. (N - 1) * Tag = N - 1 /\ N * Tag = N
    BY <1>1 DEF Tag
  <2>6. (N - 1) * chunk \in Nat
    BY <1>1
  <2>7. DataCiphertextLen(L, chunk) = L + N * Tag
    BY DEF DataCiphertextLen, N
  <2> QED BY <1>1, <1>13, <2>1, <2>2, <2>3, <2>4, <2>5, <2>6, <2>7 DEF Tag
<1>16. PlaintextOf(st) = plain
  <2> DEFINE ss == [i \in DOMAIN st |-> st[i].body]
             bytes(n) == FlattenSeq(SubSeq(ss, 1, n))
  <2>1. PlaintextOf(st) = FlattenSeq(ss)
    BY DEF PlaintextOf
  <2>2. DOMAIN ss = 1 .. N /\ ss = [i \in 1 .. N |-> ss[i]] /\ \A i \in 1 .. N : ss[i] = body(i)
    BY <1>7, <1>8
  <2> HIDE DEF ss
  <2>3. IsSeq(ss) /\ Len(ss) = N /\ \A i \in DOMAIN ss : IsSeq(ss[i])
    BY <1>1, <1>6, <2>2, FcnIsSeq
  <2>4. /\ bytes(0) = <<>> /\ bytes(N) = FlattenSeq(ss)
        /\ \A n \in 1 .. N : bytes(n) = bytes(n - 1) \o ss[n]
    BY <2>3, FlattenPrefix
  <2> HIDE DEF bytes
  <2> DEFINE P == {m \in Nat : m <= N - 1 => bytes(m) = SubSeq(plain, 1, m * chunk)}
  <2>5. \A a \in 0 .. L : \A b \in a .. L : SubSeq(plain, 1, a) \o SubSeq(plain, a + 1, b) = SubSeq(plain, 1, b)
    <3>1. plain \in Seq(ToSet(plain))
      BY IsSeqIs
    <3> SUFFICES ASSUME NEW a \in 0 .. L, NEW b \in a .. L
                 PROVE  SubSeq(plain, 1, a) \o SubSeq(plain, a + 1, b) = SubSeq(plain, 1, b)
      OBVIOUS
    <3>2. 1 \in 1 .. Len(plain) + 1 /\ a \in 1 - 1 .. Len(plain) /\ b \in a .. Len(plain)
      BY <1>1 DEF L
    <3> QED BY <3>1, <3>2, ConcatAdjacentSubSeq
  <2>6. 0 \in P
    <3>1. SubSeq(plain, 1, 0) = <<>> /\ 0 * chunk = 0
      BY PrefixGrows
    <3> QED BY <3>1, <2>4
  <2>7. ASSUME NEW m \in Nat, m \in P PROVE m + 1 \in P
    <3> SUFFICES ASSUME m + 1 <= N - 1 PROVE bytes(m + 1) = SubSeq(plain, 1, (m + 1) * chunk)
      OBVIOUS
    <3>1. m + 1 \in 1 .. N /\ (m + 1) - 1 = m /\ m <= N - 1 /\ m + 1 # N /\ m \in 0 .. N - 1 /\ m + 1 \in 0 .. N - 1
      BY <1>1
    <3>2. bytes(m) = SubSeq(plain, 1, m * chunk)
      BY <2>7, <3>1
    <3>3. bytes(m + 1) = bytes(m) \o ss[m + 1]
      BY <2>4, <3>1
    <3>4. ss[m + 1] = SubSeq(plain, m * chunk + 1, (m + 1) * chunk)
      BY <2>2, <3>1 DEF body
    <3>5. m * chunk \in 0 .. L /\ (m + 1) * chunk \in m * chunk .. L
      <4>1. m * chunk \in Nat /\ m * chunk <= L /\ (m + 1) * chunk \in Nat /\ (m + 1) * chunk <= L
        BY <1>3, <3>1
      <4>2. m * chunk <= (m + 1) * chunk
        BY TimesMonotone
      <4> HIDE DEF body
      <4> DEFINE a == m * chunk
                 b == (m + 1) * chunk
      <4>3. a \in Nat /\ b \in Nat /\ a <= L /\ b <= L /\ a <= b
        BY <4>1, <4>2
      <4> HIDE DEF a, b
      <4>4. a \in 0 .. L /\ b \in a .. L
        BY <1>1, <4>3
      <4> QED BY <4>4 DEF a, b
    <3> QED BY <2>5, <3>2, <3>3, <3>4, <3>5
  <2>8. bytes(N - 1) = SubSeq(plain, 1, (N - 1) * chunk)
    <3>1. N - 1 \in Nat
      BY <1>1
    <3>2. N - 1 \in P
      <4> HIDE DEF P
      <4> QED BY <3>1, <2>6, <2>7, InductionOverNat
    <3> QED BY <3>1, <3>2
  <2>9. bytes(N) = bytes(N - 1) \o SubSeq(plain, (N - 1) * chunk + 1, L)
    <3>1. ss[N] = SubSeq(plain, (N - 1) * chunk + 1, L)
      BY <1>1, <2>2 DEF body
    <3>2. N \in 1 .. N
      BY <1>1
    <3>3. bytes(N) = bytes(N - 1) \o ss[N]
      BY <3>2, <2>4
    <3> QED BY <3>1, <3>3
  <2>10. bytes(N) = SubSeq(plain, 1, L)
    <3> DEFINE a == (N - 1) * chunk
    <3>1. a \in Nat /\ a <= L
      BY <1>1
    <3> HIDE DEF a
    <3>2. a \in 0 .. L /\ L \in a .. L
      BY <1>1, <3>1
    <3>3. SubSeq(plain, 1, a) \o SubSeq(plain, a + 1, L) = SubSeq(plain, 1, L)
      BY <2>5, <3>2
    <3> QED BY <2>8, <2>9, <3>3 DEF a
  <2>11. SubSeq(plain, 1, L) = plain
    BY PrefixGrows DEF L
  <2> QED BY <2>1, <2>4, <2>10, <2>11
<1> QED BY <1>10, <1>11, <1>12, <1>14, <1>15, <1>16 DEF L, N, StreamChunks

-------------------------------------------------------------------------------
(* What is written.                                                          *)

\* The fields of a header.
LEMMA HeaderIs ==
    ASSUME NEW key, NEW es, NEW total, NEW author, NEW to, NEW opt
    PROVE  LET h == HeaderFor(key, es, total, author, to, opt)
           IN  /\ DOMAIN h = {"suite", "nonce", "sender", "fpr", "recipients", "manifestLen", "chunk", "dataLen"}
               /\ h.suite = opt.suite /\ h.nonce = NonceLen(opt.suite) /\ h.sender = author /\ h.fpr = author
               /\ h.recipients = {WrapForRecipient(key, r, opt.suite) : r \in to}
               /\ h.manifestLen = Len(es) + Tag /\ h.chunk = opt.chunk
               /\ h.dataLen = DataCiphertextLen(total, opt.chunk)
<1> DEFINE w == {WrapForRecipient(key, r, opt.suite) : r \in to}
           n == NonceLen(opt.suite)
           d == DataCiphertextLen(total, opt.chunk)
           h == HeaderFor(key, es, total, author, to, opt)
<1>1. h = [suite |-> opt.suite, nonce |-> n, sender |-> author, fpr |-> author, recipients |-> w,
           manifestLen |-> Len(es) + Tag, chunk |-> opt.chunk, dataLen |-> d]
  BY DEF HeaderFor
<1> HIDE DEF h, w, n, d
<1>2. /\ DOMAIN h = {"suite", "nonce", "sender", "fpr", "recipients", "manifestLen", "chunk", "dataLen"}
      /\ h.suite = opt.suite /\ h.nonce = n /\ h.sender = author /\ h.fpr = author
      /\ h.recipients = w
      /\ h.manifestLen = Len(es) + Tag /\ h.chunk = opt.chunk
      /\ h.dataLen = d
  BY <1>1
<1> QED BY <1>2 DEF h, w, n, d

\* The fields of a signed container.
LEMMA SignedIs ==
    ASSUME NEW author, NEW x
    PROVE  LET c == SignedBy(author, x)
           IN  /\ c = [f \in DOMAIN c |-> c[f]] /\ DOMAIN c = {"pre", "hdr", "man", "data", "ed", "pq"}
               /\ c.pre = x.pre /\ c.hdr = x.hdr /\ c.man = x.man /\ c.data = x.data
               /\ c.ed = SignatureOf(author, Body(c))
               /\ IsHybrid(c.hdr.suite) => c.pq = {c.ed}
               /\ ~IsHybrid(c.hdr.suite) => c.pq = {}
<1> DEFINE c == SignedBy(author, x)
           sig == SignatureOf(author, Body(x))
           pq == IF IsHybrid(x.hdr.suite) THEN {sig} ELSE {}
<1>1. c = [pre |-> x.pre, hdr |-> x.hdr, man |-> x.man, data |-> x.data, ed |-> sig, pq |-> pq]
  BY DEF SignedBy
<1> HIDE DEF c, sig, pq
<1>2. /\ c = [f \in DOMAIN c |-> c[f]] /\ DOMAIN c = {"pre", "hdr", "man", "data", "ed", "pq"}
      /\ c.pre = x.pre /\ c.hdr = x.hdr /\ c.man = x.man /\ c.data = x.data /\ c.ed = sig /\ c.pq = pq
  BY <1>1
<1>3. Body(c) = Body(x)
  BY <1>2 DEF Body
<1>4. /\ c.ed = SignatureOf(author, Body(c))
      /\ IsHybrid(c.hdr.suite) => c.pq = {c.ed}
      /\ ~IsHybrid(c.hdr.suite) => c.pq = {}
  BY <1>2, <1>3 DEF sig, pq
<1> QED BY <1>2, <1>4 DEF c

\* The fields of a written container.
LEMMA WrittenFields ==
    ASSUME NEW key, NEW es, NEW plain, NEW author, NEW to, NEW opt,
           NEW c, c = Written(key, es, plain, author, to, opt)
    PROVE      /\ c = [f \in DOMAIN c |-> c[f]] /\ DOMAIN c = {"pre", "hdr", "man", "data", "ed", "pq"}
               /\ c.pre = "v1"
               /\ c.hdr = HeaderFor(key, es, TotalSize(es), author, to, opt)
               /\ c.man = SealedManifest(key, c.hdr, es)
               /\ DOMAIN c.man = {"key", "aad", "body"}
               /\ c.man.key = key /\ c.man.aad = c.hdr /\ c.man.body = es
               /\ c.data = Stream(key, c.hdr, plain, opt.chunk)
               /\ c.ed = SignatureOf(author, Body(c))
               /\ IsHybrid(c.hdr.suite) => c.pq = {c.ed}
               /\ ~IsHybrid(c.hdr.suite) => c.pq = {}
<1> DEFINE hdr == HeaderFor(key, es, TotalSize(es), author, to, opt)
           man == SealedManifest(key, hdr, es)
           data == Stream(key, hdr, plain, opt.chunk)
           x == [pre |-> "v1", hdr |-> hdr, man |-> man, data |-> data]
<1>1. c = SignedBy(author, x)
  BY DEF Written
<1>2. man = [key |-> key, aad |-> hdr, body |-> es]
  BY DEF SealedManifest
<1> HIDE DEF hdr, man, data
<1>3. x.pre = "v1" /\ x.hdr = hdr /\ x.man = man /\ x.data = data
  OBVIOUS
<1> HIDE DEF x
<1>4. /\ c = [f \in DOMAIN c |-> c[f]] /\ DOMAIN c = {"pre", "hdr", "man", "data", "ed", "pq"}
      /\ c.pre = x.pre /\ c.hdr = x.hdr /\ c.man = x.man /\ c.data = x.data
      /\ c.ed = SignatureOf(author, Body(c))
      /\ IsHybrid(c.hdr.suite) => c.pq = {c.ed}
      /\ ~IsHybrid(c.hdr.suite) => c.pq = {}
  BY <1>1, SignedIs
<1>5. DOMAIN man = {"key", "aad", "body"} /\ man.key = key /\ man.aad = hdr /\ man.body = es
  BY <1>2
<1>6. c.pre = "v1" /\ c.hdr = hdr /\ c.man = man /\ c.data = data
  BY <1>3, <1>4
<1>7. man = SealedManifest(key, hdr, es) /\ data = Stream(key, hdr, plain, opt.chunk)
  BY DEF man, data
<1> HIDE DEF man
<1> QED BY <1>4, <1>5, <1>6, <1>7 DEF hdr

\* The options an export is asked for.
LEMMA OptionIs ==
    ASSUME NEW opt \in Options
    PROVE  opt.suite \in {"classic", "aes", "hybrid"} /\ opt.chunk \in Nat
           /\ opt = [suite |-> opt.suite, chunk |-> opt.chunk]
BY ContainerAssumption

\* A written container has the lengths its header declares.
LEMMA WrittenIs ==
    ASSUME NEW key, NEW es, NEW plain, NEW author, NEW to, NEW opt \in Options,
           IsManifest(es), IsSeq(plain), Len(plain) = TotalSize(es), ~PlanRefused(author, to, opt),
           NEW c, c = Written(key, es, plain, author, to, opt)
    PROVE      /\ IsData(c.data) /\ PlaintextOf(c.data) = plain
               /\ c.hdr.dataLen = DataLen(c.data) /\ c.hdr.dataLen \in Nat \ {0}
               /\ c.hdr.manifestLen = ManifestLen(c.man) /\ c.hdr.manifestLen \in Nat \ {0}
               /\ c.hdr.suite = opt.suite /\ c.hdr.chunk = opt.chunk /\ c.hdr.chunk \in 1 .. MaxChunk
               /\ HeaderValid(c)
               /\ ActualLen(c) = ContainerLen(c.hdr)
<1> DEFINE L == Len(plain)
<1>1. opt.suite \in {"classic", "aes", "hybrid"} /\ opt.chunk \in Nat
  BY OptionIs
<1>2. opt.chunk \in 1 .. MaxChunk /\ opt.chunk \in Nat \ {0} /\ MaxChunk \in Nat
  BY <1>1, ContainerAssumption DEF PlanRefused
<1>3. /\ c.pre = "v1"
      /\ c.hdr = HeaderFor(key, es, TotalSize(es), author, to, opt)
      /\ c.man.body = es
      /\ c.data = Stream(key, c.hdr, plain, opt.chunk)
      /\ IsHybrid(c.hdr.suite) => c.pq = {c.ed}
      /\ ~IsHybrid(c.hdr.suite) => c.pq = {}
  BY WrittenFields
<1>4. /\ c.hdr.suite = opt.suite /\ c.hdr.nonce = NonceLen(opt.suite)
      /\ c.hdr.manifestLen = Len(es) + Tag /\ c.hdr.chunk = opt.chunk
      /\ c.hdr.dataLen = DataCiphertextLen(TotalSize(es), opt.chunk)
  BY <1>3, HeaderIs
<1>5. IsData(c.data) /\ PlaintextOf(c.data) = plain /\ DataLen(c.data) = DataCiphertextLen(L, opt.chunk)
  BY <1>2, <1>3, StreamIs
<1>6. L \in Nat /\ Len(es) \in Nat
  BY IsSeqIs, ManifestIs
<1>7. DataCiphertextLen(L, opt.chunk) \in Nat \ {0}
  <2>1. ChunkCount(L, opt.chunk) \in Nat \ {0}
    BY <1>2, <1>6, ChunkCountIs
  <2> QED BY <1>6, <2>1 DEF DataCiphertextLen, Tag
<1>8. c.hdr.dataLen = DataLen(c.data) /\ c.hdr.dataLen \in Nat \ {0}
  BY <1>4, <1>5, <1>7
<1>9. c.hdr.manifestLen = ManifestLen(c.man) /\ c.hdr.manifestLen \in Nat \ {0}
  BY <1>3, <1>4, <1>6 DEF ManifestLen, Tag
<1>10. 1 + Cardinality(c.pq) = TrailerLen(c.hdr.suite)
  <2>1. Cardinality({c.ed}) = 1 /\ Cardinality({}) = 0
    BY FS_Singleton, FS_EmptySet
  <2>2. CASE IsHybrid(c.hdr.suite)
    <3>1. c.pq = {c.ed} /\ TrailerLen(c.hdr.suite) = 2
      BY <1>3, <2>2 DEF TrailerLen
    <3>2. Cardinality(c.pq) = 1
      BY ONLY <3>1, <2>1
    <3> QED BY <3>1, <3>2
  <2>3. CASE ~IsHybrid(c.hdr.suite)
    <3>1. c.pq = {} /\ TrailerLen(c.hdr.suite) = 1
      BY <1>3, <2>3 DEF TrailerLen
    <3>2. Cardinality(c.pq) = 0
      BY ONLY <3>1, <2>1
    <3> QED BY <3>1, <3>2
  <2> QED BY <2>2, <2>3
<1>11. ActualLen(c) = ContainerLen(c.hdr)
  <2>1. Cardinality(c.pq) \in Nat /\ TrailerLen(c.hdr.suite) \in Nat
    <3>1. Cardinality({c.ed}) = 1 /\ Cardinality({}) = 0
      BY FS_Singleton, FS_EmptySet
    <3>2. c.pq = {c.ed} \/ c.pq = {}
      BY <1>3
    <3>3. Cardinality(c.pq) \in {0, 1}
      BY ONLY <3>1, <3>2
    <3>4. TrailerLen(c.hdr.suite) \in {1, 2}
      BY DEF TrailerLen
    <3> QED BY ONLY <3>3, <3>4
  <2> QED BY <1>8, <1>9, <1>10, <2>1 DEF ActualLen, ContainerLen
<1>12. HeaderValid(c)
  BY <1>2, <1>3, <1>4, <1>8, <1>9, <1>11 DEF HeaderValid, Tag
<1> QED BY <1>2, <1>4, <1>5, <1>8, <1>9, <1>11, <1>12

-------------------------------------------------------------------------------
(* Writing.                                                                  *)

\* Writing sound entries and bytes keeps the invariant.
LEMMA WriteKeeps ==
    ASSUME NEW es, NEW plain, NEW want, NEW torn, NEW author \in Ids, NEW to, NEW opt \in Options,
           ContainerIInv, Sound(es, plain, want, torn), WriteContainer(es, plain, want, torn, author, to, opt)
    PROVE  ContainerIInv'
<1> DEFINE k == Len(made) + 1
           c == Written(k, es, plain, author, to, opt)
           m == [to |-> to, want |-> want, torn |-> torn, len |-> ContainerLen(c.hdr), file |-> c]
<1>1. disk' = c /\ damage' = 0 /\ made' = Append(made, m) /\ local' = local /\ ~PlanRefused(author, to, opt)
  BY DEF WriteContainer
<1>2. Len(plain) = TotalSize(es)
  <2>1. Len(plain) \in Nat
    BY IsSeqIs DEF Sound
  <2>2. TotalSize(es) \in Nat
    <3>1. Sized(es)
      BY ManifestIs DEF Sound
    <3> QED BY <3>1, TotalPrefix, TotalAppend DEF Sized
  <2>3. opt.chunk \in Nat \ {0}
    BY OptionIs DEF WriteContainer, PlanRefused
  <2>4. DataCiphertextLen(Len(plain), opt.chunk) = DataCiphertextLen(TotalSize(es), opt.chunk)
    BY DEF WriteContainer
  <2> QED BY <2>1, <2>2, <2>3, <2>4, CiphertextTellsLength
<1>3. IsSeq(made) /\ Len(made) \in Nat /\ DOMAIN made = 1 .. Len(made)
  BY IsSeqIs DEF ContainerIInv, MadeInv
<1>4. k \in Nat \ {0}
  BY <1>3
<1>5. c = Written(k, es, plain, author, to, opt)
  OBVIOUS
<1>6. m.to = to /\ m.want = want /\ m.torn = torn /\ m.len = ContainerLen(c.hdr) /\ m.file = c
  OBVIOUS
<1> HIDE DEF c
<1>7. /\ c = [f \in DOMAIN c |-> c[f]] /\ DOMAIN c = {"pre", "hdr", "man", "data", "ed", "pq"}
      /\ c.hdr = HeaderFor(k, es, TotalSize(es), author, to, opt)
      /\ DOMAIN c.man = {"key", "aad", "body"} /\ c.man.body = es
      /\ IsHybrid(c.hdr.suite) => c.pq = {c.ed}
      /\ ~IsHybrid(c.hdr.suite) => c.pq = {}
  BY <1>5, WrittenFields
<1>8. DOMAIN c.hdr = {"suite", "nonce", "sender", "fpr", "recipients", "manifestLen", "chunk", "dataLen"}
      /\ c.hdr.sender = author
  BY <1>7, HeaderIs
<1>9. IsData(c.data) /\ PlaintextOf(c.data) = plain
  BY <1>1, <1>2, <1>5, WrittenIs DEF Sound
<1> HIDE DEF m
<1>10. MadeOk(k, m)
  BY <1>1, <1>2, <1>5, <1>6, <1>7, <1>8, <1>9 DEF MadeOk
<1>11. /\ IsSeq(made') /\ Len(made') = k /\ DOMAIN made' = 1 .. k
       /\ \A i \in DOMAIN made : made'[i] = made[i]
       /\ made'[k] = m
  <2>1. /\ IsSeq(Append(made, m)) /\ Len(Append(made, m)) = Len(made) + 1
        /\ \A i \in 1 .. Len(made) : Append(made, m)[i] = made[i]
        /\ Append(made, m)[Len(made) + 1] = m
    BY <1>3, AppendElements
  <2>2. IsSeq(made') /\ Len(made') = k /\ (\A i \in DOMAIN made : made'[i] = made[i]) /\ made'[k] = m
    BY <2>1, <1>1, <1>3
  <2> QED BY <2>2, IsSeqIs
<1>12. \A i \in DOMAIN made' : i = k \/ i \in DOMAIN made
  BY <1>3, <1>11
<1>13. MadeInv'
  <2>1. \A i \in DOMAIN made' : MadeOk(i, made'[i])
    BY <1>10, <1>11, <1>12 DEF ContainerIInv, MadeInv
  <2> QED BY <2>1, <1>11 DEF MadeInv
<1>14. k \in DOMAIN made' /\ disk' = made'[k].file /\ made'[Len(made')].file = disk'
  BY <1>1, <1>4, <1>6, <1>11
<1>15. DiskInv'
  <2>1. made' # <<>>
    BY <1>14
  <2>2. disk'.pq = {} \/ \E x \in disk'.pq : disk'.pq = {x}
    BY <1>1, <1>7
  <2>3. \A x \in ToSet(disk'.data) : IsChunk(x) /\ x \in ToSet(made'[k].file.data)
    BY <1>1, <1>9, <1>14 DEF IsData, ToSet
  <2>4. IsSeq(disk'.data)
    BY <1>1, <1>9 DEF IsData
  <2>5. HeaderOk(disk.hdr)' /\ ManifestOk(disk.man)' /\ SignatureMade(disk.ed)' /\ AtMostOne(disk'.pq)
    BY <1>1, <1>7, <1>8, <1>14, <2>2 DEF HeaderOk, ManifestOk, SignatureMade, AtMostOne
  <2>6. DataOk(disk.data)'
    BY <1>14, <2>3, <2>4 DEF DataOk, ChunkOk
  <2> QED BY <1>1, <1>7, <1>14, <2>1, <2>5, <2>6 DEF DiskInv, PartsOk
<1>16. damage' \in Nat /\ IsTree(local')
  BY <1>1 DEF ContainerIInv
<1> QED BY <1>13, <1>15, <1>16 DEF ContainerIInv

-------------------------------------------------------------------------------
(* What is known of the containers written, and of one that opens.           *)

\* What is known of a container that was written.
LEMMA MadeIs ==
    ASSUME MadeInv, NEW k \in DOMAIN made, NEW c, c = made[k].file,
           NEW total, total = TotalSize(c.man.body)
    PROVE  /\ k \in Nat \ {0}
           /\ DOMAIN c = {"pre", "hdr", "man", "data", "ed", "pq"} /\ c.pre = "v1"
           /\ DOMAIN c.hdr = {"suite", "nonce", "sender", "fpr", "recipients", "manifestLen", "chunk", "dataLen"}
           /\ DOMAIN c.man = {"key", "aad", "body"}
           /\ c.man.key = k /\ c.man.aad = c.hdr
           /\ IsManifest(c.man.body) /\ Placed(c.man.body) /\ total \in Nat
           /\ c.hdr.fpr = c.hdr.sender
           /\ c.hdr.chunk \in Nat \ {0} /\ c.hdr.suite \in {"classic", "aes", "hybrid"}
           /\ c.hdr.dataLen = DataCiphertextLen(total, c.hdr.chunk)
           /\ IsData(c.data) /\ Len(c.data) = ChunkCount(total, c.hdr.chunk)
           /\ StreamChunks(c.data, k, c.hdr, ChunkCount(total, c.hdr.chunk), c.hdr.chunk)
           /\ IsSeq(PlaintextOf(c.data)) /\ Len(PlaintextOf(c.data)) = total
           /\ c.ed = SignatureOf(c.hdr.sender, Body(c))
           /\ IsHybrid(c.hdr.suite) => /\ c.pq = {c.ed}
                                       /\ c.hdr.sender \in PqIds /\ made[k].to \subseteq PqIds
           /\ ~IsHybrid(c.hdr.suite) => c.pq = {}
           /\ HeaderValid(c) /\ ActualLen(c) = made[k].len
<1> DEFINE es == c.man.body
           plain == PlaintextOf(c.data)
           to == made[k].to
           author == c.hdr.sender
<1>1. MadeOk(k, made[k])
  BY DEF MadeInv
<1>2. /\ Sound(es, plain, made[k].want, made[k].torn) /\ Len(plain) = TotalSize(es)
      /\ made[k].len = ContainerLen(c.hdr)
  BY <1>1 DEF MadeOk
<1>3. PICK opt \in Options : ~PlanRefused(author, to, opt) /\ c = Written(k, es, plain, author, to, opt)
  BY <1>1 DEF MadeOk
<1>4. k \in Nat \ {0}
  BY IsSeqIs DEF MadeInv
<1> HIDE DEF es, plain, to, author
<1>5. IsManifest(es) /\ Placed(es) /\ IsSeq(plain) /\ Len(plain) = total
  BY <1>2 DEF Sound, es
<1>6. total \in Nat
  BY <1>5, IsSeqIs
<1>7. opt.chunk \in Nat \ {0} /\ opt.suite \in {"classic", "aes", "hybrid"}
      /\ (IsHybrid(opt.suite) => author \in PqIds /\ to \subseteq PqIds)
  BY <1>3, OptionIs DEF PlanRefused
<1>8. /\ DOMAIN c = {"pre", "hdr", "man", "data", "ed", "pq"} /\ c.pre = "v1"
      /\ c.hdr = HeaderFor(k, es, TotalSize(es), author, to, opt)
      /\ DOMAIN c.man = {"key", "aad", "body"} /\ c.man.key = k /\ c.man.aad = c.hdr
      /\ c.data = Stream(k, c.hdr, plain, opt.chunk)
      /\ c.ed = SignatureOf(author, Body(c))
      /\ IsHybrid(c.hdr.suite) => c.pq = {c.ed}
      /\ ~IsHybrid(c.hdr.suite) => c.pq = {}
  BY <1>3, WrittenFields
<1>9. /\ DOMAIN c.hdr = {"suite", "nonce", "sender", "fpr", "recipients", "manifestLen", "chunk", "dataLen"}
      /\ c.hdr.suite = opt.suite /\ c.hdr.sender = author /\ c.hdr.fpr = author
      /\ c.hdr.recipients = {WrapForRecipient(k, r, opt.suite) : r \in to}
      /\ c.hdr.chunk = opt.chunk
      /\ c.hdr.dataLen = DataCiphertextLen(total, opt.chunk)
  <2>1. total = TotalSize(es)
    BY DEF es
  <2> QED BY <1>8, <2>1, HeaderIs
<1>10. /\ IsData(c.data) /\ Len(c.data) = ChunkCount(total, opt.chunk)
       /\ StreamChunks(c.data, k, c.hdr, ChunkCount(total, opt.chunk), opt.chunk)
  BY <1>5, <1>7, <1>8, StreamIs
<1>11. HeaderValid(c) /\ ActualLen(c) = made[k].len
  <2>1. Len(plain) = TotalSize(es)
    BY <1>5 DEF es
  <2> QED BY <1>2, <1>3, <1>5, <2>1, WrittenIs
<1>13. IsHybrid(c.hdr.suite) => c.hdr.sender \in PqIds /\ made[k].to \subseteq PqIds
  BY <1>7, <1>9 DEF to
<1>14. c.ed = SignatureOf(c.hdr.sender, Body(c)) /\ c.hdr.fpr = c.hdr.sender
  BY <1>8, <1>9
<1>15. IsManifest(c.man.body) /\ Placed(c.man.body) /\ IsSeq(PlaintextOf(c.data)) /\ Len(PlaintextOf(c.data)) = total
  BY <1>5 DEF es, plain
<1> QED BY <1>4, <1>6, <1>7, <1>8, <1>9, <1>10, <1>11, <1>13, <1>14, <1>15

\* Its stanzas hold its own content key, one for each of its recipients.
LEMMA StanzasOf ==
    ASSUME MadeInv, NEW k \in DOMAIN made
    PROVE  /\ \A s \in made[k].file.hdr.recipients :
                 /\ s.cek = k /\ s.fpr \in made[k].to
                 /\ s = WrapForRecipient(k, s.fpr, made[k].file.hdr.suite)
           /\ \A r \in made[k].to : WrapForRecipient(k, r, made[k].file.hdr.suite) \in made[k].file.hdr.recipients
<1> DEFINE c == made[k].file
           es == c.man.body
           plain == PlaintextOf(c.data)
           to == made[k].to
           author == c.hdr.sender
<1>1. PICK opt \in Options : c = Written(k, es, plain, author, to, opt)
  BY DEF MadeInv, MadeOk
<1> HIDE DEF c, es, plain, to, author
<1>2. c.hdr = HeaderFor(k, es, TotalSize(es), author, to, opt)
  BY <1>1, WrittenFields
<1> DEFINE wraps == {WrapForRecipient(k, r, opt.suite) : r \in to}
<1>3. c.hdr.suite = opt.suite /\ c.hdr.recipients = wraps
  BY <1>2, HeaderIs
<1>4. \A r : WrapForRecipient(k, r, opt.suite).cek = k /\ WrapForRecipient(k, r, opt.suite).fpr = r
  BY DEF WrapForRecipient
<1>5. /\ \A s \in wraps : s.cek = k /\ s.fpr \in to /\ s = WrapForRecipient(k, s.fpr, opt.suite)
      /\ \A r \in to : WrapForRecipient(k, r, opt.suite) \in wraps
  BY <1>4
<1> HIDE DEF wraps
<1> QED BY <1>3, <1>5 DEF c, to

\* A container that opens, damaged or not, has the header and the manifest of the
\* container whose content key a stanza gave, and was opened by one of its recipients:
\* the manifest is sealed under that key with the whole header as associated data.
LEMMA OpenedIs ==
    ASSUME ContainerIInv, NEW me, OpensLazily(disk, me)
    PROVE  /\ CekOf(disk, me) \in DOMAIN made
           /\ disk.man = made[CekOf(disk, me)].file.man /\ disk.hdr = made[CekOf(disk, me)].file.hdr
           /\ me \in made[CekOf(disk, me)].to
<1>1. disk # NoFile
  BY DEF OpensLazily
<1>2. PICK j \in DOMAIN made : disk.hdr.recipients \subseteq made[j].file.hdr.recipients
  BY <1>1 DEF ContainerIInv, DiskInv, PartsOk, HeaderOk
<1>3. \A s \in disk.hdr.recipients : s.cek = j /\ s.fpr \in made[j].to
  BY <1>2, StanzasOf DEF ContainerIInv
<1>4. PICK s \in StanzaFor(disk, me) : ManifestOpens(disk.man, s.cek, disk.hdr)
  BY DEF OpensLazily
<1>5. s \in disk.hdr.recipients /\ s.fpr = me
  BY <1>4 DEF StanzaFor
<1>6. (CHOOSE t \in StanzaFor(disk, me) : TRUE) \in StanzaFor(disk, me)
  BY <1>4
<1>7. CekOf(disk, me) = j
  BY <1>3, <1>6 DEF CekOf, StanzaFor
<1>8. disk.man.key = j /\ disk.man.aad = disk.hdr
  BY <1>3, <1>4, <1>5 DEF ManifestOpens
<1>9. disk.man.key # 0
  BY <1>8, MadeIs DEF ContainerIInv
<1>10. PICK k \in DOMAIN made : disk.man = made[k].file.man
  BY <1>1, <1>9 DEF ContainerIInv, DiskInv, PartsOk, ManifestOk
<1>11. made[k].file.man.key = k /\ made[k].file.man.aad = made[k].file.hdr
  BY MadeIs DEF ContainerIInv
<1>12. k = j
  BY <1>8, <1>10, <1>11
<1> QED BY <1>3, <1>5, <1>7, <1>8, <1>10, <1>11, <1>12

\* A chunk that opens under the key of a container is that container's chunk at this place.
LEMMA ChunkIs ==
    ASSUME ContainerIInv, disk # NoFile, NEW k \in DOMAIN made, NEW i \in DOMAIN disk.data, NEW n \in Nat, NEW last,
           ChunkOpens(disk.data[i], k, made[k].file.hdr, n, last)
    PROVE  /\ n + 1 \in DOMAIN made[k].file.data /\ disk.data[i] = made[k].file.data[n + 1]
           /\ last = (n + 1 = Len(made[k].file.data))
<1> DEFINE c == disk.data[i]
<1>1. c.key = k /\ c.n = n /\ c.last = last
  BY DEF ChunkOpens
<1>2. c.key # 0
  BY <1>1, MadeIs DEF ContainerIInv
<1>3. PICK j \in DOMAIN made : c \in ToSet(made[j].file.data)
  BY <1>2 DEF ContainerIInv, DiskInv, PartsOk, DataOk, ChunkOk, ToSet
<1> DEFINE st == made[j].file.data
           N == Len(st)
<1>4. PICK x \in DOMAIN st : c = st[x]
  BY <1>3 DEF ToSet
<1>5. IsSeq(st) /\ StreamChunks(st, j, made[j].file.hdr, N, made[j].file.hdr.chunk)
  BY MadeIs DEF ContainerIInv, IsData
<1>6. DOMAIN st = 1 .. N /\ N \in Nat
  BY <1>5, IsSeqIs
<1>7. st[x].key = j /\ st[x].n = x - 1 /\ st[x].last = (x = N)
  BY <1>4, <1>5, <1>6 DEF StreamChunks, ChunkOpens
<1>8. j = k /\ x - 1 = n
  BY <1>1, <1>4, <1>7
<1>9. x = n + 1
  BY <1>4, <1>6, <1>8
<1> QED BY <1>1, <1>4, <1>7, <1>8, <1>9

\* The post-quantum part of a trailer holds one signature or none.
LEMMA PqCount ==
    ASSUME NEW S, S = {} \/ \E x \in S : S = {x}
    PROVE  Cardinality(S) \in {0, 1} /\ (Cardinality(S) = 0 => S = {}) /\ (Cardinality(S) = 1 => \E x \in S : S = {x})
<1>1. Cardinality({}) = 0
  BY FS_EmptySet
<1>2. \A x : Cardinality({x}) = 1
  BY FS_Singleton
<1>3. CASE S = {}
  BY ONLY <1>1, <1>3
<1>4. CASE \E x \in S : S = {x}
  <2>1. PICK x \in S : S = {x}
    BY <1>4
  <2>2. Cardinality(S) = 1
    BY ONLY <2>1, <1>2
  <2> QED BY <2>1, <2>2
<1> QED BY <1>3, <1>4

\* What a stream that opens to its end gives: all that was put in.
LEMMA SourceIs ==
    ASSUME ContainerIInv, NEW me, SourceReads(me)
    PROVE  Source = PlaintextOf(made[CekOf(disk, me)].file.data)
<1> DEFINE k == CekOf(disk, me)
           c == made[k].file
           st == c.data
           d == disk.data
           total == TotalSize(c.man.body)
           N == ChunkCount(total, c.hdr.chunk)
<1>1. OpensLazily(disk, me) /\ StreamOpens(d, k, disk.hdr)
  BY DEF SourceReads
<1>2. k \in DOMAIN made /\ disk.man = c.man /\ disk.hdr = c.hdr
  BY <1>1, OpenedIs
<1>3. disk # NoFile /\ HeaderValid(disk)
  BY <1>1 DEF OpensLazily
<1>4. IsData(d) /\ (disk.pq = {} \/ \E x \in disk.pq : disk.pq = {x})
  BY <1>3 DEF ContainerIInv, DiskInv, PartsOk, AtMostOne, DataOk, ChunkOk, IsData, ToSet
<1> HIDE DEF k
<1>5. c = made[k].file /\ total = TotalSize(c.man.body)
  OBVIOUS
<1>6. MadeInv
  BY DEF ContainerIInv
<1> HIDE DEF c, total
<1>7. /\ total \in Nat /\ c.hdr.chunk \in Nat \ {0}
      /\ c.hdr.dataLen = DataCiphertextLen(total, c.hdr.chunk)
      /\ IsData(st) /\ Len(st) = N
      /\ IsSeq(PlaintextOf(st)) /\ Len(PlaintextOf(st)) = total
  BY <1>2, <1>5, <1>6, MadeIs
<1>8. N \in Nat \ {0}
  BY <1>7, ChunkCountIs
<1>9. IsSeq(d) /\ Len(d) \in Nat /\ DOMAIN d = 1 .. Len(d) /\ IsSeq(st) /\ DOMAIN st = 1 .. N
  BY <1>4, <1>7, IsSeqIs DEF IsData
<1>10. \A i \in DOMAIN d : i \in DOMAIN st /\ d[i] = st[i] /\ (i = Len(d)) = (i = N)
  <2> SUFFICES ASSUME NEW i \in DOMAIN d PROVE i \in DOMAIN st /\ d[i] = st[i] /\ (i = Len(d)) = (i = N)
    OBVIOUS
  <2>1. ChunkOpens(d[i], k, made[k].file.hdr, i - 1, i = Len(d))
    BY <1>1, <1>2, <1>5 DEF StreamOpens
  <2>2. i - 1 \in Nat /\ i - 1 + 1 = i
    BY <1>9
  <2>3. /\ i - 1 + 1 \in DOMAIN made[k].file.data /\ d[i] = made[k].file.data[i - 1 + 1]
        /\ (i = Len(d)) = (i - 1 + 1 = Len(made[k].file.data))
    BY <1>2, <1>3, <2>1, <2>2, ChunkIs
  <2> QED BY <2>2, <2>3, <1>5, <1>7
<1>11. CASE Len(d) # 0
  <2>1. Len(d) \in DOMAIN d
    BY <1>9, <1>11
  <2>2. Len(d) = N
    BY <1>10, <2>1
  <2>3. d = st
    BY <1>7, <1>9, <1>10, <2>2, SameSeq
  <2> QED BY <2>3, <1>5 DEF Source, k
<1>12. CASE Len(d) = 0
  <2>1. d = <<>>
    BY <1>9, <1>12, EmptyIsSeq, SameSeq
  <2>2. DataLen(d) = 0
    <3>1. [i \in DOMAIN <<>> |-> ChunkLen(<<>>[i])] = <<>>
      OBVIOUS
    <3> QED BY <2>1, <3>1, SumEmpty DEF DataLen
  <2>3. c.hdr.dataLen = total + N
    <3>1. N * Tag = N
      BY <1>8 DEF Tag
    <3> QED BY <1>7, <3>1 DEF DataCiphertextLen, N
  <2>4. c.hdr.manifestLen = ManifestLen(disk.man) /\ c.hdr.manifestLen \in Nat
    <3>1. disk.hdr.manifestLen = ManifestLen(c.man) /\ c.hdr.manifestLen \in Nat
      <4>1. MadeOk(k, made[k])
        BY <1>2, <1>6 DEF MadeInv
      <4>2. PICK opt \in Options : c = Written(k, c.man.body, PlaintextOf(c.data), c.hdr.sender, made[k].to, opt)
        BY <4>1, <1>5 DEF MadeOk
      <4>3. IsManifest(c.man.body)
        BY <4>1, <1>5 DEF MadeOk, Sound
      <4>4. Len(c.man.body) \in Nat
        BY <4>3, ManifestIs
      <4>5. c.hdr = HeaderFor(k, c.man.body, TotalSize(c.man.body), c.hdr.sender, made[k].to, opt)
        BY <4>2, WrittenFields
      <4>6. c.hdr.manifestLen = Len(c.man.body) + Tag
        BY <4>5, HeaderIs
      <4> QED BY <4>4, <4>6, <1>2 DEF ManifestLen, Tag
    <3> QED BY <3>1, <1>2
  <2>5. ActualLen(disk) = ContainerLen(disk.hdr)
    BY <1>3 DEF HeaderValid
  <2>6. Cardinality(disk.pq) \in {0, 1}
    BY <1>4, PqCount
  <2>7. 1 + Cardinality(disk.pq) = total + N + TrailerLen(c.hdr.suite)
    <3> DEFINE m == ManifestLen(disk.man)
               q == Cardinality(disk.pq)
               t == TrailerLen(c.hdr.suite)
    <3>1. ActualLen(disk) = 2 + m + 0 + 1 + q
      BY <2>2 DEF ActualLen
    <3>2. ContainerLen(disk.hdr) = 2 + m + (total + N) + t
      BY <1>2, <2>3, <2>4 DEF ContainerLen
    <3>3. m \in Nat /\ q \in Nat /\ t \in Nat /\ total \in Nat /\ N \in Nat
      BY <1>7, <1>8, <2>4, <2>6 DEF TrailerLen
    <3>4. 2 + m + 0 + 1 + q = 2 + m + (total + N) + t
      BY <2>5, <3>1, <3>2
    <3> HIDE DEF m, q, t
    <3>5. 1 + q = total + N + t
      BY <3>3, <3>4
    <3> QED BY <3>5 DEF q, t
  <2>8. total = 0
    BY <1>7, <1>8, <2>6, <2>7 DEF TrailerLen
  <2>9. PlaintextOf(st) = <<>>
    BY <1>7, <2>8, EmptyIsSeq, SameSeq
  <2>10. PlaintextOf(d) = <<>>
    <3>1. [i \in DOMAIN <<>> |-> <<>>[i].body] = <<>>
      OBVIOUS
    <3> QED BY <2>1, <3>1, FlattenEmpty DEF PlaintextOf
  <2> QED BY <2>9, <2>10, <1>5 DEF Source, k
<1> QED BY <1>11, <1>12

-------------------------------------------------------------------------------
(* Adding to a manifest.                                                     *)

\* The entry of a folder.
LEMMA DirEntryIs == ASSUME NEW p, IsSeq(p) PROVE IsEntry(DirEntry(p)) /\ DirEntry(p).path = p /\ DirEntry(p).kind = "dir"
BY EmptyIsSeq DEF IsEntry, DirEntry

\* Folders behind the entries move nothing.
LEMMA FoldersAppended ==
    ASSUME NEW es, NEW xs, IsManifest(es), Placed(es), IsSeq(xs),
           \A i \in DOMAIN xs : IsEntry(xs[i]) /\ xs[i].kind = "dir" /\ xs[i].path \notin PathsOf(es),
           \A i, j \in DOMAIN xs : xs[i].path = xs[j].path => i = j
    PROVE  /\ IsManifest(es \o xs) /\ Placed(es \o xs) /\ TotalSize(es \o xs) = TotalSize(es)
           /\ \A q \in PathsOf(es \o xs) : q \in PathsOf(es) \/ \E i \in DOMAIN xs : q = xs[i].path
           /\ \A plain : IsSeq(plain) /\ Carries(es, plain) => Carries(es \o xs, plain)
<1> DEFINE till(n) == es \o SubSeq(xs, 1, n)
           Fine(t, n) == /\ IsManifest(t) /\ Placed(t) /\ TotalSize(t) = TotalSize(es)
                         /\ \A q \in PathsOf(t) : q \in PathsOf(es) \/ \E i \in 1 .. n : q = xs[i].path
                         /\ \A plain : IsSeq(plain) /\ Carries(es, plain) => Carries(t, plain)
           P == {n \in Nat : n <= Len(xs) => Fine(till(n), n)}
<1>1. Len(xs) \in Nat /\ DOMAIN xs = 1 .. Len(xs) /\ IsSeq(es) /\ Sized(es)
  BY IsSeqIs, ManifestIs
<1>2. /\ SubSeq(xs, 1, 0) = <<>> /\ SubSeq(xs, 1, Len(xs)) = xs
      /\ \A n \in 0 .. Len(xs) : IsSeq(SubSeq(xs, 1, n))
      /\ \A n \in 1 .. Len(xs) : SubSeq(xs, 1, n) = Append(SubSeq(xs, 1, n - 1), xs[n])
  BY PrefixGrows
<1>3. till(0) = es
  BY <1>1, <1>2, IsSeqIs, ConcatEmptySeq
<1>4. ASSUME NEW n \in Nat, n + 1 <= Len(xs)
      PROVE  till(n + 1) = Append(till(n), xs[n + 1]) /\ IsSeq(till(n))
  <2> DEFINE w == SubSeq(xs, 1, n)
             x == xs[n + 1]
  <2>1. n \in 0 .. Len(xs) /\ n + 1 \in 1 .. Len(xs) /\ (n + 1) - 1 = n
    BY <1>1, <1>4
  <2>2. SubSeq(xs, 1, n + 1) = Append(w, x) /\ IsSeq(w)
    BY <2>1, <1>2
  <2> HIDE DEF w, x
  <2>3. Append(w, x) = w \o <<x>> /\ IsSeq(<<x>>)
    BY <2>2, AppendIsSeq, SingleIsSeq
  <2>4. IsSeq(es \o w)
    BY <1>1, <2>2, ConcatIsSeq
  <2>5. Append(es \o w, x) = (es \o w) \o <<x>>
    BY <2>4, AppendIsSeq
  <2>6. (es \o w) \o <<x>> = es \o (w \o <<x>>)
    <3>1. IsSeq(es) /\ IsSeq(w) /\ IsSeq(<<x>>)
      BY <1>1, <2>2, <2>3
    <3> DEFINE y == <<x>>
    <3> HIDE DEF y
    <3>2. (es \o w) \o y = es \o (w \o y)
      BY ONLY <3>1, ConcatIsAssociative DEF y
    <3> QED BY <3>2 DEF y
  <2> QED BY <2>2, <2>3, <2>4, <2>5, <2>6 DEF w, x
<1> HIDE DEF till
<1>5. 0 \in P
  BY <1>3
<1>6. ASSUME NEW n \in Nat, n \in P PROVE n + 1 \in P
  <2> SUFFICES ASSUME n + 1 <= Len(xs) PROVE Fine(till(n + 1), n + 1)
    OBVIOUS
  <2> DEFINE t == till(n)
             x == xs[n + 1]
  <2>1. Fine(t, n)
    BY <1>6, <1>1
  <2>2. n + 1 \in DOMAIN xs /\ till(n + 1) = Append(t, x) /\ IsSeq(t)
    BY <1>1, <1>4
  <2>3. IsEntry(x) /\ x.kind = "dir" /\ x.path \notin PathsOf(es) /\ ~IsFile(x)
    BY <2>2 DEF IsFile
  <2>4. x.path \notin PathsOf(t)
    <3> SUFFICES ASSUME x.path \in PathsOf(t) PROVE FALSE
      OBVIOUS
    <3>1. PICK i \in 1 .. n : x.path = xs[i].path
      BY <2>1, <2>3
    <3>2. i \in DOMAIN xs /\ i # n + 1
      BY <1>1
    <3> QED BY <3>1, <3>2, <2>2
  <2>5. x.hash = <<>> /\ x.size = 0 /\ IsSeq(x.hash) /\ x.size = Len(x.hash)
    BY <2>3, EmptyIsSeq DEF IsEntry
  <2> HIDE DEF x, t, Fine
  <2>6. IsManifest(t) /\ Placed(t) /\ Sized(t) /\ TotalSize(t) = TotalSize(es) /\ TotalSize(es) \in Nat
    <3>1. IsManifest(t) /\ Placed(t) /\ TotalSize(t) = TotalSize(es)
      BY <2>1 DEF Fine
    <3>2. TotalSize(es) \in Nat
      BY <1>1, TotalPrefix, IsSeqIs
    <3> QED BY <3>1, <3>2, ManifestIs
  <2>7. /\ IsManifest(Append(t, x)) /\ Placed(Append(t, x))
        /\ PathsOf(Append(t, x)) = PathsOf(t) \cup {x.path}
    BY <2>3, <2>4, <2>6, ManifestAppend, PlacedAppend
  <2>8. TotalSize(Append(t, x)) = TotalSize(es)
    BY <2>5, <2>6, TotalAppend
  <2>9. ASSUME NEW plain, IsSeq(plain), Carries(es, plain)
        PROVE  Carries(Append(t, x), plain)
    <3>1. Carries(t, plain)
      BY <2>1, <2>9 DEF Fine
    <3>2. Carries(Append(t, x), plain \o x.hash)
      BY <3>1, <2>5, <2>6, <2>9, CarriesAppend
    <3>3. plain \o <<>> = plain
      BY <2>9, IsSeqIs, ConcatEmptySeq
    <3> QED BY <3>2, <3>3, <2>5
  <2>10. \A q \in PathsOf(Append(t, x)) : q \in PathsOf(es) \/ \E i \in 1 .. n + 1 : q = xs[i].path
    <3> SUFFICES ASSUME NEW q \in PathsOf(Append(t, x)), q \notin PathsOf(es)
                 PROVE  \E i \in 1 .. n + 1 : q = xs[i].path
      OBVIOUS
    <3>1. CASE q = x.path
      <4>1. n + 1 \in 1 .. n + 1
        OBVIOUS
      <4> QED BY <3>1, <4>1 DEF x
    <3>2. CASE q \in PathsOf(t)
      <4>1. PICK i \in 1 .. n : q = xs[i].path
        BY <3>2, <2>1 DEF Fine
      <4>2. i \in 1 .. n + 1
        OBVIOUS
      <4> QED BY <4>1, <4>2
    <3> QED BY <3>1, <3>2, <2>7
  <2>11. Fine(Append(t, x), n + 1)
    BY <2>7, <2>8, <2>9, <2>10 DEF Fine
  <2> QED BY <2>2, <2>11
<1>7. Len(xs) \in P
  <2> HIDE DEF P
  <2> QED BY <1>1, <1>5, <1>6, InductionOverNat
<1>8. Fine(till(Len(xs)), Len(xs))
  BY <1>1, <1>7
<1>9. till(Len(xs)) = es \o xs
  BY <1>2 DEF till
<1> QED BY <1>1, <1>8, <1>9

\* A prefix of a path.
LEMMA PrefixIs ==
    ASSUME NEW p, IsSeq(p), NEW n \in 0 .. Len(p)
    PROVE  IsSeq(SubSeq(p, 1, n)) /\ Len(SubSeq(p, 1, n)) = n
BY PrefixGrows

\* The folder of a path.
LEMMA FrontIs ==
    ASSUME NEW p, IsSeq(p), p # <<>>
    PROVE  IsSeq(Front(p)) /\ Len(Front(p)) = Len(p) - 1 /\ Len(p) \in Nat \ {0}
<1>1. Len(p) \in Nat \ {0}
  BY IsSeqIs, EmptyIsSeq, SameSeq
<1>2. Len(p) - 1 \in 0 .. Len(p)
  BY <1>1
<1> QED BY <1>1, <1>2, PrefixIs DEF Front

\* The missing folders on the way to p.
LEMMA PushDirsIs ==
    ASSUME NEW es, NEW p, IsManifest(es), Placed(es), IsSeq(p)
    PROVE  /\ IsManifest(PushDirs(es, p)) /\ Placed(PushDirs(es, p))
           /\ TotalSize(PushDirs(es, p)) = TotalSize(es)
           /\ \A q \in PathsOf(PushDirs(es, p)) : q \in PathsOf(es) \/ Len(q) <= Len(p)
           /\ \A plain : IsSeq(plain) /\ Carries(es, plain) => Carries(PushDirs(es, p), plain)
<1> DEFINE ds == [n \in 1 .. Len(p) |-> DirEntry(SubSeq(p, 1, n))]
           known == {DirEntry(q) : q \in PathsOf(es)}
           xs == Kept(ds, known)
<1>1. Len(p) \in Nat
  BY IsSeqIs
<1>2. \A n \in 1 .. Len(p) : /\ IsSeq(SubSeq(p, 1, n)) /\ Len(SubSeq(p, 1, n)) = n
                             /\ ds[n] = DirEntry(SubSeq(p, 1, n))
  BY <1>1, PrefixIs
<1>3. \A n \in 1 .. Len(p) : /\ IsEntry(ds[n]) /\ ds[n].kind = "dir" /\ ds[n].path = SubSeq(p, 1, n)
                             /\ Len(ds[n].path) = n /\ ds[n] = DirEntry(ds[n].path)
  BY <1>2, DirEntryIs
<1>4. DOMAIN ds = 1 .. Len(p) /\ ds = [n \in 1 .. Len(p) |-> ds[n]]
  OBVIOUS
<1> HIDE DEF ds
<1>5. IsSeq(ds)
  BY <1>1, <1>4, FcnIsSeq
<1>6. \A i, j \in DOMAIN ds : ds[i].path = ds[j].path => i = j
  BY <1>3, <1>4
<1>7. /\ IsSeq(xs) /\ ToSet(xs) = ToSet(ds) \ known
      /\ \A i, j \in DOMAIN xs : xs[i].path = xs[j].path => i = j
  BY <1>5, <1>6, KeptIs
<1> HIDE DEF xs, known
<1>8. \A i \in DOMAIN xs : xs[i] \notin known /\ \E n \in 1 .. Len(p) : xs[i] = ds[n]
  <2>1. \A i \in DOMAIN xs : xs[i] \in ToSet(xs)
    BY DEF ToSet
  <2>2. \A x \in ToSet(ds) : \E n \in 1 .. Len(p) : x = ds[n]
    BY <1>4 DEF ToSet
  <2> QED BY <1>7, <2>1, <2>2
<1>9. ASSUME NEW i \in DOMAIN xs
      PROVE  IsEntry(xs[i]) /\ xs[i].kind = "dir" /\ Len(xs[i].path) <= Len(p) /\ xs[i].path \notin PathsOf(es)
  <2>1. PICK n \in 1 .. Len(p) : xs[i] = ds[n]
    BY <1>8
  <2>2. IsEntry(xs[i]) /\ xs[i].kind = "dir" /\ Len(xs[i].path) = n /\ xs[i] = DirEntry(xs[i].path)
    BY <2>1, <1>3
  <2>3. n <= Len(p)
    BY <1>1
  <2>4. xs[i].path \notin PathsOf(es)
    BY <2>2, <1>8 DEF known
  <2> QED BY <2>2, <2>3, <2>4
<1>10. PushDirs(es, p) = es \o xs
  BY DEF PushDirs, xs, ds, known
<1>11. /\ IsManifest(es \o xs) /\ Placed(es \o xs) /\ TotalSize(es \o xs) = TotalSize(es)
       /\ \A q \in PathsOf(es \o xs) : q \in PathsOf(es) \/ \E i \in DOMAIN xs : q = xs[i].path
       /\ \A plain : IsSeq(plain) /\ Carries(es, plain) => Carries(es \o xs, plain)
  BY <1>7, <1>9, FoldersAppended
<1> QED BY <1>9, <1>10, <1>11

\* push_ancestor_dirs and the file behind them.
LEMMA PushFileIs ==
    ASSUME NEW es, NEW f, IsManifest(es), Placed(es), IsSeq(f.path), f.path # <<>>, IsSeq(f.hashed),
           f.path \notin PathsOf(es)
    PROVE  /\ IsManifest(PushFile(es, f)) /\ Placed(PushFile(es, f))
           /\ \A plain : IsSeq(plain) /\ Carries(es, plain) => Carries(PushFile(es, f), plain \o f.hashed)
<1> DEFINE ds == PushDirs(es, Front(f.path))
           e == [path |-> f.path, kind |-> "file", size |-> Len(f.hashed), hash |-> f.hashed, offset |-> TotalSize(es)]
<1>1. IsSeq(Front(f.path)) /\ Len(Front(f.path)) = Len(f.path) - 1 /\ Len(f.path) \in Nat \ {0}
  BY FrontIs
<1>2. /\ IsManifest(ds) /\ Placed(ds) /\ TotalSize(ds) = TotalSize(es)
      /\ \A q \in PathsOf(ds) : q \in PathsOf(es) \/ Len(q) <= Len(Front(f.path))
      /\ \A plain : IsSeq(plain) /\ Carries(es, plain) => Carries(ds, plain)
  BY <1>1, PushDirsIs
<1>3. f.path \notin PathsOf(ds)
  BY <1>1, <1>2
<1>4. TotalSize(es) \in Nat
  BY ManifestIs, TotalPrefix, IsSeqIs
<1>5. PushFile(es, f) = Append(ds, e)
  BY DEF PushFile
<1>6. /\ e.path = f.path /\ e.kind = "file" /\ e.size = Len(f.hashed) /\ e.hash = f.hashed /\ e.offset = TotalSize(es)
      /\ e = [path |-> e.path, kind |-> e.kind, size |-> e.size, hash |-> e.hash, offset |-> e.offset]
  OBVIOUS
<1> HIDE DEF e, ds
<1>7. IsEntry(e) /\ IsSeq(e.hash) /\ e.size = Len(e.hash)
  BY <1>4, <1>6 DEF IsEntry
<1>8. IsManifest(Append(ds, e)) /\ Placed(Append(ds, e))
  BY <1>2, <1>3, <1>6, <1>7, ManifestAppend, PlacedAppend
<1>9. ASSUME NEW plain, IsSeq(plain), Carries(es, plain)
      PROVE  Carries(Append(ds, e), plain \o f.hashed)
  <2>1. Carries(ds, plain) /\ Sized(ds)
    BY <1>2, <1>9, ManifestIs
  <2> QED BY <2>1, <1>6, <1>7, <1>9, CarriesAppend
<1> QED BY <1>5, <1>8, <1>9

\* Folders are pushed one after the other.
LEMMA WithDirsIs ==
    ASSUME NEW es, NEW ds, Len(ds) \in Nat
    PROVE  \E g : /\ g[0] = es
                  /\ \A n \in 1 .. Len(ds) : g[n] = PushDirs(g[n - 1], ds[n])
                  /\ WithDirs(es, ds) = g[Len(ds)]
<1> DEFINE Pass(g, n) == IF n = 0 THEN es ELSE PushDirs(g[n - 1], ds[n])
           P == {m \in Nat : \E g : g = [n \in 0 .. m |-> Pass(g, n)]}
<1>1. 0 \in P
  <2> DEFINE g == [n \in 0 .. 0 |-> es]
  <2>1. g = [n \in 0 .. 0 |-> Pass(g, n)]
    OBVIOUS
  <2> QED BY <2>1
<1>2. ASSUME NEW m \in Nat, m \in P PROVE m + 1 \in P
  <2>1. PICK g : g = [n \in 0 .. m |-> Pass(g, n)]
    BY <1>2
  <2> DEFINE h == [n \in 0 .. m + 1 |-> IF n = m + 1 THEN PushDirs(g[m], ds[m + 1]) ELSE g[n]]
  <2>2. \A n \in 0 .. m : h[n] = g[n] /\ g[n] = Pass(g, n)
    BY <2>1
  <2>3. h[m + 1] = PushDirs(h[m], ds[m + 1]) /\ h[0] = es
    BY <2>2
  <2>4. ASSUME NEW n \in 1 .. m PROVE h[n] = PushDirs(h[n - 1], ds[n])
    <3>1. n \in 0 .. m /\ n - 1 \in 0 .. m /\ n # 0
      OBVIOUS
    <3>2. h[n] = g[n] /\ h[n - 1] = g[n - 1] /\ g[n] = Pass(g, n)
      BY <2>2, <3>1
    <3> QED BY <3>1, <3>2
  <2> HIDE DEF h
  <2>5. \A n \in 0 .. m + 1 : h[n] = Pass(h, n)
    BY <2>3, <2>4
  <2>6. h = [n \in 0 .. m + 1 |-> Pass(h, n)]
    BY <2>5 DEF h
  <2>7. \E k : k = [n \in 0 .. m + 1 |-> Pass(k, n)]
    BY <2>6
  <2> QED BY <2>7
<1>3. Len(ds) \in P
  BY <1>1, <1>2, InductionOverNat
<1>4. PICK f : f = [n \in 0 .. Len(ds) |-> Pass(f, n)]
  BY <1>3
<1> DEFINE g == CHOOSE g : g = [n \in 0 .. Len(ds) |-> Pass(g, n)]
<1>5. g = [n \in 0 .. Len(ds) |-> Pass(g, n)]
  BY <1>4
<1>6. WithDirs(es, ds) = g[Len(ds)]
  BY DEF WithDirs
<1> HIDE DEF g
<1>7. g[0] = es /\ \A n \in 1 .. Len(ds) : g[n] = PushDirs(g[n - 1], ds[n])
  BY <1>5
<1> QED BY <1>6, <1>7

\* Files are pushed one after the other.
LEMMA WithFilesIs ==
    ASSUME NEW es, NEW fs, Len(fs) \in Nat
    PROVE  \E g : /\ g[0] = es
                  /\ \A n \in 1 .. Len(fs) : g[n] = PushFile(g[n - 1], fs[n])
                  /\ WithFiles(es, fs) = g[Len(fs)]
<1> DEFINE Pass(g, n) == IF n = 0 THEN es ELSE PushFile(g[n - 1], fs[n])
           P == {m \in Nat : \E g : g = [n \in 0 .. m |-> Pass(g, n)]}
<1>1. 0 \in P
  <2> DEFINE g == [n \in 0 .. 0 |-> es]
  <2>1. g = [n \in 0 .. 0 |-> Pass(g, n)]
    OBVIOUS
  <2> QED BY <2>1
<1>2. ASSUME NEW m \in Nat, m \in P PROVE m + 1 \in P
  <2>1. PICK g : g = [n \in 0 .. m |-> Pass(g, n)]
    BY <1>2
  <2> DEFINE h == [n \in 0 .. m + 1 |-> IF n = m + 1 THEN PushFile(g[m], fs[m + 1]) ELSE g[n]]
  <2>2. \A n \in 0 .. m : h[n] = g[n] /\ g[n] = Pass(g, n)
    BY <2>1
  <2>3. h[m + 1] = PushFile(h[m], fs[m + 1]) /\ h[0] = es
    BY <2>2
  <2>4. ASSUME NEW n \in 1 .. m PROVE h[n] = PushFile(h[n - 1], fs[n])
    <3>1. n \in 0 .. m /\ n - 1 \in 0 .. m /\ n # 0
      OBVIOUS
    <3>2. h[n] = g[n] /\ h[n - 1] = g[n - 1] /\ g[n] = Pass(g, n)
      BY <2>2, <3>1
    <3> QED BY <3>1, <3>2
  <2> HIDE DEF h
  <2>5. \A n \in 0 .. m + 1 : h[n] = Pass(h, n)
    BY <2>3, <2>4
  <2>6. h = [n \in 0 .. m + 1 |-> Pass(h, n)]
    BY <2>5 DEF h
  <2>7. \E k : k = [n \in 0 .. m + 1 |-> Pass(k, n)]
    BY <2>6
  <2> QED BY <2>7
<1>3. Len(fs) \in P
  BY <1>1, <1>2, InductionOverNat
<1>4. PICK f : f = [n \in 0 .. Len(fs) |-> Pass(f, n)]
  BY <1>3
<1> DEFINE g == CHOOSE g : g = [n \in 0 .. Len(fs) |-> Pass(g, n)]
<1>5. g = [n \in 0 .. Len(fs) |-> Pass(g, n)]
  BY <1>4
<1>6. WithFiles(es, fs) = g[Len(fs)]
  BY DEF WithFiles
<1> HIDE DEF g
<1>7. g[0] = es /\ \A n \in 1 .. Len(fs) : g[n] = PushFile(g[n - 1], fs[n])
  BY <1>5
<1> QED BY <1>6, <1>7

\* Pushing folders moves nothing.
LEMMA WithDirsKeeps ==
    ASSUME NEW es, NEW ds, IsManifest(es), Placed(es), IsSeq(ds), \A i \in DOMAIN ds : IsSeq(ds[i])
    PROVE  /\ IsManifest(WithDirs(es, ds)) /\ Placed(WithDirs(es, ds))
           /\ \A plain : IsSeq(plain) /\ Carries(es, plain) => Carries(WithDirs(es, ds), plain)
<1>1. Len(ds) \in Nat /\ DOMAIN ds = 1 .. Len(ds)
  BY IsSeqIs
<1>2. PICK g : /\ g[0] = es
               /\ \A n \in 1 .. Len(ds) : g[n] = PushDirs(g[n - 1], ds[n])
               /\ WithDirs(es, ds) = g[Len(ds)]
  <2>1. Len(ds) \in Nat
    BY <1>1
  <2> QED BY ONLY <2>1, WithDirsIs
<1> DEFINE Fine(t) == /\ IsManifest(t) /\ Placed(t)
                      /\ \A plain : IsSeq(plain) /\ Carries(es, plain) => Carries(t, plain)
           P == {n \in Nat : n <= Len(ds) => Fine(g[n])}
<1>3. 0 \in P
  BY <1>2
<1>4. ASSUME NEW n \in Nat, n \in P PROVE n + 1 \in P
  <2> SUFFICES ASSUME n + 1 <= Len(ds) PROVE Fine(g[n + 1])
    OBVIOUS
  <2>1. n + 1 \in 1 .. Len(ds) /\ (n + 1) - 1 = n
    BY <1>1
  <2>2. Fine(g[n]) /\ IsSeq(ds[n + 1]) /\ g[n + 1] = PushDirs(g[n], ds[n + 1])
    BY <1>1, <1>2, <1>4, <2>1
  <2> QED BY <2>2, PushDirsIs
<1>5. Len(ds) \in P
  <2> HIDE DEF P
  <2> QED BY <1>1, <1>3, <1>4, InductionOverNat
<1> QED BY <1>1, <1>2, <1>5

\* One more file is pushed behind the others.
LEMMA WithFilesAppend ==
    ASSUME NEW es, NEW fs, NEW f, IsSeq(fs)
    PROVE  WithFiles(es, <<>>) = es /\ WithFiles(es, Append(fs, f)) = PushFile(WithFiles(es, fs), f)
<1> DEFINE more == Append(fs, f)
<1>1. /\ Len(more) = Len(fs) + 1 /\ Len(fs) \in Nat /\ Len(more) \in Nat
      /\ \A i \in 1 .. Len(fs) : more[i] = fs[i]
      /\ more[Len(fs) + 1] = f
  BY AppendElements, IsSeqIs
<1> HIDE DEF more
<1>2. PICK g : /\ g[0] = es
               /\ \A n \in 1 .. Len(fs) : g[n] = PushFile(g[n - 1], fs[n])
               /\ WithFiles(es, fs) = g[Len(fs)]
  BY <1>1, WithFilesIs
<1>3. PICK h : /\ h[0] = es
               /\ \A n \in 1 .. Len(more) : h[n] = PushFile(h[n - 1], more[n])
               /\ WithFiles(es, more) = h[Len(more)]
  <2>1. Len(more) \in Nat
    BY <1>1
  <2> QED BY ONLY <2>1, WithFilesIs
<1> DEFINE P == {m \in Nat : m <= Len(fs) => h[m] = g[m]}
<1>4. 0 \in P
  BY <1>2, <1>3
<1>5. ASSUME NEW m \in Nat, m \in P PROVE m + 1 \in P
  <2> SUFFICES ASSUME m + 1 <= Len(fs) PROVE h[m + 1] = g[m + 1]
    OBVIOUS
  <2>1. h[m] = g[m]
    BY <1>5, <1>1
  <2>2. m + 1 \in 1 .. Len(fs) /\ m + 1 \in 1 .. Len(more) /\ (m + 1) - 1 = m
    BY <1>1
  <2>3. g[m + 1] = PushFile(g[m], fs[m + 1])
    BY <1>2, <2>2
  <2>4. h[m + 1] = PushFile(h[m], more[m + 1])
    BY <1>3, <2>2
  <2> QED BY <2>1, <2>2, <2>3, <2>4, <1>1
<1>6. Len(fs) \in P
  <2> HIDE DEF P
  <2> QED BY <1>1, <1>4, <1>5, InductionOverNat
<1>7. h[Len(fs)] = g[Len(fs)]
  BY <1>1, <1>6
<1>8. h[Len(more)] = PushFile(h[Len(fs)], f)
  <2>1. Len(more) \in 1 .. Len(more) /\ Len(more) - 1 = Len(fs)
    BY <1>1
  <2> QED BY <2>1, <1>1, <1>3
<1>9. WithFiles(es, <<>>) = es
  <2>1. PICK n : /\ n[0] = es /\ WithFiles(es, <<>>) = n[Len(<<>>)]
    BY EmptyIsSeq, WithFilesIs
  <2> QED BY <2>1, EmptyIsSeq
<1> QED BY <1>2, <1>3, <1>7, <1>8, <1>9 DEF more

\* append_files, as the manifest and the stream see it.
LEMMA AppendedIs ==
    ASSUME NEW es, NEW fs, NEW ds, NEW hs, IsManifest(es), Placed(es),
           IsSeq(ds), \A i \in DOMAIN ds : IsSeq(ds[i]),
           IsSeq(fs), \A i \in DOMAIN fs : IsSeq(fs[i].path) /\ fs[i].path # <<>> /\ IsSeq(fs[i].hashed),
           \A i \in DOMAIN fs : fs[i].path \notin PathsOf(Appended(es, SubSeq(fs, 1, i - 1), ds)),
           IsSeq(hs), Len(hs) = Len(fs), \A i \in DOMAIN fs : hs[i] = fs[i].hashed
    PROVE  /\ IsManifest(Appended(es, fs, ds)) /\ Placed(Appended(es, fs, ds))
           /\ \A plain : IsSeq(plain) /\ Carries(es, plain) =>
                            Carries(Appended(es, fs, ds), plain \o FlattenSeq(hs))
<1> DEFINE base == WithDirs(es, ds)
           upto(n) == WithFiles(base, SubSeq(fs, 1, n))
           bytes(n) == FlattenSeq(SubSeq(hs, 1, n))
<1>1. /\ IsManifest(base) /\ Placed(base)
      /\ \A plain : IsSeq(plain) /\ Carries(es, plain) => Carries(base, plain)
  BY WithDirsKeeps
<1>2. \A n : Appended(es, SubSeq(fs, 1, n), ds) = upto(n)
  BY DEF Appended
<1>3. Appended(es, fs, ds) = WithFiles(base, fs)
  BY DEF Appended
<1> HIDE DEF base
<1>4. /\ Len(fs) \in Nat /\ DOMAIN fs = 1 .. Len(fs)
      /\ SubSeq(fs, 1, 0) = <<>> /\ SubSeq(fs, 1, Len(fs)) = fs
      /\ \A n \in 0 .. Len(fs) : IsSeq(SubSeq(fs, 1, n))
      /\ \A n \in 1 .. Len(fs) : SubSeq(fs, 1, n) = Append(SubSeq(fs, 1, n - 1), fs[n])
  BY IsSeqIs, PrefixGrows
<1>5. upto(0) = base /\ upto(Len(fs)) = WithFiles(base, fs)
  BY <1>4, WithFilesAppend
<1>6. ASSUME NEW n \in 1 .. Len(fs) PROVE upto(n) = PushFile(upto(n - 1), fs[n])
  <2> DEFINE w == SubSeq(fs, 1, n - 1)
  <2>1. n - 1 \in 0 .. Len(fs)
    BY <1>4
  <2>2. IsSeq(w) /\ SubSeq(fs, 1, n) = Append(w, fs[n])
    BY <2>1, <1>4
  <2> HIDE DEF w
  <2>3. WithFiles(base, Append(w, fs[n])) = PushFile(WithFiles(base, w), fs[n])
    BY ONLY <2>2, WithFilesAppend
  <2> QED BY <2>2, <2>3 DEF w
<1>7. DOMAIN hs = DOMAIN fs /\ \A i \in DOMAIN hs : IsSeq(hs[i])
  BY <1>4, IsSeqIs
<1>8. /\ bytes(0) = <<>> /\ bytes(Len(fs)) = FlattenSeq(hs)
      /\ \A n \in 0 .. Len(fs) : IsSeq(bytes(n))
      /\ \A n \in 1 .. Len(fs) : bytes(n) = bytes(n - 1) \o hs[n]
  BY <1>7, FlattenPrefix
<1> HIDE DEF upto, bytes
<1> DEFINE Fine(t, more) == /\ IsManifest(t) /\ Placed(t)
                            /\ \A plain : IsSeq(plain) /\ Carries(es, plain) => Carries(t, plain \o more)
           P == {n \in Nat : n <= Len(fs) => Fine(upto(n), bytes(n))}
<1>9. 0 \in P
  <2>1. \A plain : IsSeq(plain) => plain \o <<>> = plain
    BY IsSeqIs, ConcatEmptySeq
  <2> QED BY <2>1, <1>1, <1>5, <1>8
<1>10. ASSUME NEW n \in Nat, n \in P PROVE n + 1 \in P
  <2> SUFFICES ASSUME n + 1 <= Len(fs) PROVE Fine(upto(n + 1), bytes(n + 1))
    OBVIOUS
  <2> DEFINE t == upto(n)
             f == fs[n + 1]
  <2>1. n + 1 \in 1 .. Len(fs) /\ (n + 1) - 1 = n /\ n \in 0 .. Len(fs) /\ n + 1 \in DOMAIN fs
    BY <1>4
  <2>2. Fine(t, bytes(n))
    BY <1>10, <1>4, <2>1
  <2>3. upto(n + 1) = PushFile(t, f)
    BY <1>6, <2>1
  <2>4. bytes(n + 1) = bytes(n) \o f.hashed /\ IsSeq(bytes(n))
    BY <1>8, <2>1
  <2>5. IsSeq(f.path) /\ f.path # <<>> /\ IsSeq(f.hashed)
    BY <2>1
  <2>6. f.path \notin PathsOf(t)
    BY <1>2, <2>1
  <2>7. /\ IsManifest(PushFile(t, f)) /\ Placed(PushFile(t, f))
        /\ \A plain : IsSeq(plain) /\ Carries(t, plain) => Carries(PushFile(t, f), plain \o f.hashed)
    BY <2>2, <2>5, <2>6, PushFileIs
  <2> HIDE DEF t, f
  <2>8. ASSUME NEW plain, IsSeq(plain), Carries(es, plain)
        PROVE  Carries(PushFile(t, f), plain \o (bytes(n) \o f.hashed))
    <3>1. Carries(t, plain \o bytes(n))
      BY <2>2, <2>8
    <3>2. IsSeq(plain \o bytes(n))
      BY <2>4, <2>8, ConcatIsSeq
    <3>3. Carries(PushFile(t, f), (plain \o bytes(n)) \o f.hashed)
      BY <3>1, <3>2, <2>7
    <3>4. (plain \o bytes(n)) \o f.hashed = plain \o (bytes(n) \o f.hashed)
      <4> DEFINE b == bytes(n)
                 c == f.hashed
      <4>1. IsSeq(plain) /\ IsSeq(b) /\ IsSeq(c)
        BY <2>4, <2>5, <2>8
      <4> HIDE DEF b, c
      <4>2. (plain \o b) \o c = plain \o (b \o c)
        BY ONLY <4>1, ConcatIsAssociative
      <4> QED BY <4>2 DEF b, c
    <3> QED BY <3>3, <3>4
  <2> QED BY <2>3, <2>4, <2>7, <2>8
<1>11. Len(fs) \in P
  <2> HIDE DEF P
  <2> QED BY <1>4, <1>9, <1>10, InductionOverNat
<1>12. Fine(upto(Len(fs)), bytes(Len(fs)))
  BY <1>4, <1>11
<1> QED BY <1>3, <1>5, <1>8, <1>12

-------------------------------------------------------------------------------
(* Dropping entries.                                                         *)

\* What is kept of a manifest is a manifest, and its tree is what is left of the tree.
LEMMA KeptManifest ==
    ASSUME NEW es, NEW gone, IsManifest(es)
    PROVE  /\ IsManifest(Kept(es, gone))
           /\ TreeWith(Kept(es, gone)) =
                 {[path |-> e.path, kind |-> e.kind, content |-> e.hash] : e \in ToSet(es) \ gone}
<1> DEFINE u == Kept(es, gone)
<1>1. /\ IsSeq(u) /\ ToSet(u) = ToSet(es) \ gone
      /\ \A i, j \in DOMAIN u : u[i].path = u[j].path => i = j
  BY KeptIs DEF IsManifest
<1> HIDE DEF u
<1>2. \A i \in DOMAIN u : IsEntry(u[i])
  BY <1>1 DEF IsManifest, ToSet
<1> QED BY <1>1, <1>2 DEF u, IsManifest, TreeWith

\* SelectReader keeps the bytes of what is kept.
LEMMA KeptCarries ==
    ASSUME NEW es, NEW gone, NEW plain, IsManifest(es), IsSeq(plain), Len(plain) = TotalSize(es),
           NEW ss, DOMAIN ss = DOMAIN es, ss = [i \in DOMAIN es |-> ss[i]],
           \A i \in DOMAIN es :
              /\ IsFile(es[i]) /\ es[i] \notin gone =>
                    ss[i] = SubSeq(plain, TotalSize(SubSeq(es, 1, i - 1)) + 1, TotalSize(SubSeq(es, 1, i)))
              /\ ~(IsFile(es[i]) /\ es[i] \notin gone) => ss[i] = <<>>
    PROVE  IsSeq(FlattenSeq(ss)) /\ (Carries(es, plain) => Carries(Kept(es, gone), FlattenSeq(ss)))
<1> DEFINE tot(n) == TotalSize(SubSeq(es, 1, n))
<1>1. Sized(es) /\ IsSeq(es) /\ Len(es) \in Nat /\ DOMAIN es = 1 .. Len(es)
  BY ManifestIs
<1>2. \A n \in 0 .. Len(es) : tot(n) \in Nat /\ tot(n) <= Len(plain)
  BY <1>1, TotalPrefix, TotalMonotone
<1>3. DOMAIN ss = 1 .. Len(es) /\ ss = [i \in 1 .. Len(es) |-> ss[i]]
  BY <1>1
<1>4. \A i \in 1 .. Len(es) :
         /\ IsFile(es[i]) /\ es[i] \notin gone => ss[i] = SubSeq(plain, tot(i - 1) + 1, tot(i))
         /\ ~(IsFile(es[i]) /\ es[i] \notin gone) => ss[i] = <<>>
  BY <1>1
<1> HIDE DEF tot
<1>5. ASSUME NEW i \in 1 .. Len(es) PROVE IsSeq(ss[i])
  <2>1. CASE IsFile(es[i]) /\ es[i] \notin gone
    <3>0. i - 1 \in 0 .. Len(es) /\ i \in 0 .. Len(es)
      BY <1>1
    <3>1. tot(i - 1) \in Nat /\ tot(i) \in Nat /\ tot(i) <= Len(plain)
      BY <1>2, <3>0
    <3>2. IsSeq(SubSeq(plain, tot(i - 1) + 1, tot(i)))
      BY <3>1, SegmentIs
    <3> QED BY <3>2, <2>1, <1>4
  <2>2. CASE ~(IsFile(es[i]) /\ es[i] \notin gone)
    BY <2>2, <1>4, EmptyIsSeq
  <2> QED BY <2>1, <2>2
<1>6. IsSeq(ss) /\ Len(ss) = Len(es)
  BY <1>1, <1>3, FcnIsSeq
<1> DEFINE bytes(n) == FlattenSeq(SubSeq(ss, 1, n))
           rest(n) == Kept(SubSeq(es, 1, n), gone)
<1>7. IsSeq(FlattenSeq(ss))
  BY <1>3, <1>5, <1>6, FlattenIsSeq
<1>8. ASSUME Carries(es, plain) PROVE Carries(Kept(es, gone), FlattenSeq(ss))
  <2>1. \A n \in 0 .. Len(es) : IsSeq(bytes(n))
    BY <1>3, <1>5, <1>6, FlattenPrefix
  <2>2. bytes(0) = <<>> /\ bytes(Len(es)) = FlattenSeq(ss)
        /\ \A n \in 1 .. Len(es) : bytes(n) = bytes(n - 1) \o ss[n]
    BY <1>3, <1>5, <1>6, FlattenPrefix
  <2>3. /\ SubSeq(es, 1, 0) = <<>> /\ SubSeq(es, 1, Len(es)) = es
        /\ \A n \in 0 .. Len(es) : IsSeq(SubSeq(es, 1, n)) /\ Len(SubSeq(es, 1, n)) = n
                                   /\ \A i \in 1 .. n : SubSeq(es, 1, n)[i] = es[i]
        /\ \A n \in 1 .. Len(es) : SubSeq(es, 1, n) = Append(SubSeq(es, 1, n - 1), es[n])
    BY <1>1, PrefixGrows
  <2>4. rest(0) = <<>> /\ rest(Len(es)) = Kept(es, gone)
    BY <2>3, KeptEmpty
  <2>5. ASSUME NEW n \in 1 .. Len(es)
        PROVE  rest(n) = IF es[n] \in gone THEN rest(n - 1) ELSE Append(rest(n - 1), es[n])
    <3> DEFINE w == SubSeq(es, 1, n - 1)
    <3>1. n - 1 \in 0 .. Len(es)
      BY <1>1
    <3>2. IsSeq(w) /\ SubSeq(es, 1, n) = Append(w, es[n])
      BY <3>1, <2>3
    <3> HIDE DEF w
    <3>3. Kept(Append(w, es[n]), gone) = IF es[n] \in gone THEN Kept(w, gone) ELSE Append(Kept(w, gone), es[n])
      BY ONLY <3>2, KeptAppend
    <3> QED BY <3>2, <3>3 DEF w
  <2>6. ASSUME NEW n \in 0 .. Len(es) PROVE Sized(rest(n))
    <3> DEFINE w == SubSeq(es, 1, n)
    <3>1. IsSeq(w) /\ DOMAIN w = 1 .. n /\ \A i \in 1 .. n : w[i] = es[i]
      BY <2>3, IsSeqIs
    <3> HIDE DEF w
    <3>2. \A e \in ToSet(w) : e.size \in Nat
      <4>1. \A i \in 1 .. n : i \in 1 .. Len(es)
        BY <1>1
      <4> QED BY <4>1, <3>1, <1>1 DEF ToSet, Sized
    <3>3. IsSeq(Kept(w, gone)) /\ ToSet(Kept(w, gone)) = ToSet(w) \ gone
      BY <3>1, KeptIs
    <3>4. Sized(Kept(w, gone))
      BY <3>2, <3>3 DEF Sized, ToSet
    <3> QED BY <3>4 DEF w
  <2> HIDE DEF bytes, rest
  <2> DEFINE P == {n \in Nat : n <= Len(es) => Carries(rest(n), bytes(n))}
  <2>7. 0 \in P
    BY <2>2, <2>4, CarriesEmpty
  <2>8. ASSUME NEW n \in Nat, n \in P PROVE n + 1 \in P
    <3> SUFFICES ASSUME n + 1 <= Len(es) PROVE Carries(rest(n + 1), bytes(n + 1))
      OBVIOUS
    <3> DEFINE e == es[n + 1]
    <3>1. n + 1 \in 1 .. Len(es) /\ (n + 1) - 1 = n /\ n \in 0 .. Len(es) /\ n + 1 \in DOMAIN es
      BY <1>1
    <3>2. Carries(rest(n), bytes(n)) /\ IsSeq(bytes(n)) /\ Sized(rest(n))
      BY <2>1, <2>6, <2>8, <1>1, <3>1
    <3>3. bytes(n + 1) = bytes(n) \o ss[n + 1]
      BY <2>2, <3>1
    <3>4. e \in gone => rest(n + 1) = rest(n)
      BY <2>5, <3>1
    <3>5. e \notin gone => rest(n + 1) = Append(rest(n), e)
      BY <2>5, <3>1
    <3>6. IsEntry(e) /\ IsSeq(e.hash) /\ e.size = Len(e.hash)
      BY <3>1, ManifestIs
    <3>7. CASE e \in gone
      <4>1. ss[n + 1] = <<>>
        BY <3>1, <3>7, <1>4
      <4>2. bytes(n) \o <<>> = bytes(n)
        BY <3>2, IsSeqIs, ConcatEmptySeq
      <4> QED BY <3>2, <3>3, <3>4, <3>7, <4>1, <4>2
    <3>8. CASE e \notin gone
      <4>1. ss[n + 1] = e.hash
        <5>1. CASE IsFile(e)
          <6>1. SubSeq(plain, tot(n) + 1, tot(n + 1)) = e.hash
            BY <3>1, <1>8 DEF Carries, tot
          <6> QED BY <6>1, <5>1, <3>1, <3>8, <1>4
        <5>2. CASE ~IsFile(e)
          <6>1. e.hash = <<>>
            BY <5>2, <3>6 DEF IsEntry, IsFile
          <6> QED BY <6>1, <5>2, <3>1, <1>4
        <5> QED BY <5>1, <5>2
      <4> HIDE DEF e
      <4>2. Carries(Append(rest(n), e), bytes(n) \o e.hash)
        BY <3>2, <3>6, CarriesAppend
      <4> QED BY <4>1, <4>2, <3>3, <3>5, <3>8
    <3> QED BY <3>7, <3>8
  <2>9. Len(es) \in P
    <3> HIDE DEF P
    <3> QED BY <1>1, <2>7, <2>8, InductionOverNat
  <2>10. Carries(rest(Len(es)), bytes(Len(es)))
    BY <1>1, <2>9
  <2> QED BY <2>2, <2>4, <2>10
<1> QED BY <1>7, <1>8

-------------------------------------------------------------------------------
(* What each operation hands to the writer.                                  *)

\* Source, manifest and promised tree of a container whose stream opens: those of the
\* container it was written as.
LEMMA OriginIs ==
    ASSUME ContainerIInv, NEW me, SourceReads(me)
    PROVE  /\ Sound(disk.man.body, Source, Origin(me).want, Origin(me).torn)
           /\ Len(Source) = TotalSize(disk.man.body)
<1> DEFINE k == CekOf(disk, me)
<1>1. k \in DOMAIN made /\ disk.man = made[k].file.man
  BY OpenedIs DEF SourceReads
<1>2. Source = PlaintextOf(made[k].file.data)
  BY SourceIs
<1> HIDE DEF k
<1>3. MadeOk(k, made[k])
  BY <1>1 DEF ContainerIInv, MadeInv
<1>4. /\ Sound(made[k].file.man.body, PlaintextOf(made[k].file.data), made[k].want, made[k].torn)
      /\ Len(PlaintextOf(made[k].file.data)) = TotalSize(made[k].file.man.body)
  BY <1>3 DEF MadeOk
<1> QED BY <1>1, <1>2, <1>4 DEF Origin, k

\* The entry of a local file or folder.
LEMMA EntryOfIs ==
    ASSUME NEW v, IsSeq(v.path), IsSeq(v.content), v.kind = "file" \/ (v.kind = "dir" /\ v.content = <<>>)
    PROVE  /\ IsEntry(EntryOf(v)) /\ EntryOf(v).path = v.path /\ EntryOf(v).kind = v.kind
           /\ EntryOf(v).hash = v.content /\ EntryOf(v).size = Len(v.content)
<1> DEFINE e == EntryOf(v)
<1>1. /\ e.path = v.path /\ e.kind = v.kind /\ e.size = Len(v.content) /\ e.hash = v.content /\ e.offset = 0
      /\ e = [path |-> e.path, kind |-> e.kind, size |-> e.size, hash |-> e.hash, offset |-> e.offset]
  BY DEF EntryOf
<1> HIDE DEF e
<1> QED BY <1>1 DEF e, IsEntry

\* What the entries of a local vault are.
LEMMA TreeIs ==
    ASSUME NEW vs, IsTree(vs)
    PROVE  /\ IsSeq(vs) /\ Len(vs) \in Nat /\ DOMAIN vs = 1 .. Len(vs)
           /\ \A i \in DOMAIN vs :
                 /\ vs[i] = [path |-> vs[i].path, kind |-> vs[i].kind, content |-> vs[i].content]
                 /\ IsSeq(vs[i].path) /\ IsSeq(vs[i].content)
                 /\ vs[i].kind = "file" \/ (vs[i].kind = "dir" /\ vs[i].content = <<>>)
           /\ \A i, j \in DOMAIN vs : vs[i].path = vs[j].path => i = j
BY IsSeqIs DEF IsTree

\* export_vault and export_plan: what is written is the tree that is exported.
LEMMA ExportSound ==
    ASSUME NEW vs, IsTree(vs)
    PROVE  Sound(LaidOut([i \in DOMAIN vs |-> EntryOf(vs[i])]), ContentsOf(vs), ToSet(vs), FALSE)
<1> DEFINE es == [i \in DOMAIN vs |-> EntryOf(vs[i])]
           ss == [i \in DOMAIN vs |-> vs[i].content]
<1>1. IsSeq(vs) /\ Len(vs) \in Nat /\ DOMAIN vs = 1 .. Len(vs)
  BY TreeIs
<1>2. \A i \in DOMAIN vs : /\ IsEntry(EntryOf(vs[i])) /\ EntryOf(vs[i]).path = vs[i].path
                           /\ EntryOf(vs[i]).kind = vs[i].kind /\ EntryOf(vs[i]).hash = vs[i].content
                           /\ IsSeq(vs[i].content)
  BY TreeIs, EntryOfIs
<1>3. /\ DOMAIN es = 1 .. Len(vs) /\ es = [i \in 1 .. Len(vs) |-> es[i]]
      /\ \A i \in DOMAIN vs : es[i] = EntryOf(vs[i])
  BY <1>1
<1>4. /\ DOMAIN ss = 1 .. Len(vs) /\ ss = [i \in 1 .. Len(vs) |-> ss[i]]
      /\ \A i \in DOMAIN vs : ss[i] = vs[i].content
  BY <1>1
<1>5. ContentsOf(vs) = FlattenSeq(ss)
  BY DEF ContentsOf
<1> HIDE DEF es, ss
<1>6. IsSeq(es) /\ Len(es) = Len(vs) /\ IsSeq(ss) /\ Len(ss) = Len(vs)
  BY <1>1, <1>3, <1>4, FcnIsSeq
<1>7. IsManifest(es)
  <2>1. \A i, j \in DOMAIN vs : vs[i].path = vs[j].path => i = j
    BY TreeIs
  <2> QED BY <2>1, <1>1, <1>2, <1>3, <1>6 DEF IsManifest
<1>8. IsSeq(FlattenSeq(ss)) /\ Carries(es, FlattenSeq(ss))
  <2>1. \A i \in DOMAIN es : ss[i] = es[i].hash
    BY <1>1, <1>2, <1>3, <1>4
  <2> QED BY <2>1, <1>6, <1>7, CarriesAll
<1>9. /\ IsManifest(LaidOut(es)) /\ Placed(LaidOut(es)) /\ TreeWith(LaidOut(es)) = TreeWith(es)
      /\ Carries(LaidOut(es), FlattenSeq(ss))
  BY <1>7, <1>8, LaidOutIs
<1>10. TreeWith(es) = ToSet(vs)
  <2> DEFINE now(i) == [path |-> es[i].path, kind |-> es[i].kind, content |-> es[i].hash]
  <2>1. TreeWith(es) = {now(i) : i \in DOMAIN es}
    BY TreeWithIs
  <2>2. \A i \in DOMAIN vs : now(i) = vs[i]
    <3> SUFFICES ASSUME NEW i \in DOMAIN vs PROVE now(i) = vs[i]
      OBVIOUS
    <3>1. vs[i] = [path |-> vs[i].path, kind |-> vs[i].kind, content |-> vs[i].content]
      BY TreeIs
    <3>2. es[i].path = vs[i].path /\ es[i].kind = vs[i].kind /\ es[i].hash = vs[i].content
      BY <1>2, <1>3
    <3> QED BY <3>1, <3>2
  <2> HIDE DEF now
  <2> QED BY <2>1, <2>2, <1>1, <1>3 DEF ToSet
<1> QED BY <1>5, <1>8, <1>9, <1>10 DEF Sound, es

\* A vault without its trash.
LEMMA LiveIsTree == ASSUME IsTree(local) PROVE IsTree(Live)
<1> DEFINE gone == {v \in ToSet(local) : IsTrashed(v.path)}
           u == Kept(local, gone)
<1>1. IsSeq(local) /\ \A i, j \in DOMAIN local : local[i].path = local[j].path => i = j
  BY TreeIs
<1>2. /\ IsSeq(u) /\ ToSet(u) = ToSet(local) \ gone
      /\ \A i, j \in DOMAIN u : u[i].path = u[j].path => i = j
  BY <1>1, KeptIs
<1>3. Live = u
  BY DEF Live
<1> HIDE DEF u
<1>4. \A i \in DOMAIN u : \E j \in DOMAIN local : u[i] = local[j]
  BY <1>2 DEF ToSet
<1>5. ASSUME NEW i \in DOMAIN u
      PROVE  /\ u[i] = [path |-> u[i].path, kind |-> u[i].kind, content |-> u[i].content]
             /\ IsSeq(u[i].path) /\ IsSeq(u[i].content)
             /\ u[i].kind = "file" \/ (u[i].kind = "dir" /\ u[i].content = <<>>)
  <2>1. PICK j \in DOMAIN local : u[i] = local[j]
    BY <1>4
  <2> QED BY <2>1, TreeIs
<1> QED BY <1>2, <1>3, <1>5 DEF IsTree

\* append_files.
LEMMA AppendSound ==
    ASSUME ContainerIInv, NEW me, SourceReads(me), NEW add \in Additions,
           NEW es, es = Appended(disk.man.body, add.files, add.dirs),
           \A i \in DOMAIN add.files :
               add.files[i].path \notin PathsOf(Appended(disk.man.body, SubSeq(add.files, 1, i - 1), add.dirs))
    PROVE  Sound(es, Source \o FlattenSeq([i \in DOMAIN add.files |-> add.files[i].streamed]),
                 TreeWith(es), Origin(me).torn \/ Changed(add.files))
<1> DEFINE fs == add.files
           ds == add.dirs
           old == disk.man.body
           torn == Origin(me).torn
           hs == [i \in DOMAIN fs |-> fs[i].hashed]
           ss == [i \in DOMAIN fs |-> fs[i].streamed]
           plain == Source \o FlattenSeq(ss)
<1>1. Sound(old, Source, Origin(me).want, torn)
  BY OriginIs
<1>2. /\ IsSeq(fs) /\ IsSeq(ds) /\ (\A p \in ToSet(ds) : IsSeq(p))
      /\ \A f \in ToSet(fs) : IsSeq(f.path) /\ f.path # <<>> /\ IsSeq(f.hashed) /\ IsSeq(f.streamed)
  BY ContainerAssumption
<1>3. /\ \A i \in DOMAIN ds : IsSeq(ds[i])
      /\ \A i \in DOMAIN fs : IsSeq(fs[i].path) /\ fs[i].path # <<>> /\ IsSeq(fs[i].hashed) /\ IsSeq(fs[i].streamed)
  BY <1>2 DEF ToSet
<1>4. Len(fs) \in Nat /\ DOMAIN fs = 1 .. Len(fs)
  BY <1>2, IsSeqIs
<1>5. \A i \in DOMAIN fs : fs[i].path \notin PathsOf(Appended(old, SubSeq(fs, 1, i - 1), ds))
  OBVIOUS
<1>6. es = Appended(old, fs, ds)
  OBVIOUS
<1> HIDE DEF fs, ds, old, torn
<1>7. /\ DOMAIN hs = 1 .. Len(fs) /\ hs = [i \in 1 .. Len(fs) |-> hs[i]]
      /\ \A i \in DOMAIN fs : hs[i] = fs[i].hashed
  BY <1>4
<1>8. /\ DOMAIN ss = 1 .. Len(fs) /\ ss = [i \in 1 .. Len(fs) |-> ss[i]]
      /\ \A i \in DOMAIN fs : ss[i] = fs[i].streamed
  BY <1>4
<1>9. ~Changed(fs) => hs = ss
  BY DEF Changed
<1> HIDE DEF hs, ss
<1>10. IsSeq(hs) /\ Len(hs) = Len(fs) /\ IsSeq(ss)
  BY <1>4, <1>7, <1>8, FcnIsSeq
<1>11. IsManifest(old) /\ Placed(old) /\ IsSeq(Source) /\ (~torn => Carries(old, Source))
  BY <1>1 DEF Sound
<1>12. /\ IsManifest(Appended(old, fs, ds)) /\ Placed(Appended(old, fs, ds))
       /\ \A p : IsSeq(p) /\ Carries(old, p) => Carries(Appended(old, fs, ds), p \o FlattenSeq(hs))
  BY <1>2, <1>3, <1>5, <1>7, <1>10, <1>11, AppendedIs
<1>13. IsSeq(FlattenSeq(ss))
  BY <1>3, <1>4, <1>8, <1>10, FlattenIsSeq
<1>14. IsSeq(plain)
  BY <1>11, <1>13, ConcatIsSeq
<1>15. ~(torn \/ Changed(fs)) => Carries(es, plain)
  BY <1>6, <1>9, <1>11, <1>12
<1>16. Sound(es, plain, TreeWith(es), torn \/ Changed(fs))
  BY <1>6, <1>12, <1>14, <1>15 DEF Sound
<1> QED BY <1>16 DEF ss, fs, torn

\* remove_paths.
LEMMA RemoveSound ==
    ASSUME ContainerIInv, NEW me, SourceReads(me), NEW roots,
           NEW es, es = disk.man.body, NEW gone, gone = {e \in ToSet(es) : Beneath(roots, e.path)}
    PROVE  Sound(LaidOut(Kept(es, gone)), KeptData(es, gone),
                 {v \in Origin(me).want : ~Beneath(roots, v.path)}, Origin(me).torn)
<1> DEFINE want == Origin(me).want
           torn == Origin(me).torn
           left == {v \in want : ~Beneath(roots, v.path)}
           rec(e) == [path |-> e.path, kind |-> e.kind, content |-> e.hash]
           ss == [i \in DOMAIN es |->
                    IF IsFile(es[i]) /\ es[i] \notin gone
                    THEN SubSeq(Source, TotalSize(SubSeq(es, 1, i - 1)) + 1, TotalSize(SubSeq(es, 1, i)))
                    ELSE <<>>]
<1>1. Sound(es, Source, want, torn) /\ Len(Source) = TotalSize(es)
  BY OriginIs
<1>2. KeptData(es, gone) = FlattenSeq(ss)
  BY DEF KeptData
<1>3. IsManifest(es) /\ IsSeq(Source) /\ want = TreeWith(es) /\ (~torn => Carries(es, Source))
  BY <1>1 DEF Sound
<1>5. IsSeq(FlattenSeq(ss)) /\ (Carries(es, Source) => Carries(Kept(es, gone), FlattenSeq(ss)))
  <2>1. /\ DOMAIN ss = DOMAIN es /\ ss = [i \in DOMAIN es |-> ss[i]]
        /\ \A i \in DOMAIN es :
              /\ IsFile(es[i]) /\ es[i] \notin gone =>
                    ss[i] = SubSeq(Source, TotalSize(SubSeq(es, 1, i - 1)) + 1, TotalSize(SubSeq(es, 1, i)))
              /\ ~(IsFile(es[i]) /\ es[i] \notin gone) => ss[i] = <<>>
    OBVIOUS
  <2> HIDE DEF ss
  <2> DEFINE plain == Source
  <2>2. IsManifest(es) /\ IsSeq(plain) /\ Len(plain) = TotalSize(es)
    BY <1>1, <1>3
  <2>3. /\ DOMAIN ss = DOMAIN es /\ ss = [i \in DOMAIN es |-> ss[i]]
        /\ \A i \in DOMAIN es :
              /\ IsFile(es[i]) /\ es[i] \notin gone =>
                    ss[i] = SubSeq(plain, TotalSize(SubSeq(es, 1, i - 1)) + 1, TotalSize(SubSeq(es, 1, i)))
              /\ ~(IsFile(es[i]) /\ es[i] \notin gone) => ss[i] = <<>>
    BY <2>1
  <2> HIDE DEF plain
  <2>4. IsSeq(FlattenSeq(ss)) /\ (Carries(es, plain) => Carries(Kept(es, gone), FlattenSeq(ss)))
    BY ONLY <2>2, <2>3, KeptCarries
  <2> QED BY <2>4 DEF plain
<1> HIDE DEF ss, torn
<1>6. IsManifest(Kept(es, gone)) /\ TreeWith(Kept(es, gone)) = {rec(e) : e \in ToSet(es) \ gone}
  BY <1>3, KeptManifest
<1>7. /\ IsManifest(LaidOut(Kept(es, gone))) /\ Placed(LaidOut(Kept(es, gone)))
      /\ TreeWith(LaidOut(Kept(es, gone))) = TreeWith(Kept(es, gone))
      /\ \A plain : Carries(Kept(es, gone), plain) => Carries(LaidOut(Kept(es, gone)), plain)
  BY <1>6, LaidOutIs
<1>8. {rec(e) : e \in ToSet(es) \ gone} = left
  <2>1. want = {rec(e) : e \in ToSet(es)}
    BY <1>3 DEF TreeWith
  <2>2. \A e : rec(e).path = e.path
    OBVIOUS
  <2> HIDE DEF rec, want
  <2>3. \A e \in ToSet(es) : e \in gone <=> Beneath(roots, rec(e).path)
    BY <2>2
  <2> QED BY <2>1, <2>3
<1> QED BY <1>2, <1>3, <1>5, <1>6, <1>7, <1>8 DEF Sound, torn

\* replace_file.
LEMMA ReplaceSound ==
    ASSUME ContainerIInv, NEW me, SourceReads(me), NEW f, IsSeq(f.path), IsSeq(f.hashed), IsSeq(f.streamed),
           NEW es, es = disk.man.body, \E e \in FilesOf(es) : e.path = f.path,
           NEW gone, gone = {e \in ToSet(es) : e.path = f.path /\ IsFile(e)},
           NEW new, new = [path |-> f.path, kind |-> "file", content |-> f.hashed]
    PROVE  Sound(LaidOut(Append(Kept(es, gone), EntryOf(new))), KeptData(es, gone) \o f.streamed,
                 {v \in Origin(me).want : v.path # f.path} \cup {new}, Origin(me).torn \/ Changed(<<f>>))
<1> DEFINE want == Origin(me).want
           torn == Origin(me).torn
           left == {v \in want : v.path # f.path}
           rec(e) == [path |-> e.path, kind |-> e.kind, content |-> e.hash]
           rest == Kept(es, gone)
           e0 == EntryOf(new)
           all == Append(rest, e0)
           ss == [i \in DOMAIN es |->
                    IF IsFile(es[i]) /\ es[i] \notin gone
                    THEN SubSeq(Source, TotalSize(SubSeq(es, 1, i - 1)) + 1, TotalSize(SubSeq(es, 1, i)))
                    ELSE <<>>]
<1>1. Sound(es, Source, want, torn) /\ Len(Source) = TotalSize(es)
  BY OriginIs
<1>2. KeptData(es, gone) = FlattenSeq(ss)
  BY DEF KeptData
<1>3. IsManifest(es) /\ IsSeq(Source) /\ want = TreeWith(es) /\ (~torn => Carries(es, Source))
  BY <1>1 DEF Sound
<1>4. IsSeq(FlattenSeq(ss)) /\ (Carries(es, Source) => Carries(rest, FlattenSeq(ss)))
  <2>1. /\ DOMAIN ss = DOMAIN es /\ ss = [i \in DOMAIN es |-> ss[i]]
        /\ \A i \in DOMAIN es :
              /\ IsFile(es[i]) /\ es[i] \notin gone =>
                    ss[i] = SubSeq(Source, TotalSize(SubSeq(es, 1, i - 1)) + 1, TotalSize(SubSeq(es, 1, i)))
              /\ ~(IsFile(es[i]) /\ es[i] \notin gone) => ss[i] = <<>>
    OBVIOUS
  <2> HIDE DEF ss
  <2> DEFINE plain == Source
  <2>2. IsManifest(es) /\ IsSeq(plain) /\ Len(plain) = TotalSize(es)
    BY <1>1, <1>3
  <2>3. /\ DOMAIN ss = DOMAIN es /\ ss = [i \in DOMAIN es |-> ss[i]]
        /\ \A i \in DOMAIN es :
              /\ IsFile(es[i]) /\ es[i] \notin gone =>
                    ss[i] = SubSeq(plain, TotalSize(SubSeq(es, 1, i - 1)) + 1, TotalSize(SubSeq(es, 1, i)))
              /\ ~(IsFile(es[i]) /\ es[i] \notin gone) => ss[i] = <<>>
    BY <2>1
  <2> HIDE DEF plain
  <2>4. IsSeq(FlattenSeq(ss)) /\ (Carries(es, plain) => Carries(Kept(es, gone), FlattenSeq(ss)))
    BY ONLY <2>2, <2>3, KeptCarries
  <2> QED BY <2>4 DEF plain
<1> DEFINE kd == FlattenSeq(ss)
<1> HIDE DEF ss, torn
<1>5. IsManifest(rest) /\ TreeWith(rest) = {rec(e) : e \in ToSet(es) \ gone}
  BY <1>3, KeptManifest
<1>6. IsSeq(rest) /\ ToSet(rest) = ToSet(es) \ gone
  BY <1>3, KeptIs DEF IsManifest
<1>7. new.path = f.path /\ new.kind = "file" /\ new.content = f.hashed
  OBVIOUS
<1> HIDE DEF rest
<1>8. /\ IsEntry(e0) /\ e0.path = f.path /\ e0.kind = "file" /\ e0.hash = f.hashed
      /\ e0.size = Len(f.hashed)
  BY <1>7, EntryOfIs
<1> HIDE DEF e0
<1>9. \A e \in ToSet(es) : e.path = f.path <=> e \in gone
  <2>1. PICK x \in ToSet(es) : x.path = f.path /\ IsFile(x)
    BY DEF FilesOf
  <2>2. \A e \in ToSet(es) : e.path = x.path => e = x
    BY <1>3, <2>1 DEF IsManifest, ToSet
  <2> QED BY <2>1, <2>2
<1>10. e0.path \notin PathsOf(rest)
  <2>1. \A i \in DOMAIN rest : rest[i] \in ToSet(es) \ gone
    BY <1>6 DEF ToSet
  <2> QED BY <2>1, <1>8, <1>9 DEF PathsOf
<1>11. IsManifest(all)
  BY <1>5, <1>8, <1>10, ManifestAppend
<1>12. /\ IsManifest(LaidOut(all)) /\ Placed(LaidOut(all)) /\ TreeWith(LaidOut(all)) = TreeWith(all)
       /\ \A plain : Carries(all, plain) => Carries(LaidOut(all), plain)
  BY <1>11, LaidOutIs
<1>13. TreeWith(all) = left \cup {new}
  <2>1. ToSet(all) = ToSet(rest) \cup {e0}
    <3>1. ToSet(Append(rest, e0)) = ToSet(rest) \cup {e0}
      BY ONLY <1>6, AppendIsSeq
    <3> QED BY <3>1
  <2>2. TreeWith(all) = {rec(e) : e \in ToSet(all)}
    BY DEF TreeWith
  <2>3. rec(e0) = new
    BY <1>7, <1>8
  <2>4. want = {rec(e) : e \in ToSet(es)}
    BY <1>3 DEF TreeWith
  <2>5. \A e : rec(e).path = e.path
    OBVIOUS
  <2> HIDE DEF rec, want, all
  <2>6. \A e \in ToSet(es) : rec(e).path # f.path <=> e \notin gone
    BY <2>5, <1>9
  <2>7. left = {rec(e) : e \in ToSet(es) \ gone}
    BY <2>4, <2>6
  <2>8. {rec(e) : e \in ToSet(all)} = {rec(e) : e \in ToSet(es) \ gone} \cup {rec(e0)}
    BY <2>1, <1>6
  <2> QED BY <2>2, <2>3, <2>7, <2>8
<1>14. IsSeq(kd \o f.streamed)
  BY <1>4, ConcatIsSeq
<1>15. ~(torn \/ Changed(<<f>>)) => Carries(LaidOut(all), kd \o f.streamed)
  <2> SUFFICES ASSUME ~torn, ~Changed(<<f>>) PROVE Carries(LaidOut(all), kd \o f.streamed)
    OBVIOUS
  <2>1. f.hashed = f.streamed
    BY DEF Changed
  <2>2. Carries(rest, kd)
    BY <1>3, <1>4 DEF rest
  <2>3. Sized(rest) /\ IsSeq(kd) /\ IsSeq(e0.hash) /\ e0.size = Len(e0.hash)
    BY <1>4, <1>5, <1>8, ManifestIs
  <2> HIDE DEF kd
  <2>4. Carries(Append(rest, e0), kd \o e0.hash)
    BY <2>2, <2>3, CarriesAppend
  <2> QED BY <2>1, <2>4, <1>8, <1>12
<1>16. Sound(LaidOut(all), kd \o f.streamed, left \cup {new}, torn \/ Changed(<<f>>))
  BY <1>12, <1>13, <1>14, <1>15 DEF Sound
<1> QED BY <1>2, <1>16 DEF rest, e0, torn

-------------------------------------------------------------------------------
(* Reading and damage.                                                       *)

\* An import gives the local vault a proper tree.
LEMMA ImportKeeps ==
    ASSUME ContainerIInv, NEW me, ImportContainer(me)
    PROVE  ContainerIInv'
<1> DEFINE es == disk.man.body
           plain == PlaintextOf(disk.data)
           tree(i) == [path |-> es[i].path, kind |-> es[i].kind, content |-> FileBytes(plain, es[i])]
<1>1. SourceReads(me) /\ ReadsAll(disk, me)
  BY DEF ImportContainer, Imports, VerifyAndOpen, ReadsAll, SourceReads
<1>2. local' = [i \in DOMAIN es |-> tree(i)] /\ UNCHANGED <<disk, made, damage>>
  BY DEF ImportContainer
<1>3. Sound(es, Source, Origin(me).want, Origin(me).torn)
  BY <1>1, OriginIs
<1>4. IsManifest(es)
  BY <1>3 DEF Sound
<1>5. Len(es) \in Nat /\ DOMAIN es = 1 .. Len(es) /\ \A i \in DOMAIN es : IsEntry(es[i])
  BY <1>4, ManifestIs
<1>6. ASSUME NEW i \in DOMAIN es
      PROVE  /\ IsSeq(FileBytes(plain, es[i])) /\ IsSeq(es[i].path)
             /\ es[i].kind = "file" \/ (es[i].kind = "dir" /\ FileBytes(plain, es[i]) = <<>>)
  <2> DEFINE e == es[i]
  <2>1. IsEntry(e) /\ e \in ToSet(es)
    BY <1>5 DEF ToSet
  <2> HIDE DEF plain
  <2>2. CASE IsFile(e)
    <3>1. HashMatches(plain, e)
      BY <1>1, <2>1, <2>2 DEF ReadsAll, FilesOf, plain
    <3> QED BY <3>1, <2>1, <2>2 DEF HashMatches, IsEntry, IsFile
  <2>3. CASE ~IsFile(e)
    <3>1. e.kind = "dir" /\ e.hash = <<>> /\ e.size = 0 /\ e.offset \in Nat /\ IsSeq(e.path)
      BY <2>1, <2>3, EmptyIsSeq DEF IsEntry, IsFile
    <3> DEFINE o == e.offset
    <3>2. e.offset + e.size = o /\ o \in Nat
      BY <3>1
    <3> HIDE DEF o
    <3>3. SubSeq(plain, o + 1, o) = <<>>
      BY <3>2, SubSeqEmpty
    <3>4. FileBytes(plain, e) = <<>>
      BY <3>2, <3>3 DEF FileBytes, o
    <3> QED BY <3>1, <3>4, EmptyIsSeq
  <2> QED BY <2>2, <2>3
<1>7. \A i, j \in DOMAIN es : es[i].path = es[j].path => i = j
  BY <1>4 DEF IsManifest
<1> DEFINE vs == [i \in DOMAIN es |-> tree(i)]
<1>8. /\ DOMAIN vs = 1 .. Len(es) /\ vs = [i \in 1 .. Len(es) |-> vs[i]]
      /\ \A i \in DOMAIN es : vs[i] = tree(i)
  BY <1>5
<1>9. \A i \in DOMAIN es : /\ tree(i).path = es[i].path /\ tree(i).kind = es[i].kind
                           /\ tree(i).content = FileBytes(plain, es[i])
                           /\ tree(i) = [path |-> tree(i).path, kind |-> tree(i).kind, content |-> tree(i).content]
  OBVIOUS
<1>10. local' = vs
  BY <1>2
<1> HIDE DEF vs, tree
<1>11. IsSeq(vs)
  BY <1>5, <1>8, FcnIsSeq
<1>12. IsTree(vs)
  <2>1. ASSUME NEW i \in DOMAIN vs
        PROVE  /\ vs[i] = [path |-> vs[i].path, kind |-> vs[i].kind, content |-> vs[i].content]
               /\ vs[i].kind = "file" \/ (vs[i].kind = "dir" /\ vs[i].content = <<>>)
               /\ IsSeq(vs[i].path) /\ IsSeq(vs[i].content) /\ vs[i].path = es[i].path
    <3>1. i \in DOMAIN es /\ vs[i] = tree(i)
      BY <1>5, <1>8
    <3> QED BY <3>1, <1>6, <1>9
  <2>2. \A i, j \in DOMAIN vs : vs[i].path = vs[j].path => i = j
    BY <2>1, <1>5, <1>7, <1>8
  <2> QED BY <1>11, <2>1, <2>2 DEF IsTree
<1>13. MadeInv' /\ DiskInv' /\ damage' \in Nat
  BY <1>2 DEF ContainerIInv, MadeInv, DiskInv, PartsOk, HeaderOk, ManifestOk, DataOk, ChunkOk, SignatureMade
<1> QED BY <1>10, <1>12, <1>13 DEF ContainerIInv

\* The parts of a written container were written.
LEMMA MadeParts ==
    ASSUME MadeInv, NEW k \in DOMAIN made
    PROVE  PartsOk(made[k].file)
<1> DEFINE c == made[k].file
           es == c.man.body
           plain == PlaintextOf(c.data)
           to == made[k].to
           author == c.hdr.sender
<1>1. PICK opt \in Options : c = Written(k, es, plain, author, to, opt)
  BY DEF MadeInv, MadeOk
<1>2. IsData(c.data)
  BY MadeIs
<1> HIDE DEF es, plain, to, author
<1>3. c = made[k].file
  OBVIOUS
<1> HIDE DEF c
<1>4. /\ c = [f \in DOMAIN c |-> c[f]] /\ DOMAIN c = {"pre", "hdr", "man", "data", "ed", "pq"}
      /\ c.hdr = HeaderFor(k, es, TotalSize(es), author, to, opt)
      /\ DOMAIN c.man = {"key", "aad", "body"}
      /\ IsHybrid(c.hdr.suite) => c.pq = {c.ed}
      /\ ~IsHybrid(c.hdr.suite) => c.pq = {}
  BY <1>1, WrittenFields
<1>5. DOMAIN c.hdr = {"suite", "nonce", "sender", "fpr", "recipients", "manifestLen", "chunk", "dataLen"}
  BY <1>4, HeaderIs
<1>6. AtMostOne(c.pq)
  BY <1>4 DEF AtMostOne
<1>7. DataOk(c.data)
  BY <1>2, <1>3 DEF DataOk, ChunkOk, IsData, ToSet
<1>8. PartsOk(c)
  BY <1>3, <1>4, <1>5, <1>6, <1>7 DEF PartsOk, HeaderOk, ManifestOk, SignatureMade
<1> QED BY <1>3, <1>8

\* An overwritten chunk.
LEMMA NoiseIs ==
    ASSUME NEW x, ChunkOk(x)
    PROVE  ChunkOk(NoiseFor(x))
BY DEF ChunkOk, IsChunk, NoiseFor

\* Damage to the stream leaves chunks that were written, or noise.
LEMMA DamagedChunksOk ==
    ASSUME NEW data, NEW other, DataOk(data), DataOk(other), NEW d \in DamagedChunks(data, other)
    PROVE  DataOk(d)
<1>1. IsSeq(data) /\ Len(data) \in Nat /\ DOMAIN data = 1 .. Len(data)
  BY IsSeqIs DEF DataOk
<1>2. \A i \in 1 .. Len(data) : ChunkOk(data[i])
  BY <1>1 DEF DataOk, ToSet
<1>3. ASSUME NEW a \in Nat, NEW b \in Nat, b <= Len(data)
      PROVE  DataOk(SubSeq(data, a + 1, b))
  <2> DEFINE w == SubSeq(data, a + 1, b)
  <2>1. /\ IsSeq(w) /\ Len(w) = IF a <= b THEN b - a ELSE 0
        /\ \A i \in 1 .. b - a : w[i] = data[a + i]
    BY <1>1, <1>3, SegmentIs
  <2> HIDE DEF w
  <2>2. ASSUME NEW i \in DOMAIN w PROVE ChunkOk(w[i])
    <3>1. i \in 1 .. b - a
      BY <2>1, IsSeqIs
    <3>2. a + i \in 1 .. Len(data)
      BY <1>1, <1>3, <3>1
    <3> QED BY <1>2, <2>1, <3>1, <3>2
  <2>3. DataOk(w)
    BY <2>1, <2>2 DEF DataOk, ToSet
  <2> QED BY <2>3 DEF w
<1>4. ASSUME NEW s, NEW t, DataOk(s), DataOk(t) PROVE DataOk(s \o t)
  <2>1. IsSeq(s \o t) /\ ToSet(s \o t) = ToSet(s) \cup ToSet(t)
    BY <1>4, ConcatIsSeq DEF DataOk
  <2> QED BY <1>4, <2>1 DEF DataOk
<1>5. ASSUME NEW x, ChunkOk(x) PROVE DataOk(<<x>>)
  BY <1>5, SingleIsSeq DEF DataOk
<1>6. ASSUME NEW i \in DOMAIN data, NEW x, ChunkOk(x) PROVE DataOk([data EXCEPT ![i] = x])
  <2> DEFINE w == [data EXCEPT ![i] = x]
  <2>1. DOMAIN w = 1 .. Len(data) /\ w = [j \in 1 .. Len(data) |-> w[j]]
    BY <1>1
  <2>2. \A j \in 1 .. Len(data) : w[j] = x \/ w[j] = data[j]
    BY <1>1
  <2> HIDE DEF w
  <2>3. IsSeq(w)
    BY <1>1, <2>1, FcnIsSeq
  <2>4. DataOk(w)
    BY <1>2, <1>6, <2>1, <2>2, <2>3 DEF DataOk, ToSet
  <2> QED BY <2>4 DEF w
<1>7. CASE \E i \in DOMAIN data : d = RemoveAt(data, i)
  <2>1. PICK i \in DOMAIN data : d = RemoveAt(data, i)
    BY <1>7
  <2>2. i - 1 \in Nat /\ i - 1 <= Len(data) /\ i \in Nat /\ 0 \in Nat /\ Len(data) <= Len(data)
    BY <1>1
  <2>3. DataOk(SubSeq(data, 0 + 1, i - 1)) /\ DataOk(SubSeq(data, i + 1, Len(data)))
    BY <1>1, <1>3, <2>2
  <2>4. d = SubSeq(data, 1, i - 1) \o SubSeq(data, i + 1, Len(data))
    BY <2>1 DEF RemoveAt
  <2>5. 0 + 1 = 1
    OBVIOUS
  <2> QED BY <1>4, <2>3, <2>4, <2>5
<1>8. CASE \E i \in DOMAIN data : d = InsertAt(data, i, data[i])
  <2>1. PICK i \in DOMAIN data : d = InsertAt(data, i, data[i])
    BY <1>8
  <2>2. i - 1 \in Nat /\ i - 1 <= Len(data) /\ 0 \in Nat /\ Len(data) <= Len(data) /\ (i - 1) + 1 = i /\ 0 + 1 = 1
    BY <1>1
  <2>3. DataOk(SubSeq(data, 0 + 1, i - 1)) /\ DataOk(SubSeq(data, (i - 1) + 1, Len(data)))
    BY <1>1, <1>3, <2>2
  <2>4. d = SubSeq(data, 1, i - 1) \o <<data[i]>> \o SubSeq(data, i, Len(data))
    BY <2>1 DEF InsertAt
  <2>5. DataOk(<<data[i]>>)
    BY <1>1, <1>2, <1>5
  <2> DEFINE u == SubSeq(data, 1, i - 1)
             v == <<data[i]>>
             w == SubSeq(data, i, Len(data))
  <2>6. DataOk(u) /\ DataOk(v) /\ DataOk(w) /\ d = (u \o v) \o w
    BY <2>2, <2>3, <2>4, <2>5
  <2> HIDE DEF u, v, w
  <2>7. DataOk(u \o v)
    BY <1>4, <2>6
  <2> QED BY <1>4, <2>6, <2>7
<1>9. CASE \E i \in DOMAIN data : d = [data EXCEPT ![i] = NoiseFor(data[i])]
  BY <1>1, <1>2, <1>6, <1>9, NoiseIs
<1>10. CASE \E i \in 1 .. Len(data) - 1 : d = [data EXCEPT ![i] = data[i + 1], ![i + 1] = data[i]]
  <2>1. PICK i \in 1 .. Len(data) - 1 : d = [data EXCEPT ![i] = data[i + 1], ![i + 1] = data[i]]
    BY <1>10
  <2>2. i \in 1 .. Len(data) /\ i + 1 \in 1 .. Len(data)
    BY <1>1
  <2>3. DOMAIN d = 1 .. Len(data) /\ d = [j \in 1 .. Len(data) |-> d[j]]
    BY <1>1, <2>1
  <2>4. \A j \in 1 .. Len(data) : d[j] = data[i + 1] \/ d[j] = data[i] \/ d[j] = data[j]
    BY <1>1, <2>1, <2>2
  <2>5. IsSeq(d)
    BY <1>1, <2>3, FcnIsSeq
  <2> QED BY <1>2, <2>2, <2>3, <2>4, <2>5 DEF DataOk, ToSet
<1>11. CASE \E i \in DOMAIN data \cap DOMAIN other : d = [data EXCEPT ![i] = other[i]]
  <2>1. PICK i \in DOMAIN data \cap DOMAIN other : d = [data EXCEPT ![i] = other[i]]
    BY <1>11
  <2>2. ChunkOk(other[i])
    BY DEF DataOk, ToSet
  <2> QED BY <1>6, <2>1, <2>2
<1> QED BY <1>7, <1>8, <1>9, <1>10, <1>11 DEF DamagedChunks

\* Damage to the header adds no stanza.
LEMMA DamagedHeadersOk ==
    ASSUME NEW h, HeaderOk(h), NEW d \in DamagedHeaders(h)
    PROVE  HeaderOk(d)
<1>1. DOMAIN h = {"suite", "nonce", "sender", "fpr", "recipients", "manifestLen", "chunk", "dataLen"}
  BY DEF HeaderOk
<1>2. DOMAIN d = DOMAIN h /\ d.recipients \subseteq h.recipients
  BY <1>1 DEF DamagedHeaders
<1> QED BY <1>1, <1>2 DEF HeaderOk

\* Damage leaves parts that were written, or noise.
LEMMA DamagedOk ==
    ASSUME NEW c, NEW other, PartsOk(c), PartsOk(other), NEW d \in Damaged(c, other)
    PROVE  PartsOk(d)
<1> DEFINE Noisy == NoiseFor(c.man)
<1>1. /\ c = [x \in DOMAIN c |-> c[x]] /\ DOMAIN c = {"pre", "hdr", "man", "data", "ed", "pq"}
      /\ HeaderOk(c.hdr) /\ ManifestOk(c.man) /\ DataOk(c.data) /\ SignatureMade(c.ed) /\ AtMostOne(c.pq)
      /\ HeaderOk(other.hdr) /\ ManifestOk(other.man) /\ DataOk(other.data)
      /\ SignatureMade(other.ed) /\ AtMostOne(other.pq)
  BY DEF PartsOk
<1>2. \A by : SignatureOf(by, <<>>).over = <<>>
  BY DEF SignatureOf
<1>3. \A by : SignatureMade(SignatureOf(by, <<>>))
  BY <1>2 DEF SignatureMade
<1>4. AtMostOne({}) /\ \A x : AtMostOne({x})
  BY DEF AtMostOne
<1>5. ManifestOk(Noisy)
  BY <1>1 DEF ManifestOk, NoiseFor
<1> HIDE DEF Noisy
<1>6. \A h : HeaderOk(h) => PartsOk([c EXCEPT !.hdr = h])
  BY <1>1 DEF PartsOk
<1>7. \A m : ManifestOk(m) => PartsOk([c EXCEPT !.man = m])
  BY <1>1 DEF PartsOk
<1>8. \A x : DataOk(x) => PartsOk([c EXCEPT !.data = x])
  BY <1>1 DEF PartsOk
<1>9. \A x, S : SignatureMade(x) /\ AtMostOne(S) =>
          PartsOk([c EXCEPT !.ed = x]) /\ PartsOk([c EXCEPT !.pq = S]) /\ PartsOk([c EXCEPT !.ed = x, !.pq = S])
  <2> SUFFICES ASSUME NEW x, NEW S, SignatureMade(x), AtMostOne(S)
               PROVE  /\ PartsOk([c EXCEPT !.ed = x]) /\ PartsOk([c EXCEPT !.pq = S])
                      /\ PartsOk([c EXCEPT !.ed = x, !.pq = S])
    OBVIOUS
  <2>1. PartsOk([c EXCEPT !.ed = x])
    BY <1>1 DEF PartsOk
  <2>2. PartsOk([c EXCEPT !.pq = S])
    BY <1>1 DEF PartsOk
  <2>3. PartsOk([c EXCEPT !.ed = x, !.pq = S])
    BY <1>1 DEF PartsOk
  <2> QED BY <2>1, <2>2, <2>3
<1>10. \A h, m : HeaderOk(h) /\ ManifestOk(m) => PartsOk([c EXCEPT !.hdr = h, !.man = m])
  BY <1>1 DEF PartsOk
<1>11. PartsOk([c EXCEPT !.pre = "v2"])
  BY <1>1 DEF PartsOk
<1>12. CASE \E x \in DamagedChunks(c.data, other.data) : d = [c EXCEPT !.data = x]
  BY <1>1, <1>8, <1>12, DamagedChunksOk
<1>13. CASE \E h \in DamagedHeaders(c.hdr) : d = [c EXCEPT !.hdr = h]
  BY <1>1, <1>6, <1>13, DamagedHeadersOk
<1>14. CASE d = [c EXCEPT !.pre = "v2"] \/ d = [c EXCEPT !.man = Noisy]
  BY <1>5, <1>7, <1>11, <1>14
<1>15. CASE \/ d = [c EXCEPT !.ed = SignatureOf(c.hdr.sender, <<>>)]
            \/ d = [c EXCEPT !.pq = {}]
            \/ d = [c EXCEPT !.pq = {SignatureOf(c.hdr.sender, <<>>)}]
            \/ d = [c EXCEPT !.ed = other.ed, !.pq = other.pq]
  <2> DEFINE none == SignatureOf(c.hdr.sender, <<>>)
             S == {none}
  <2>1. SignatureMade(none) /\ AtMostOne(S) /\ AtMostOne({})
    BY <1>3, <1>4
  <2> HIDE DEF none, S
  <2>2. PartsOk([c EXCEPT !.ed = none]) /\ PartsOk([c EXCEPT !.pq = S])
    BY ONLY <1>9, <2>1
  <2>3. PartsOk([c EXCEPT !.pq = {}])
    BY ONLY <1>9, <2>1
  <2>4. PartsOk([c EXCEPT !.ed = other.ed, !.pq = other.pq])
    BY ONLY <1>1, <1>9
  <2> QED BY <1>15, <2>2, <2>3, <2>4 DEF none, S
<1>16. CASE \/ d = [c EXCEPT !.hdr = other.hdr] \/ d = [c EXCEPT !.man = other.man]
            \/ d = [c EXCEPT !.data = other.data] \/ d = [c EXCEPT !.hdr = other.hdr, !.man = other.man]
  <2>1. PartsOk([c EXCEPT !.hdr = other.hdr])
    BY ONLY <1>1, <1>6
  <2>2. PartsOk([c EXCEPT !.man = other.man])
    BY ONLY <1>1, <1>7
  <2>3. PartsOk([c EXCEPT !.data = other.data])
    BY ONLY <1>1, <1>8
  <2>4. PartsOk([c EXCEPT !.hdr = other.hdr, !.man = other.man])
    BY ONLY <1>1, <1>10
  <2> QED BY <1>16, <2>1, <2>2, <2>3, <2>4
<1>17. \/ \E x \in DamagedChunks(c.data, other.data) : d = [c EXCEPT !.data = x]
       \/ \E h \in DamagedHeaders(c.hdr) : d = [c EXCEPT !.hdr = h]
       \/ d = [c EXCEPT !.pre = "v2"] \/ d = [c EXCEPT !.man = Noisy]
       \/ d = [c EXCEPT !.ed = SignatureOf(c.hdr.sender, <<>>)]
       \/ d = [c EXCEPT !.pq = {}]
       \/ d = [c EXCEPT !.pq = {SignatureOf(c.hdr.sender, <<>>)}]
       \/ d = [c EXCEPT !.ed = other.ed, !.pq = other.pq]
       \/ d = [c EXCEPT !.hdr = other.hdr] \/ d = [c EXCEPT !.man = other.man]
       \/ d = [c EXCEPT !.data = other.data] \/ d = [c EXCEPT !.hdr = other.hdr, !.man = other.man]
  BY DEF Damaged, Noisy
<1> QED BY <1>12, <1>13, <1>14, <1>15, <1>16, <1>17

\* Damage keeps the invariant.
LEMMA DamageKeeps == ASSUME ContainerIInv, Damage PROVE ContainerIInv'
<1>1. PICK i \in DOMAIN made : disk' \in Damaged(disk, made[i].file)
  BY DEF Damage
<1>2. disk # NoFile /\ damage' = damage + 1 /\ local' = local /\ made' = made
  BY DEF Damage
<1>3. PartsOk(disk) /\ PartsOk(made[i].file)
  BY <1>2, MadeParts DEF ContainerIInv, DiskInv
<1>4. \A d \in Damaged(disk, made[i].file) : PartsOk(d)
  BY <1>3, DamagedOk
<1>5. PartsOk(disk)'
  <2> DEFINE d == disk'
  <2>1. PartsOk(d)
    BY <1>1, <1>4
  <2> QED BY <2>1, <1>2 DEF PartsOk, HeaderOk, ManifestOk, DataOk, ChunkOk, SignatureMade
<1>6. damage' \in Nat /\ damage' # 0
  BY <1>2 DEF ContainerIInv
<1> QED BY <1>2, <1>5, <1>6 DEF ContainerIInv, MadeInv, DiskInv

-------------------------------------------------------------------------------
(* The invariant.                                                            *)

\* The invariant holds initially: nothing has been written.
LEMMA ContainerInvInit == ContainerInit => ContainerIInv
<1> SUFFICES ASSUME ContainerInit PROVE ContainerIInv
  OBVIOUS
<1>1. IsTree(local)
  BY ContainerAssumption DEF ContainerInit
<1> QED BY <1>1, EmptyIsSeq DEF ContainerInit, ContainerIInv, MadeInv, DiskInv

\* Writing a container from another one keeps the invariant.
LEMMA RewriteKeeps ==
    ASSUME ContainerIInv, NEW me \in Ids, NEW to, NEW opt \in Options, Rewrite(me, to, opt)
    PROVE  ContainerIInv'
<1>1. SourceReads(me)
  BY DEF Rewrite
<1>2. Sound(disk.man.body, Source, Origin(me).want, Origin(me).torn)
  BY <1>1, OriginIs
<1>3. CASE Reexport(me, to, opt)
  BY <1>2, <1>3, WriteKeeps DEF Reexport
<1>4. ASSUME NEW add \in Additions, AppendFiles(me, to, opt, add.files, add.dirs)
      PROVE  ContainerIInv'
  <2> DEFINE es == Appended(disk.man.body, add.files, add.dirs)
             plain == Source \o FlattenSeq([i \in DOMAIN add.files |-> add.files[i].streamed])
             torn == Origin(me).torn \/ Changed(add.files)
  <2>1. /\ \A i \in DOMAIN add.files :
               add.files[i].path \notin PathsOf(Appended(disk.man.body, SubSeq(add.files, 1, i - 1), add.dirs))
        /\ WriteContainer(es, plain, TreeWith(es), torn, me, to, opt)
    BY <1>4 DEF AppendFiles
  <2>2. Sound(es, plain, TreeWith(es), torn)
    BY <1>1, <2>1, AppendSound
  <2> HIDE DEF es, plain, torn
  <2> QED BY <2>1, <2>2, WriteKeeps
<1>5. ASSUME NEW add \in Additions, NEW f \in ToSet(add.files), ReplaceFile(me, to, opt, f)
      PROVE  ContainerIInv'
  <2> DEFINE es == disk.man.body
             gone == {e \in ToSet(es) : e.path = f.path /\ IsFile(e)}
             new == [path |-> f.path, kind |-> "file", content |-> f.hashed]
             now == LaidOut(Append(Kept(es, gone), EntryOf(new)))
             plain == KeptData(es, gone) \o f.streamed
             want == {v \in Origin(me).want : v.path # f.path} \cup {new}
             torn == Origin(me).torn \/ Changed(<<f>>)
  <2>1. (\E e \in FilesOf(es) : e.path = f.path) /\ WriteContainer(now, plain, want, torn, me, to, opt)
    BY <1>5 DEF ReplaceFile
  <2>2. IsSeq(f.path) /\ IsSeq(f.hashed) /\ IsSeq(f.streamed)
    BY ContainerAssumption
  <2>3. /\ es = disk.man.body /\ gone = {e \in ToSet(es) : e.path = f.path /\ IsFile(e)}
        /\ new = [path |-> f.path, kind |-> "file", content |-> f.hashed]
    OBVIOUS
  <2> HIDE DEF es, gone, new
  <2>4. Sound(now, plain, want, torn)
    BY <1>1, <2>1, <2>2, <2>3, ReplaceSound
  <2> HIDE DEF now, plain, want, torn
  <2> QED BY <2>1, <2>4, WriteKeeps
<1>6. ASSUME NEW r \in PathsOf(local), RemovePaths(me, to, opt, {r})
      PROVE  ContainerIInv'
  <2> DEFINE roots == {r}
             es == disk.man.body
             gone == {e \in ToSet(es) : Beneath(roots, e.path)}
             now == LaidOut(Kept(es, gone))
             plain == KeptData(es, gone)
             want == {v \in Origin(me).want : ~Beneath(roots, v.path)}
             torn == Origin(me).torn
  <2>1. WriteContainer(now, plain, want, torn, me, to, opt)
    BY <1>6 DEF RemovePaths
  <2>2. es = disk.man.body /\ gone = {e \in ToSet(es) : Beneath(roots, e.path)}
    OBVIOUS
  <2> HIDE DEF roots, es, gone
  <2>3. Sound(now, plain, want, torn)
    BY <1>1, <2>2, RemoveSound
  <2> HIDE DEF now, plain, want, torn
  <2> QED BY <2>1, <2>3, WriteKeeps
<1> QED BY <1>3, <1>4, <1>5, <1>6 DEF Rewrite

\* Every step keeps the invariant.
LEMMA ContainerInvNext == ContainerIInv /\ [ContainerNext]_containerVars => ContainerIInv'
<1> SUFFICES ASSUME ContainerIInv, [ContainerNext]_containerVars PROVE ContainerIInv'
  OBVIOUS
<1>1. ASSUME NEW me \in Ids, NEW to \in Audiences, NEW opt \in Options, ExportPlan(me, to, opt)
      PROVE  ContainerIInv'
  <2>1. IsTree(Live)
    BY LiveIsTree DEF ContainerIInv
  <2> DEFINE vs == Live
             es == LaidOut([i \in DOMAIN vs |-> EntryOf(vs[i])])
  <2>2. Sound(es, ContentsOf(vs), ToSet(vs), FALSE)
    BY <2>1, ExportSound
  <2>3. WriteContainer(es, ContentsOf(vs), ToSet(vs), FALSE, me, to, opt)
    BY <1>1 DEF ExportPlan, Exported
  <2> HIDE DEF vs, es
  <2> QED BY <2>2, <2>3, WriteKeeps
<1>2. ASSUME NEW me \in Ids, NEW to \in Audiences, NEW opt \in Options, ExportVault(me, to, opt)
      PROVE  ContainerIInv'
  <2> DEFINE vs == local
             es == LaidOut([i \in DOMAIN vs |-> EntryOf(vs[i])])
  <2>1. IsTree(vs)
    BY DEF ContainerIInv
  <2>2. WriteContainer(es, ContentsOf(vs), ToSet(vs), FALSE, me, to, opt)
    BY <1>2 DEF ExportVault, Exported
  <2>3. Sound(es, ContentsOf(vs), ToSet(vs), FALSE)
    BY <2>1, ExportSound
  <2> HIDE DEF vs, es
  <2> QED BY <2>2, <2>3, WriteKeeps
<1>3. ASSUME NEW me \in Ids, NEW to \in Audiences, NEW opt \in Options, Rewrite(me, to, opt)
      PROVE  ContainerIInv'
  BY <1>3, RewriteKeeps
<1>4. ASSUME NEW me \in Ids, ImportContainer(me)
      PROVE  ContainerIInv'
  BY <1>4, ImportKeeps
<1>5. CASE Damage
  BY <1>5, DamageKeeps
<1>6. CASE UNCHANGED containerVars
  BY <1>6 DEF containerVars, ContainerIInv, MadeInv, DiskInv, PartsOk, HeaderOk, ManifestOk, DataOk, ChunkOk, SignatureMade
<1> QED BY <1>1, <1>2, <1>3, <1>4, <1>5, <1>6 DEF ContainerNext

\* Every container written is what its writer was given, and whatever happened to the
\* file since, its sections and chunks are written ones or noise.
THEOREM ContainerInductive == ContainerSpec => []ContainerIInv
BY ContainerInvInit, ContainerInvNext, PTL DEF ContainerSpec

\* A file that any identity reads out of the container is one its writer was given.
THEOREM ContainerFaithful == ContainerSpec => []Faithful
<1>1. ContainerIInv => Faithful
  <2> SUFFICES ASSUME ContainerIInv, disk # NoFile, NEW me \in Ids, OpensLazily(disk, me),
                      NEW e \in FilesOf(disk.man.body), ReadsEntry(disk, me, e)
               PROVE  LET m == made[CekOf(disk, me)]
                      IN /\ me \in m.to
                         /\ [path |-> e.path, kind |-> "file",
                             content |-> FileBytes(PlaintextOf(disk.data), e)] \in m.want
    BY DEF Faithful
  <2> DEFINE k == CekOf(disk, me)
             bytes == FileBytes(PlaintextOf(disk.data), e)
  <2>1. k \in DOMAIN made /\ disk.man = made[k].file.man /\ me \in made[k].to
    BY OpenedIs
  <2> HIDE DEF k
  <2>2. MadeOk(k, made[k])
    BY <2>1 DEF ContainerIInv, MadeInv
  <2>3. made[k].want = TreeWith(disk.man.body)
    BY <2>1, <2>2 DEF MadeOk, Sound
  <2>4. bytes = e.hash
    BY DEF ReadsEntry, HashMatches
  <2>5. e \in ToSet(disk.man.body) /\ e.kind = "file"
    BY DEF FilesOf, IsFile
  <2> HIDE DEF bytes
  <2>6. [path |-> e.path, kind |-> e.kind, content |-> e.hash] \in TreeWith(disk.man.body)
    BY <2>5 DEF TreeWith
  <2>7. [path |-> e.path, kind |-> "file", content |-> bytes] \in made[k].want
    BY <2>3, <2>4, <2>5, <2>6
  <2> QED BY <2>1, <2>7 DEF k, bytes
<1> QED BY <1>1, ContainerInductive, PTL

\* What two containers with the same signed part and the lengths they declare share.
LEMMA SameTrailer ==
    ASSUME MadeInv, PartsOk(disk), HeaderValid(disk), NEW j \in DOMAIN made,
           Body(made[j].file) = Body(disk), disk.ed = made[j].file.ed,
           IsHybrid(disk.hdr.suite) => disk.pq = {disk.ed}
    PROVE  disk = made[j].file
<1> DEFINE c == made[j].file
           es == c.man.body
           plain == PlaintextOf(c.data)
           to == made[j].to
           author == c.hdr.sender
<1>1. PICK opt \in Options : c = Written(j, es, plain, author, to, opt) /\ ~PlanRefused(author, to, opt)
  BY DEF MadeInv, MadeOk
<1>2. IsManifest(es) /\ IsSeq(plain) /\ Len(plain) = TotalSize(es)
  BY DEF MadeInv, MadeOk, Sound
<1> HIDE DEF es, plain, to, author
<1>3. c = made[j].file
  OBVIOUS
<1> HIDE DEF c
<1>4. /\ IsData(c.data) /\ c.hdr.dataLen = DataLen(c.data) /\ c.hdr.dataLen \in Nat \ {0}
      /\ c.hdr.manifestLen = ManifestLen(c.man) /\ c.hdr.manifestLen \in Nat \ {0}
      /\ ActualLen(c) = ContainerLen(c.hdr)
  BY <1>1, <1>2, WrittenIs
<1>5. /\ IsHybrid(c.hdr.suite) => c.pq = {c.ed}
      /\ ~IsHybrid(c.hdr.suite) => c.pq = {}
  BY <1>1, WrittenFields
<1>6. c.pre = disk.pre /\ c.hdr = disk.hdr /\ c.man = disk.man /\ c.data = disk.data
  BY <1>3 DEF Body
<1>7. c.pq = disk.pq
  <2>1. CASE IsHybrid(c.hdr.suite)
    <3>1. disk.pq = {disk.ed} /\ disk.ed = c.ed
      BY <2>1, <1>3, <1>6
    <3>2. c.pq = {c.ed}
      BY <2>1, <1>5
    <3> QED BY ONLY <3>1, <3>2
  <2>2. CASE ~IsHybrid(c.hdr.suite)
    <3>1. Cardinality(disk.pq) \in {0, 1} /\ (Cardinality(disk.pq) = 0 => disk.pq = {})
      BY PqCount DEF PartsOk, AtMostOne
    <3>2. ActualLen(disk) = ContainerLen(disk.hdr)
      BY DEF HeaderValid
    <3>3. TrailerLen(c.hdr.suite) = 1
      BY <2>2 DEF TrailerLen
    <3>4. Cardinality(disk.pq) = 0
      BY <1>4, <1>6, <3>1, <3>2, <3>3 DEF ActualLen, ContainerLen
    <3> QED BY <3>1, <3>4, <2>2, <1>5
  <2> QED BY <2>1, <2>2
<1>8. c.ed = disk.ed
  BY <1>3
<1>9. /\ c = [x \in DOMAIN c |-> c[x]] /\ DOMAIN c = {"pre", "hdr", "man", "data", "ed", "pq"}
      /\ disk = [x \in DOMAIN disk |-> disk[x]] /\ DOMAIN disk = {"pre", "hdr", "man", "data", "ed", "pq"}
  BY <1>3, MadeParts DEF PartsOk
<1>10. \A x \in DOMAIN c : c[x] = disk[x]
  BY <1>6, <1>7, <1>8, <1>9
<1>11. c = disk
  BY <1>9, <1>10
<1> QED BY <1>3, <1>11

\* A container that is not one that was written is never imported.
THEOREM ContainerDamageRefused == ContainerSpec => []DamageRefused
<1>1. ContainerIInv => DamageRefused
  <2> SUFFICES ASSUME ContainerIInv, disk # NoFile, \A i \in DOMAIN made : made[i].file # disk,
                      NEW me \in Ids, Imports(disk, me)
               PROVE  FALSE
    BY DEF DamageRefused
  <2> DEFINE good == SignatureOf(disk.hdr.sender, Body(disk))
  <2>1. PartsOk(disk) /\ MadeInv
    BY DEF ContainerIInv, DiskInv
  <2>2. HeaderValid(disk) /\ disk.ed = good /\ (IsHybrid(disk.hdr.suite) => disk.pq = {good})
    BY DEF Imports, VerifyAndOpen, OpensLazily, SignatureOk
  <2>3. good.over = Body(disk) /\ Body(disk) # <<>>
    BY DEF SignatureOf, Body
  <2> HIDE DEF good
  <2>4. PICK j \in DOMAIN made : disk.ed = made[j].file.ed
    BY <2>1, <2>2, <2>3 DEF PartsOk, SignatureMade
  <2>5. made[j].file.ed = SignatureOf(made[j].file.hdr.sender, Body(made[j].file))
    BY <2>1, MadeIs
  <2>6. made[j].file.ed.over = Body(made[j].file)
    BY <2>5 DEF SignatureOf
  <2>7. Body(made[j].file) = Body(disk)
    BY <2>2, <2>3, <2>4, <2>6
  <2>8. disk = made[j].file
    BY <2>1, <2>2, <2>4, <2>7, SameTrailer
  <2> QED BY <2>8
<1> QED BY <1>1, ContainerInductive, PTL

-------------------------------------------------------------------------------
(* An undamaged container opens, and yields the tree it was made of.         *)

\* The chunk of a byte.
LEMMA QuotientBelow ==
    ASSUME NEW a \in Nat, NEW n \in Nat, NEW d \in Nat \ {0}, a < n * d
    PROVE  a \div d \in Nat /\ a \div d < n
<1> DEFINE q == a \div d
           r == a % d
<1>1. q \in Nat /\ r \in Nat /\ a = q * d + r
  BY SMTT(30)
<1> HIDE DEF q, r
<1> SUFFICES ASSUME n <= q PROVE FALSE
  BY <1>1 DEF q
<1>2. n * d <= q * d
  BY <1>1, TimesMonotone
<1> DEFINE x == n * d
           y == q * d
<1>3. x \in Nat /\ y \in Nat /\ x <= y /\ a < x /\ a = y + r
  BY <1>1, <1>2
<1> HIDE DEF x, y
<1> QED BY <1>1, <1>3

\* A tree has as many nodes as its manifest has entries.
LEMMA TreeSize ==
    ASSUME NEW es, IsManifest(es)
    PROVE  Cardinality(TreeWith(es)) = Len(es) /\ Len(es) \in Nat
<1> DEFINE rec(i) == [path |-> es[i].path, kind |-> es[i].kind, content |-> es[i].hash]
           T == TreeWith(es)
           F == [i \in 1 .. Len(es) |-> rec(i)]
<1>1. Len(es) \in Nat /\ DOMAIN es = 1 .. Len(es)
  BY ManifestIs
<1>2. T = {rec(i) : i \in 1 .. Len(es)}
  BY <1>1, TreeWithIs
<1>3. \A i \in 1 .. Len(es) : rec(i).path = es[i].path
  OBVIOUS
<1>4. \A i, j \in 1 .. Len(es) : es[i].path = es[j].path => i = j
  BY <1>1 DEF IsManifest
<1> HIDE DEF rec, T
<1>5. \A i, j \in 1 .. Len(es) : rec(i) = rec(j) => i = j
  BY <1>3, <1>4
<1>6. F \in [1 .. Len(es) -> T]
  BY <1>2
<1>7. \A i, j \in 1 .. Len(es) : F[i] = F[j] => i = j
  BY <1>5
<1>8. \A t \in T : \E i \in 1 .. Len(es) : F[i] = t
  BY <1>2
<1> HIDE DEF F
<1>9. F \in Bijection(1 .. Len(es), T)
  BY <1>6, <1>7, <1>8 DEF Bijection, Injection, IsInjective, Surjection
<1>10. ExistsBijection(1 .. Len(es), T)
  BY <1>9 DEF ExistsBijection
<1>11. Cardinality(T) = Len(es)
  BY <1>1, <1>10, FS_CountingElements
<1> QED BY <1>1, <1>11 DEF T

\* The layout check asks of a manifest what its tree tells.
LEMMA LayoutIs ==
    ASSUME NEW es, IsManifest(es), Placed(es), NEW chunk, NEW dataLen,
           dataLen = DataCiphertextLen(TotalSize(es), chunk)
    PROVE  ValidManifestLayout(es, chunk, dataLen) <=> Acceptable(TreeWith(es))
<1> DEFINE rec(i) == [path |-> es[i].path, kind |-> es[i].kind, content |-> es[i].hash]
           T == TreeWith(es)
<1>1. T = {rec(i) : i \in DOMAIN es}
  BY TreeWithIs
<1>2. \A i \in DOMAIN es : rec(i).path = es[i].path /\ rec(i).kind = es[i].kind
  OBVIOUS
<1>3. Cardinality(T) = Len(es)
  BY TreeSize
<1> HIDE DEF rec, T
<1>4. (\A v \in T : WellNamed(v.path)) <=> \A i \in DOMAIN es : WellNamed(es[i].path)
  BY <1>1, <1>2
<1>5. (\A v, w \in T : v.kind = "file" => v.path \notin Ancestors(w.path)) <=> TreeShapeOk(es)
  BY <1>1, <1>2 DEF TreeShapeOk, IsFile
<1>6. /\ \A i, j \in DOMAIN es : es[i].path = es[j].path => i = j
      /\ \A i \in DOMAIN es : IsFile(es[i]) => es[i].offset = TotalSize(SubSeq(es, 1, i - 1))
  BY DEF IsManifest, Placed
<1> QED BY <1>3, <1>4, <1>5, <1>6 DEF ValidManifestLayout, Acceptable, T

\* The bytes of an entry are where the entry says.
LEMMA BytesOf ==
    ASSUME NEW es, IsManifest(es), Placed(es), NEW plain, IsSeq(plain), Carries(es, plain), NEW i \in DOMAIN es
    PROVE  /\ FileBytes(plain, es[i]) = es[i].hash
           /\ IsFile(es[i]) => /\ es[i].offset \in Nat /\ es[i].size \in Nat
                               /\ es[i].offset + es[i].size <= TotalSize(es)
<1> DEFINE e == es[i]
           tot(n) == TotalSize(SubSeq(es, 1, n))
<1>1. Sized(es) /\ Len(es) \in Nat /\ DOMAIN es = 1 .. Len(es) /\ IsEntry(e) /\ e.size \in Nat
  BY ManifestIs
<1>2. i \in 0 .. Len(es) /\ i - 1 \in 0 .. Len(es) /\ i \in 1 .. Len(es)
  BY <1>1
<1>3. tot(i - 1) \in Nat /\ tot(i) \in Nat /\ tot(i) = tot(i - 1) + e.size /\ tot(i) <= TotalSize(es)
  BY <1>1, <1>2, TotalPrefix, TotalMonotone
<1>4. IsFile(e) => e.offset = tot(i - 1)
  BY DEF Placed
<1>5. SubSeq(plain, tot(i - 1) + 1, tot(i)) = e.hash
  BY DEF Carries
<1> HIDE DEF e, tot
<1>6. CASE IsFile(e)
  <2> DEFINE a == tot(i - 1)
             b == tot(i)
  <2>1. a \in Nat /\ b \in Nat /\ b = a + e.size /\ b <= TotalSize(es) /\ e.offset = a
    BY <1>3, <1>4, <1>6
  <2>2. SubSeq(plain, a + 1, b) = e.hash
    BY <1>5
  <2> HIDE DEF a, b
  <2>3. FileBytes(plain, e) = e.hash
    BY <2>1, <2>2 DEF FileBytes
  <2>4. e.offset \in Nat /\ e.size \in Nat /\ e.offset + e.size <= TotalSize(es)
    BY <1>1, <2>1
  <2> QED BY <2>3, <2>4 DEF e
<1>7. CASE ~IsFile(e)
  <2>1. e.hash = <<>> /\ e.size = 0 /\ e.offset \in Nat
    BY <1>1, <1>7, EmptyIsSeq DEF IsEntry, IsFile
  <2> DEFINE o == e.offset
  <2>2. e.offset + e.size = o /\ o \in Nat
    BY <2>1
  <2> HIDE DEF o
  <2>3. SubSeq(plain, o + 1, o) = <<>>
    BY <2>2, SubSeqEmpty
  <2>4. FileBytes(plain, e) = <<>>
    BY <2>2, <2>3 DEF FileBytes, o
  <2> QED BY <2>1, <2>4, <1>7 DEF e
<1> QED BY <1>6, <1>7

\* A written container opens for its recipients, and for them alone, if its tree is one
\* that readers accept.
LEMMA MadeOpens ==
    ASSUME MadeInv, NEW k \in DOMAIN made, NEW me, NEW c, c = made[k].file
    PROVE  VerifyAndOpen(c, me) <=> me \in made[k].to /\ Acceptable(made[k].want)
<1> DEFINE es == c.man.body
           total == TotalSize(es)
           suite == c.hdr.suite
<1>1. /\ c.pre = "v1" /\ c.man.key = k /\ c.man.aad = c.hdr
      /\ IsManifest(es) /\ Placed(es)
      /\ c.hdr.fpr = c.hdr.sender
      /\ c.hdr.dataLen = DataCiphertextLen(total, c.hdr.chunk)
      /\ c.ed = SignatureOf(c.hdr.sender, Body(c))
      /\ HeaderValid(c)
  BY MadeIs
<1>2. /\ IsHybrid(suite) => c.pq = {c.ed}
      /\ IsHybrid(suite) => c.hdr.sender \in PqIds /\ made[k].to \subseteq PqIds
  <2> DEFINE plain == PlaintextOf(c.data)
             to == made[k].to
             author == c.hdr.sender
  <2>1. PICK opt \in Options : c = Written(k, es, plain, author, to, opt) /\ ~PlanRefused(author, to, opt)
    BY DEF MadeInv, MadeOk
  <2> HIDE DEF es, plain, to, author
  <2>2. c.hdr = HeaderFor(k, es, TotalSize(es), author, to, opt) /\ (IsHybrid(c.hdr.suite) => c.pq = {c.ed})
    BY <2>1, WrittenFields
  <2>3. c.hdr.suite = opt.suite
    BY <2>2, HeaderIs
  <2>4. IsHybrid(opt.suite) => author \in PqIds /\ to \subseteq PqIds
    BY <2>1 DEF PlanRefused
  <2> QED BY <2>2, <2>3, <2>4 DEF author, to
<1>3. made[k].want = TreeWith(es)
  BY DEF MadeInv, MadeOk, Sound
<1>4. /\ \A s \in c.hdr.recipients : s.cek = k /\ s.fpr \in made[k].to
      /\ \A r \in made[k].to : WrapForRecipient(k, r, suite) \in c.hdr.recipients
  BY StanzasOf
<1>5. c # NoFile
  BY <1>1 DEF NoFile
<1> HIDE DEF es, suite
<1>6. ValidManifestLayout(es, c.hdr.chunk, c.hdr.dataLen) <=> Acceptable(made[k].want)
  BY <1>1, <1>3, LayoutIs
<1>7. SignatureOk(c)
  BY <1>1, <1>2 DEF SignatureOk, suite
<1>8. ASSUME VerifyAndOpen(c, me) PROVE me \in made[k].to
  BY <1>4, <1>8 DEF VerifyAndOpen, OpensLazily, StanzaFor
<1>9. ASSUME me \in made[k].to PROVE \E s \in StanzaFor(c, me) : ManifestOpens(c.man, s.cek, c.hdr)
  <2> DEFINE s == WrapForRecipient(k, me, suite)
             boxes == IF IsHybrid(suite) THEN {me} ELSE {}
  <2>1. s.fpr = me /\ s.kem = KemKey(me) /\ s.mlkem = boxes /\ s.cek = k
    BY DEF WrapForRecipient
  <2>2. s \in c.hdr.recipients
    BY <1>4, <1>9
  <2>3. boxes # {} => me \in PqIds /\ me \in boxes
    BY <1>2, <1>9
  <2> HIDE DEF s, boxes
  <2>4. Unwraps(s, me)
    BY <2>1, <2>3 DEF Unwraps
  <2>5. ManifestOpens(c.man, s.cek, c.hdr)
    BY <2>1, <1>1 DEF ManifestOpens
  <2> QED BY <2>1, <2>2, <2>4, <2>5 DEF StanzaFor
<1> QED BY <1>1, <1>5, <1>6, <1>7, <1>8, <1>9 DEF VerifyAndOpen, OpensLazily, es

\* ... and then every way to read it gives the tree of its writer.
LEMMA MadeReads ==
    ASSUME MadeInv, NEW k \in DOMAIN made, NEW me, NEW c, c = made[k].file, CekOf(c, me) = k, ~made[k].torn
    PROVE  /\ ReadsAll(c, me) /\ TreeOf(c) = made[k].want
           /\ \A e \in FilesOf(c.man.body) : ReadsEntry(c, me, e)
<1> DEFINE es == c.man.body
           plain == PlaintextOf(c.data)
           total == TotalSize(es)
           chunk == c.hdr.chunk
           N == ChunkCount(total, chunk)
<1>1. Sound(es, plain, made[k].want, made[k].torn)
  BY DEF MadeInv, MadeOk
<1>2. /\ IsManifest(es) /\ Placed(es) /\ IsSeq(plain) /\ Carries(es, plain)
      /\ made[k].want = TreeWith(es)
  BY <1>1 DEF Sound
<1>3. /\ total \in Nat /\ chunk \in Nat \ {0} /\ IsData(c.data) /\ Len(c.data) = N
      /\ StreamChunks(c.data, k, c.hdr, N, chunk)
  BY MadeIs
<1>4. N \in Nat \ {0} /\ total <= N * chunk
  BY <1>3, ChunkCountIs
<1>5. DOMAIN c.data = 1 .. N
  BY <1>3, IsSeqIs DEF IsData
<1> HIDE DEF es, plain, total, chunk, N
<1>6. \A i \in DOMAIN es : /\ FileBytes(plain, es[i]) = es[i].hash
                           /\ IsFile(es[i]) => /\ es[i].offset \in Nat /\ es[i].size \in Nat
                                               /\ es[i].offset + es[i].size <= total
  BY <1>2, BytesOf DEF total
<1>7. StreamOpens(c.data, k, c.hdr)
  BY <1>3, <1>5 DEF StreamOpens, StreamChunks
<1>8. \A e \in ToSet(es) : FileBytes(plain, e) = e.hash
  BY <1>6 DEF ToSet
<1>9. ReadsAll(c, me)
  BY <1>7, <1>8 DEF ReadsAll, FilesOf, HashMatches, es, plain
<1>10. TreeOf(c) = made[k].want
  <2>1. TreeOf(c) = {[path |-> e.path, kind |-> e.kind, content |-> FileBytes(plain, e)] : e \in ToSet(es)}
    BY DEF TreeOf, plain, es
  <2>2. {[path |-> e.path, kind |-> e.kind, content |-> FileBytes(plain, e)] : e \in ToSet(es)} = TreeWith(es)
    BY <1>8 DEF TreeWith
  <2> QED BY <2>1, <2>2, <1>2
<1>11. ASSUME NEW e \in FilesOf(es) PROVE ReadsEntry(c, me, e)
  <2>1. e \in ToSet(es) /\ IsFile(e)
    BY DEF FilesOf
  <2>2. e.offset \in Nat /\ e.size \in Nat /\ e.offset + e.size <= total
    BY <2>1, <1>6 DEF ToSet
  <2>3. HashMatches(plain, e)
    BY <2>1, <1>8 DEF HashMatches
  <2>4. ASSUME e.size > 0, NEW n \in CoveringChunks(e, chunk) PROVE ReadsChunk(c, me, n)
    <3> DEFINE a == e.offset
               b == e.offset + e.size - 1
    <3>1. a \in Nat /\ b \in Nat /\ a < N * chunk /\ b < N * chunk
      <4> DEFINE x == N * chunk
      <4>1. x \in Nat /\ total <= x
        BY <1>3, <1>4
      <4> HIDE DEF x
      <4>2. a \in Nat /\ b \in Nat /\ a < x /\ b < x
        BY <2>2, <2>4, <4>1, <1>3
      <4> QED BY <4>2 DEF x
    <3>2. n \in a \div chunk .. b \div chunk
      BY DEF CoveringChunks
    <3> HIDE DEF a, b
    <3>3. a \div chunk \in Nat /\ b \div chunk \in Nat /\ b \div chunk < N
      BY <3>1, <1>3, <1>4, QuotientBelow
    <3> DEFINE x == a \div chunk
               y == b \div chunk
    <3>4. x \in Nat /\ y \in Nat /\ y < N /\ n \in x .. y
      BY <3>2, <3>3
    <3> HIDE DEF x, y
    <3>5. n \in 0 .. N - 1 /\ n + 1 \in 1 .. N /\ n < N /\ (n + 1) - 1 = n
      BY <3>4, <1>4
    <3>6. ChunkOpens(c.data[n + 1], k, c.hdr, n, n + 1 = N)
      BY <1>3, <3>5 DEF StreamChunks
    <3>7. StartOf(c.data, n + 1) = n * (chunk + Tag)
      BY <1>3, <3>5 DEF StreamChunks, StartOf
    <3> QED BY <3>5, <3>6, <3>7, <1>3 DEF ReadsChunk, chunk
  <2> QED BY <2>3, <2>4 DEF ReadsEntry, plain, chunk
<1> QED BY <1>9, <1>10, <1>11 DEF es

\* An undamaged container opens for its recipients alone, and gives the tree of its writer.
THEOREM ContainerHonestOpens == ContainerSpec => []HonestOpens
<1>1. ContainerIInv => HonestOpens
  <2> SUFFICES ASSUME ContainerIInv, disk # NoFile, damage = 0
               PROVE  LET m == made[Len(made)]
                      IN /\ ActualLen(disk) = m.len
                         /\ \A me \in Ids :
                               /\ VerifyAndOpen(disk, me) <=> me \in m.to /\ Acceptable(m.want)
                               /\ VerifyAndOpen(disk, me) /\ ~m.torn =>
                                     /\ Imports(disk, me) /\ TreeOf(disk) = m.want
                                     /\ \A e \in FilesOf(disk.man.body) : ReadsEntry(disk, me, e)
    BY DEF HonestOpens
  <2> DEFINE k == Len(made)
  <2>1. MadeInv /\ made # <<>> /\ disk = made[k].file
    BY DEF ContainerIInv, DiskInv
  <2>2. k \in DOMAIN made
    <3>1. IsSeq(made)
      BY <2>1 DEF MadeInv
    <3>2. k \in Nat /\ DOMAIN made = 1 .. k
      BY <3>1, IsSeqIs
    <3>3. k # 0
      BY <2>1, <3>1, EmptyIsSeq, SameSeq
    <3> QED BY <3>2, <3>3
  <2> HIDE DEF k
  <2>3. ActualLen(disk) = made[k].len /\ disk.man.key = k
    BY <2>1, <2>2, MadeIs
  <2>4. ASSUME NEW me \in Ids
        PROVE  VerifyAndOpen(disk, me) <=> me \in made[k].to /\ Acceptable(made[k].want)
    BY <2>1, <2>2, MadeOpens
  <2>5. ASSUME NEW me \in Ids, VerifyAndOpen(disk, me), ~made[k].torn
        PROVE  /\ Imports(disk, me) /\ TreeOf(disk) = made[k].want
               /\ \A e \in FilesOf(disk.man.body) : ReadsEntry(disk, me, e)
    <3>1. OpensLazily(disk, me)
      BY <2>5 DEF VerifyAndOpen
    <3>2. CekOf(disk, me) \in DOMAIN made /\ disk.man = made[CekOf(disk, me)].file.man
      BY <3>1, OpenedIs
    <3>3. CekOf(disk, me) = k
      BY <2>1, <2>3, <3>2, MadeIs
    <3>4. /\ ReadsAll(disk, me) /\ TreeOf(disk) = made[k].want
          /\ \A e \in FilesOf(disk.man.body) : ReadsEntry(disk, me, e)
      BY <2>1, <2>2, <2>5, <3>3, MadeReads
    <3> QED BY <2>5, <3>4 DEF Imports
  <2> QED BY <2>3, <2>4, <2>5 DEF k
<1> QED BY <1>1, ContainerInductive, PTL

-------------------------------------------------------------------------------
(* Counting the presses of Accept in a queue of commands.                     *)

\* The positions of Accept in a queue are a finite set.
LEMMA AcceptsNat ==
    ASSUME NEW S, NEW q \in Seq(S)
    PROVE  /\ Accepts(q) \in Nat
           /\ IsFiniteSet({i \in 1..Len(q) : q[i] = "accept"})
<1>1. IsFiniteSet(1..Len(q))
  BY FS_Interval
<1> QED
  BY <1>1, FS_Subset, FS_CardinalityType DEF Accepts

\* An empty queue holds none.
LEMMA AcceptsEmpty == Accepts(<<>>) = 0
<1>1. {i \in 1..Len(<<>>) : <<>>[i] = "accept"} = {}
  OBVIOUS
<1> QED
  BY <1>1, FS_EmptySet DEF Accepts

\* A command that is queued counts if it is Accept.
LEMMA AcceptsAppend ==
    ASSUME NEW S, NEW q \in Seq(S), NEW e \in S
    PROVE  Accepts(Append(q, e)) = Accepts(q) + (IF e = "accept" THEN 1 ELSE 0)
<1> DEFINE A == {i \in 1..Len(q) : q[i] = "accept"}
           B == {i \in 1..Len(Append(q, e)) : Append(q, e)[i] = "accept"}
<1>1. IsFiniteSet(A) /\ Cardinality(A) \in Nat
  BY AcceptsNat DEF Accepts
<1>a. Accepts(q) = Cardinality(A) /\ Accepts(Append(q, e)) = Cardinality(B)
  BY DEF Accepts
<1>2. CASE e = "accept"
  <2>1. B = A \cup {Len(q) + 1} /\ Len(q) + 1 \notin A
    BY <1>2, AppendProperties
  <2>2. Cardinality(A \cup {Len(q) + 1}) = Cardinality(A) + 1
    BY <1>1, <2>1, FS_AddElement
  <2> HIDE DEF A, B
  <2> QED
    BY <1>2, <1>a, <2>1, <2>2
<1>3. CASE e # "accept"
  <2>1. B = A
    BY <1>3, AppendProperties
  <2> HIDE DEF A, B
  <2> QED
    BY <1>1, <1>3, <1>a, <2>1
<1> QED
  BY <1>2, <1>3

\* A command other than Accept does not count.
LEMMA AcceptsAppendOther ==
    ASSUME NEW S, NEW q \in Seq(S), NEW e \in S, e # "accept"
    PROVE  Accepts(Append(q, e)) = Accepts(q)
<1>1. Accepts(q) \in Nat
  BY AcceptsNat
<1>2. Accepts(Append(q, e)) = Accepts(q) + (IF e = "accept" THEN 1 ELSE 0)
  BY AcceptsAppend
<1> QED
  BY <1>1, <1>2

\* A command that is taken from the queue counted if it was Accept.
LEMMA AcceptsTail ==
    ASSUME NEW S, NEW q \in Seq(S), q # <<>>
    PROVE  Accepts(q) = Accepts(Tail(q)) + (IF Head(q) = "accept" THEN 1 ELSE 0)
<1> DEFINE t == Tail(q)
           A == {i \in 1..Len(q) : q[i] = "accept"}
           B == {i \in 1..Len(t) : t[i] = "accept"}
           C == A \ {1}
           f == [i \in B |-> i + 1]
<1>1. t \in Seq(S) /\ Len(t) = Len(q) - 1 /\ Len(q) \in Nat \ {0}
      /\ \A i \in 1..Len(t) : t[i] = q[i + 1]
  OBVIOUS
<1>2. IsFiniteSet(A) /\ IsFiniteSet(B)
  BY <1>1, AcceptsNat
<1>3. f \in Bijection(B, C)
  <2>1. f \in [B -> C]
    BY <1>1
  <2>2. \A i, j \in B : f[i] = f[j] => i = j
    BY <1>1
  <2>3. \A k \in C : k - 1 \in B /\ f[k - 1] = k
    BY <1>1
  <2>4. f \in Injection(B, C)
    BY <2>1, <2>2 DEF Injection, IsInjective
  <2>5. f \in Surjection(B, C)
    BY <2>1, <2>3 DEF Surjection
  <2> QED
    BY <2>4, <2>5 DEF Bijection
<1>4. Cardinality(C) = Cardinality(B)
  BY <1>2, <1>3, FS_Bijection DEF ExistsBijection
<1>5. Cardinality(C) = IF 1 \in A THEN Cardinality(A) - 1 ELSE Cardinality(A)
  BY <1>2, FS_RemoveElement
<1>6. 1 \in A <=> Head(q) = "accept"
  BY <1>1
<1>7. Cardinality(A) \in Nat
  BY <1>2, FS_CardinalityType
<1>8. Accepts(q) = Cardinality(A) /\ Accepts(Tail(q)) = Cardinality(B)
  BY DEF Accepts
<1> HIDE DEF t, A, B, C, f
<1> QED
  BY <1>4, <1>5, <1>6, <1>7, <1>8

-------------------------------------------------------------------------------
(* The receiver and its peers.                                                *)

\* The invariant holds before anything has happened.
LEMMA InitInv == Init => IInv
BY TransferAssumption DEF Init, IInv, TypeOK, Transferring, OwnerInv, AnswerInv, StoppedInv

\* The types of what is done to queues.
LEMMA QueueTypes ==
    ASSUME NEW S
    PROVE  /\ <<>> \in Seq(S)
           /\ \A q \in Seq(S) : q # <<>> => Head(q) \in S /\ Tail(q) \in Seq(S)
           /\ \A q \in Seq(S), e \in S : Append(q, e) \in Seq(S) /\ <<e>> \o q \in Seq(S)
OBVIOUS

\* A worker that ends keeps the types.
LEMMA EndType ==
    ASSUME TypeOK, NEW c \in Conns, NEW next \in {"report", "closed"}, End(c, next),
           stored' \in SUBSET Conns, down' \in [Conns -> {"nothing", "auth", "accept", "decline"}]
    PROVE  TypeOK'
<1> USE DEF TypeOK, End, Transferring, senderVars
<1>1. <<>> \in Seq(FrameType) /\ <<>> \in Seq(Nat) /\ <<>> \in Seq({"accept", "reject", "cancel"})
  OBVIOUS
<1>2. worker' \in [Conns -> {"none", "hello", "confirm", "report", "closed"} \cup Transferring]
  OBVIOUS
<1>3. up' \in [Conns -> Seq(FrameType)] /\ got' \in [Conns -> Seq(Nat)]
  BY <1>1
<1>4. active' \in Conns \cup {None} /\ channel' \in Seq({"accept", "reject", "cancel"})
  BY <1>1
<1> QED
  BY <1>2, <1>3, <1>4

\* A frame written to a connection keeps its type.
LEMMA WriteType ==
    ASSUME TypeOK, NEW c \in Conns, NEW frame \in FrameType, Write(c, frame)
    PROVE  up' \in [Conns -> Seq(FrameType)]
<1>1. up[c] \in Seq(FrameType) /\ up \in [Conns -> Seq(FrameType)]
  BY DEF TypeOK
<1>2. Append(up[c], frame) \in Seq(FrameType)
  BY <1>1, QueueTypes
<1> QED
  BY <1>1, <1>2 DEF Write

\* Every step preserves the types.
LEMMA TypeStep ==
    ASSUME TypeOK, [Next]_vars
    PROVE  TypeOK'
<1> USE DEF TypeOK, Transferring, FrameType, listenVars, workerVars, windowVars,
   senderVars, wireVars
<1>q. /\ <<>> \in Seq({"accept", "reject", "stop"}) /\ <<>> \in Seq({"accept", "reject", "cancel"})
      /\ channel # <<>> => Tail(channel) \in Seq({"accept", "reject", "cancel"})
      /\ commands # <<>> => Tail(commands) \in Seq({"accept", "reject", "stop"})
                          /\ Head(commands) \in {"accept", "reject", "stop"}
      /\ \A e \in {"accept", "reject", "cancel"} :
            Append(channel, e) \in Seq({"accept", "reject", "cancel"})
      /\ \A c \in Conns : up[c] # <<>> => /\ Tail(up[c]) \in Seq(FrameType)
                                        /\ Head(up[c]) \in FrameType
                                        /\ <<Head(up[c])>> \o up[c] \in Seq(FrameType)
  BY QueueTypes
<1>r. \A c \in Conns : up[c] # <<>> => Append(got[c], Head(up[c]).n) \in Seq(Nat)
  BY <1>q, QueueTypes
<1>1. CASE StartListen
  BY <1>1 DEF StartListen
<1>2. CASE poll_transfer
  BY <1>2 DEF poll_transfer
<1>3. CASE Decide("accept")
  BY <1>3 DEF Decide
<1>4. CASE Decide("reject")
  BY <1>4 DEF Decide
<1>5. CASE stop_transfer
  BY <1>5 DEF stop_transfer
<1>6. CASE Listen
  BY <1>6, <1>q DEF Listen, Down
<1>7. CASE RouteCommand
  BY <1>7, <1>q DEF RouteCommand, Down, forward_command
<1>8. CASE AcceptFails
  BY <1>8, <1>q DEF AcceptFails, Down
<1>9. ASSUME NEW a \in Addresses, BackoffOver(a) PROVE TypeOK'
  BY <1>9 DEF BackoffOver
<1>10. ASSUME NEW c \in Conns, Accept(c) PROVE TypeOK'
  BY <1>10 DEF Accept
<1>11. ASSUME NEW c \in Conns, ReadHello(c) PROVE TypeOK'
  <2>1. CASE Probe(c)
    BY <1>11, <2>1, EndType DEF Probe
  <2>2. CASE ~Probe(c)
    <3>1. /\ worker' = [worker EXCEPT ![c] = "confirm"]
          /\ up' = [up EXCEPT ![c] = Tail(up[c])] /\ up[c] # <<>>
          /\ down' = [down EXCEPT ![c] = "auth"]
          /\ UNCHANGED <<listener, active, channel, commands, unfinished, got, stored, sender, sent>>
      BY <1>11, <2>2 DEF ReadHello, Step
    <3> QED
      BY <1>11, <2>2, <3>1, <1>q
  <2> QED
    BY <1>11, <2>1, <2>2
<1>12. ASSUME NEW c \in Conns, ReadConfirm(c) PROVE TypeOK'
  <2>1. CASE Shown(c)
    BY <1>12, <2>1, EndType DEF Shown
  <2>2. CASE Quiet(c)
    BY <1>12, <2>2, EndType DEF Quiet
  <2>3. CASE ~Shown(c) /\ ~Quiet(c)
    <3>1. /\ worker' = [worker EXCEPT ![c] = "offer"]
          /\ up' = [up EXCEPT ![c] = Tail(up[c])] /\ up[c] # <<>>
          /\ active' = c /\ channel' = <<>>
          /\ UNCHANGED <<listener, commands, unfinished, got, stored, sender, sent, down>>
      BY <1>12, <2>3 DEF ReadConfirm, Step
    <3> QED
      BY <1>12, <2>3, <3>1, <1>q
  <2> QED
    BY <1>12, <2>1, <2>2, <2>3
<1>13. ASSUME NEW c \in Conns, Poll(c) PROVE TypeOK'
  <2>1. CASE Shown(c)
    BY <1>13, <2>1, EndType DEF Shown
  <2>2. CASE ~Shown(c)
    BY <1>13, <2>2, <1>q, <1>r DEF Poll
  <2> QED
    BY <1>13, <2>1, <2>2
<1>14. ASSUME NEW c \in Conns, ReadOffer(c) PROVE TypeOK'
  <2>1. CASE Shown(c)
    BY <1>14, <2>1, EndType DEF Shown
  <2>2. CASE ~Shown(c) /\ ~End(c, "report")
    BY <1>14, <2>2, <1>q, <1>r DEF ReadOffer, Step
  <2>3. CASE ~Shown(c) /\ ~Step(c, "decide")
    BY <1>14, <2>3, EndType DEF ReadOffer
  <2> QED
    BY <1>14, <2>1, <2>2, <2>3 DEF ReadOffer, Step, End
<1>15. ASSUME NEW c \in Conns, WaitDecision(c) PROVE TypeOK'
  <2>1. CASE Quiet(c)
    BY <1>15, <2>1, EndType DEF Quiet
  <2>2. CASE ~Quiet(c) /\ ~End(c, "closed")
    BY <1>15, <2>2, <1>q, <1>r DEF WaitDecision
  <2>3. CASE ~Quiet(c) /\ End(c, "closed")
    BY <1>15, <2>3, EndType DEF WaitDecision
  <2> QED
    BY <1>15, <2>1, <2>2, <2>3
<1>16. ASSUME NEW c \in Conns, NextRecord(c) PROVE TypeOK'
  <2>1. CASE Shown(c)
    BY <1>16, <2>1, EndType DEF Shown
  <2>2. CASE ~Shown(c)
    BY <1>16, <2>2, <1>q, <1>r DEF NextRecord
  <2> QED
    BY <1>16, <2>1, <2>2
<1>17. ASSUME NEW c \in Conns, ReadRecord(c) PROVE TypeOK'
  <2>1. CASE Shown(c)
    BY <1>17, <2>1, EndType DEF Shown
  <2>2. CASE ~Shown(c) /\ Step(c, "receive")
    <3>1. /\ worker' = [worker EXCEPT ![c] = "receive"]
          /\ up' = [up EXCEPT ![c] = Tail(up[c])] /\ up[c] # <<>>
          /\ got' = [got EXCEPT ![c] = Append(got[c], Head(up[c]).n)]
          /\ UNCHANGED <<listener, active, channel, commands, unfinished, stored, sender, sent, down>>
      BY <1>17, <2>2 DEF ReadRecord, Step
    <3> QED
      BY <1>17, <2>2, <3>1, <1>q, <1>r
  <2>3. CASE ~Shown(c) /\ ~Step(c, "receive")
    <3>1. /\ worker' = [worker EXCEPT ![c] = "import"]
          /\ up' = [up EXCEPT ![c] = Tail(up[c])] /\ up[c] # <<>>
          /\ UNCHANGED <<listener, active, channel, commands, unfinished, got, stored, sender, sent,
                         down>>
      BY <1>17, <2>3 DEF ReadRecord, Step
    <3> QED
      BY <1>17, <2>3, <3>1, <1>q
  <2> QED
    BY <1>17, <2>1, <2>2, <2>3
<1>18. ASSUME NEW c \in Conns, Import(c) PROVE TypeOK'
  BY <1>18, EndType DEF Import
<1>19. ASSUME NEW c \in Conns, GivesUp(c) PROVE TypeOK'
  <2>1. CASE Shown(c)
    BY <1>19, <2>1, EndType DEF Shown
  <2>2. CASE Quiet(c)
    BY <1>19, <2>2, EndType DEF Quiet
  <2>3. CASE Probe(c)
    BY <1>19, <2>3, EndType DEF Probe
  <2> QED
    BY <1>19, <2>1, <2>2, <2>3 DEF GivesUp
<1>20. ASSUME NEW c \in Conns, Report(c) PROVE TypeOK'
  BY <1>20 DEF Report
<1>21. ASSUME NEW c \in Conns, Dial(c) PROVE TypeOK'
  BY <1>21 DEF Dial, Advance, Write, Frame
<1>22. ASSUME NEW c \in Conns, WriteConfirm(c) PROVE TypeOK'
  BY <1>22 DEF WriteConfirm, Advance, Write, Frame
<1>23. ASSUME NEW c \in Conns, WriteOffer(c) PROVE TypeOK'
  BY <1>23 DEF WriteOffer, Advance, Write, Frame
<1>24. ASSUME NEW c \in Conns, ReadDecision(c) PROVE TypeOK'
  BY <1>24 DEF ReadDecision, Advance
<1>25. ASSUME NEW c \in Conns, WriteData(c) PROVE TypeOK'
  <2>1. sent[c] + 2 \in Nat \ {0, 1} /\ sent' \in [Conns -> Nat]
    BY <1>25 DEF WriteData
  <2>2. Frame("data", sent[c] + 2) \in FrameType
    BY <2>1 DEF Frame
  <2>3. up' \in [Conns -> Seq(FrameType)]
    BY <1>25, <2>2, WriteType DEF WriteData
  <2> HIDE DEF FrameType
  <2> QED
    BY <1>25, <2>1, <2>3 DEF WriteData, Advance
<1>26. ASSUME NEW c \in Conns, WriteDone(c) PROVE TypeOK'
  <2>1. sent[c] + 2 \in Nat \ {0, 1} /\ sent' \in [Conns -> Nat]
    BY <1>26 DEF WriteDone
  <2>2. Frame("done", sent[c] + 2) \in FrameType
    BY <2>1 DEF Frame
  <2>3. up' \in [Conns -> Seq(FrameType)]
    BY <1>26, <2>2, WriteType DEF WriteDone
  <2> HIDE DEF FrameType
  <2> QED
    BY <1>26, <2>1, <2>3 DEF WriteDone, Advance
<1>27. ASSUME NEW c \in Conns, SenderFails(c) PROVE TypeOK'
  BY <1>27 DEF SenderFails, Advance
<1>28. ASSUME NEW c \in Conns, LoseOrRepeat(c) PROVE TypeOK'
  BY <1>28, <1>q DEF LoseOrRepeat
<1>29. CASE UNCHANGED vars
  BY <1>29 DEF vars
<1> QED
  BY <1>1, <1>2, <1>3, <1>4, <1>5, <1>6, <1>7, <1>8, <1>9, <1>10, <1>11, <1>12, <1>13,
     <1>14, <1>15, <1>16, <1>17, <1>18, <1>19, <1>20, <1>21, <1>22, <1>23, <1>24,
     <1>25, <1>26, <1>27, <1>28, <1>29 DEF Next, Worker, Sender

\* A worker that ends lets go of the channel.
LEMMA EndOwner ==
    ASSUME TypeOK, OwnerInv, NEW c \in Conns, NEW next \in {"report", "closed"}, End(c, next)
    PROVE  OwnerInv'
BY DEF TypeOK, OwnerInv, End, Transferring

\* Every step preserves OwnerInv: a worker is admitted only while no other one
\* transfers, and the channel goes with its owner.
LEMMA OwnerStep ==
    ASSUME TypeOK, OwnerInv, [Next]_vars
    PROVE  OwnerInv'
<1> USE TransferAssumption DEF TypeOK, OwnerInv, Transferring, listenVars, workerVars,
   windowVars, senderVars, wireVars
<1>1. CASE StartListen
  BY <1>1 DEF StartListen
<1>2. CASE poll_transfer
  BY <1>2 DEF poll_transfer
<1>3. CASE Decide("accept")
  BY <1>3 DEF Decide
<1>4. CASE Decide("reject")
  BY <1>4 DEF Decide
<1>5. CASE stop_transfer
  BY <1>5 DEF stop_transfer
<1>6. CASE Listen
  BY <1>6 DEF Listen, Down
<1>7. CASE RouteCommand
  BY <1>7 DEF RouteCommand, Down, forward_command
<1>8. CASE AcceptFails
  BY <1>8 DEF AcceptFails, Down
<1>9. ASSUME NEW a \in Addresses, BackoffOver(a) PROVE OwnerInv'
  BY <1>9 DEF BackoffOver
<1>10. ASSUME NEW c \in Conns, Accept(c) PROVE OwnerInv'
  BY <1>10 DEF Accept
<1>11. ASSUME NEW c \in Conns, ReadHello(c) PROVE OwnerInv'
  <2>1. CASE Probe(c)
    BY <1>11, <2>1, EndOwner DEF Probe
  <2>2. CASE ~Probe(c)
    <3>1. /\ worker' = [worker EXCEPT ![c] = "confirm"] /\ UNCHANGED <<active, channel>>
      BY <1>11, <2>2 DEF ReadHello, Step
    <3> QED
      BY <1>11, <2>2, <3>1
  <2> QED
    BY <1>11, <2>1, <2>2
<1>12. ASSUME NEW c \in Conns, ReadConfirm(c) PROVE OwnerInv'
  <2>1. CASE Shown(c)
    BY <1>12, <2>1, EndOwner DEF Shown
  <2>2. CASE Quiet(c)
    BY <1>12, <2>2, EndOwner DEF Quiet
  <2>3. CASE ~Shown(c) /\ ~Quiet(c)
    BY <1>12, <2>3 DEF ReadConfirm, Admit, Step
  <2> QED
    BY <1>12, <2>1, <2>2, <2>3
<1>13. ASSUME NEW c \in Conns, Poll(c) PROVE OwnerInv'
  <2>1. CASE Shown(c)
    BY <1>13, <2>1, EndOwner DEF Shown
  <2>2. CASE ~Shown(c)
    BY <1>13, <2>2 DEF Poll
  <2> QED
    BY <1>13, <2>1, <2>2
<1>14. ASSUME NEW c \in Conns, ReadOffer(c) PROVE OwnerInv'
  <2>1. CASE Shown(c)
    BY <1>14, <2>1, EndOwner DEF Shown
  <2>2. CASE ~Shown(c) /\ ~End(c, "report")
    BY <1>14, <2>2 DEF ReadOffer, Step
  <2>3. CASE ~Shown(c) /\ ~Step(c, "decide")
    BY <1>14, <2>3, EndOwner DEF ReadOffer
  <2> QED
    BY <1>14, <2>1, <2>2, <2>3 DEF ReadOffer, Step, End
<1>15. ASSUME NEW c \in Conns, WaitDecision(c) PROVE OwnerInv'
  <2>1. CASE Quiet(c)
    BY <1>15, <2>1, EndOwner DEF Quiet
  <2>2. CASE ~Quiet(c) /\ ~End(c, "closed")
    BY <1>15, <2>2 DEF WaitDecision
  <2>3. CASE ~Quiet(c) /\ End(c, "closed")
    BY <1>15, <2>3, EndOwner DEF WaitDecision
  <2> QED
    BY <1>15, <2>1, <2>2, <2>3
<1>16. ASSUME NEW c \in Conns, NextRecord(c) PROVE OwnerInv'
  <2>1. CASE Shown(c)
    BY <1>16, <2>1, EndOwner DEF Shown
  <2>2. CASE ~Shown(c)
    BY <1>16, <2>2 DEF NextRecord
  <2> QED
    BY <1>16, <2>1, <2>2
<1>17. ASSUME NEW c \in Conns, ReadRecord(c) PROVE OwnerInv'
  <2>1. CASE Shown(c)
    BY <1>17, <2>1, EndOwner DEF Shown
  <2>2. CASE ~Shown(c) /\ Step(c, "receive")
    <3>1. /\ worker[c] = "reading" /\ worker' = [worker EXCEPT ![c] = "receive"]
          /\ UNCHANGED <<active, channel>>
      BY <1>17, <2>2 DEF ReadRecord, Step
    <3> QED
      BY <1>17, <2>2, <3>1
  <2>3. CASE ~Shown(c) /\ ~Step(c, "receive")
    <3>1. /\ worker[c] = "reading" /\ worker' = [worker EXCEPT ![c] = "import"]
          /\ UNCHANGED <<active, channel>>
      BY <1>17, <2>3 DEF ReadRecord, Step
    <3> QED
      BY <1>17, <2>3, <3>1
  <2> QED
    BY <1>17, <2>1, <2>2, <2>3
<1>18. ASSUME NEW c \in Conns, Import(c) PROVE OwnerInv'
  BY <1>18, EndOwner DEF Import
<1>19. ASSUME NEW c \in Conns, GivesUp(c) PROVE OwnerInv'
  <2>1. CASE Shown(c)
    BY <1>19, <2>1, EndOwner DEF Shown
  <2>2. CASE Quiet(c)
    BY <1>19, <2>2, EndOwner DEF Quiet
  <2>3. CASE Probe(c)
    BY <1>19, <2>3, EndOwner DEF Probe
  <2> QED
    BY <1>19, <2>1, <2>2, <2>3 DEF GivesUp
<1>20. ASSUME NEW c \in Conns, Report(c) PROVE OwnerInv'
  BY <1>20 DEF Report
<1>21. ASSUME NEW c \in Conns, Dial(c) PROVE OwnerInv'
  BY <1>21 DEF Dial, Advance, Write, Frame
<1>22. ASSUME NEW c \in Conns, WriteConfirm(c) PROVE OwnerInv'
  BY <1>22 DEF WriteConfirm, Advance, Write, Frame
<1>23. ASSUME NEW c \in Conns, WriteOffer(c) PROVE OwnerInv'
  BY <1>23 DEF WriteOffer, Advance, Write, Frame
<1>24. ASSUME NEW c \in Conns, ReadDecision(c) PROVE OwnerInv'
  BY <1>24 DEF ReadDecision, Advance
<1>25. ASSUME NEW c \in Conns, WriteData(c) PROVE OwnerInv'
  BY <1>25 DEF WriteData, Advance, Write, Frame
<1>26. ASSUME NEW c \in Conns, WriteDone(c) PROVE OwnerInv'
  BY <1>26 DEF WriteDone, Advance, Write, Frame
<1>27. ASSUME NEW c \in Conns, SenderFails(c) PROVE OwnerInv'
  BY <1>27 DEF SenderFails, Advance
<1>28. ASSUME NEW c \in Conns, LoseOrRepeat(c) PROVE OwnerInv'
  BY <1>28 DEF LoseOrRepeat
<1>29. CASE UNCHANGED vars
  BY <1>29 DEF vars
<1> QED
  BY <1>1, <1>2, <1>3, <1>4, <1>5, <1>6, <1>7, <1>8, <1>9, <1>10, <1>11, <1>12, <1>13,
     <1>14, <1>15, <1>16, <1>17, <1>18, <1>19, <1>20, <1>21, <1>22, <1>23, <1>24,
     <1>25, <1>26, <1>27, <1>28, <1>29 DEF Next, Worker, Sender

\* Every step preserves AnswerInv: an answer is sent with the step it announces, and
\* declined workers end.
LEMMA AnswerStep ==
    ASSUME TypeOK, AnswerInv, [Next]_vars
    PROVE  AnswerInv'
<1> USE DEF TypeOK, AnswerInv, Transferring, listenVars, workerVars, windowVars,
   senderVars, wireVars
<1>1. CASE StartListen
  BY <1>1 DEF StartListen
<1>2. CASE poll_transfer
  BY <1>2 DEF poll_transfer
<1>3. CASE Decide("accept")
  BY <1>3 DEF Decide
<1>4. CASE Decide("reject")
  BY <1>4 DEF Decide
<1>5. CASE stop_transfer
  BY <1>5 DEF stop_transfer
<1>6. CASE Listen
  BY <1>6 DEF Listen, Down
<1>7. CASE RouteCommand
  BY <1>7 DEF RouteCommand, Down, forward_command
<1>8. CASE AcceptFails
  BY <1>8 DEF AcceptFails, Down
<1>9. ASSUME NEW a \in Addresses, BackoffOver(a) PROVE AnswerInv'
  BY <1>9 DEF BackoffOver
<1>10. ASSUME NEW c \in Conns, Accept(c) PROVE AnswerInv'
  BY <1>10 DEF Accept
<1>11. ASSUME NEW c \in Conns, ReadHello(c) PROVE AnswerInv'
  <2>1. CASE Probe(c)
    BY <1>11, <2>1 DEF ReadHello, Probe, End
  <2>2. CASE ~Probe(c)
    <3>1. /\ worker[c] = "hello" /\ worker' = [worker EXCEPT ![c] = "confirm"]
          /\ down' = [down EXCEPT ![c] = "auth"]
          /\ UNCHANGED <<stored, sender>>
      BY <1>11, <2>2 DEF ReadHello, Step
    <3> QED
      BY <1>11, <2>2, <3>1
  <2> QED
    BY <1>11, <2>1, <2>2
<1>12. ASSUME NEW c \in Conns, ReadConfirm(c) PROVE AnswerInv'
  <2>1. CASE Shown(c)
    BY <1>12, <2>1 DEF ReadConfirm, Shown, End
  <2>2. CASE Quiet(c)
    BY <1>12, <2>2 DEF ReadConfirm, Quiet, End
  <2>3. CASE ~Shown(c) /\ ~Quiet(c)
    <3>1. /\ worker[c] = "confirm" /\ worker' = [worker EXCEPT ![c] = "offer"]
          /\ UNCHANGED <<stored, sender, down>>
      BY <1>12, <2>3 DEF ReadConfirm, Admit, Step
    <3> QED
      BY <1>12, <2>3, <3>1
  <2> QED
    BY <1>12, <2>1, <2>2, <2>3
<1>13. ASSUME NEW c \in Conns, Poll(c) PROVE AnswerInv'
  <2>1. CASE Shown(c)
    BY <1>13, <2>1 DEF Poll, Shown, End
  <2>2. CASE ~Shown(c)
    BY <1>13, <2>2 DEF Poll
  <2> QED
    BY <1>13, <2>1, <2>2
<1>14. ASSUME NEW c \in Conns, ReadOffer(c) PROVE AnswerInv'
  <2>1. CASE Shown(c)
    BY <1>14, <2>1 DEF ReadOffer, Shown, End
  <2>2. CASE ~Shown(c) /\ ~End(c, "report")
    BY <1>14, <2>2 DEF ReadOffer, Step
  <2>3. CASE ~Shown(c) /\ ~Step(c, "decide")
    <3>1. /\ worker[c] = "offer" /\ worker' = [worker EXCEPT ![c] = "report"]
          /\ down' = [down EXCEPT ![c] = "decline"]
          /\ UNCHANGED <<stored, sender>>
      BY <1>14, <2>3 DEF ReadOffer, End
    <3> QED
      BY <1>14, <2>3, <3>1
  <2> QED
    BY <1>14, <2>1, <2>2, <2>3 DEF ReadOffer, Step, End
<1>15. ASSUME NEW c \in Conns, WaitDecision(c) PROVE AnswerInv'
  <2>1. CASE Quiet(c)
    BY <1>15, <2>1 DEF WaitDecision, Quiet, End
  <2>2. CASE ~Quiet(c) /\ ~End(c, "closed")
    BY <1>15, <2>2 DEF WaitDecision
  <2>3. CASE ~Quiet(c) /\ End(c, "closed")
    BY <1>15, <2>3 DEF WaitDecision, End
  <2> QED
    BY <1>15, <2>1, <2>2, <2>3
<1>16. ASSUME NEW c \in Conns, NextRecord(c) PROVE AnswerInv'
  <2>1. CASE Shown(c)
    BY <1>16, <2>1 DEF NextRecord, Shown, End
  <2>2. CASE ~Shown(c)
    <3>1. /\ worker[c] = "receive" /\ worker' = [worker EXCEPT ![c] = "reading"]
          /\ UNCHANGED <<stored, sender, down>>
      BY <1>16, <2>2 DEF NextRecord
    <3> QED
      BY <1>16, <2>2, <3>1
  <2> QED
    BY <1>16, <2>1, <2>2
<1>17. ASSUME NEW c \in Conns, ReadRecord(c) PROVE AnswerInv'
  <2>1. CASE Shown(c)
    BY <1>17, <2>1 DEF ReadRecord, Shown, End
  <2>2. CASE ~Shown(c) /\ Step(c, "receive")
    BY <1>17, <2>2 DEF ReadRecord, Step, Opens
  <2>3. CASE ~Shown(c) /\ ~Step(c, "receive")
    BY <1>17, <2>3, SMTT(20) DEF ReadRecord, Step, Opens
  <2> QED
    BY <1>17, <2>1, <2>2, <2>3
<1>18. ASSUME NEW c \in Conns, Import(c) PROVE AnswerInv'
  BY <1>18 DEF Import, End
<1>19. ASSUME NEW c \in Conns, GivesUp(c) PROVE AnswerInv'
  <2>1. CASE Shown(c)
    BY <1>19, <2>1 DEF GivesUp, Shown, End
  <2>2. CASE Quiet(c)
    BY <1>19, <2>2 DEF GivesUp, Quiet, End
  <2>3. CASE Probe(c)
    BY <1>19, <2>3 DEF GivesUp, Probe, End
  <2> QED
    BY <1>19, <2>1, <2>2, <2>3 DEF GivesUp
<1>20. ASSUME NEW c \in Conns, Report(c) PROVE AnswerInv'
  BY <1>20 DEF Report
<1>21. ASSUME NEW c \in Conns, Dial(c) PROVE AnswerInv'
  BY <1>21 DEF Dial, Advance, Write, Frame
<1>22. ASSUME NEW c \in Conns, WriteConfirm(c) PROVE AnswerInv'
  BY <1>22 DEF WriteConfirm, Advance, Write, Frame
<1>23. ASSUME NEW c \in Conns, WriteOffer(c) PROVE AnswerInv'
  BY <1>23 DEF WriteOffer, Advance, Write, Frame
<1>24. ASSUME NEW c \in Conns, ReadDecision(c) PROVE AnswerInv'
  BY <1>24 DEF ReadDecision, Advance
<1>25. ASSUME NEW c \in Conns, WriteData(c) PROVE AnswerInv'
  BY <1>25 DEF WriteData, Advance, Write, Frame
<1>26. ASSUME NEW c \in Conns, WriteDone(c) PROVE AnswerInv'
  BY <1>26 DEF WriteDone, Advance, Write, Frame
<1>27. ASSUME NEW c \in Conns, SenderFails(c) PROVE AnswerInv'
  BY <1>27 DEF SenderFails, Advance
<1>28. ASSUME NEW c \in Conns, LoseOrRepeat(c) PROVE AnswerInv'
  BY <1>28 DEF LoseOrRepeat
<1>29. CASE UNCHANGED vars
  BY <1>29 DEF vars
<1> QED
  BY <1>1, <1>2, <1>3, <1>4, <1>5, <1>6, <1>7, <1>8, <1>9, <1>10, <1>11, <1>12, <1>13,
     <1>14, <1>15, <1>16, <1>17, <1>18, <1>19, <1>20, <1>21, <1>22, <1>23, <1>24,
     <1>25, <1>26, <1>27, <1>28, <1>29 DEF Next, Worker, Sender

\* Every step preserves StoppedInv: receive_into looks at the stop flag before every
\* record.
LEMMA StoppedStep ==
    ASSUME TypeOK, OwnerInv, AnswerInv, StoppedInv, [Next]_vars
    PROVE  StoppedInv'
<1> USE DEF TypeOK, OwnerInv, AnswerInv, StoppedInv, LastRead, Cancelled,
   Transferring, listenVars, workerVars, windowVars, senderVars, wireVars
<1>1. CASE StartListen
  BY <1>1 DEF StartListen
<1>2. CASE poll_transfer
  BY <1>2 DEF poll_transfer
<1>3. CASE Decide("accept")
  BY <1>3 DEF Decide
<1>4. CASE Decide("reject")
  BY <1>4 DEF Decide
<1>5. CASE stop_transfer
  BY <1>5 DEF stop_transfer
<1>6. CASE Listen
  BY <1>6 DEF Listen, Down
<1>7. CASE RouteCommand
  BY <1>7 DEF RouteCommand, Down, forward_command
<1>8. CASE AcceptFails
  BY <1>8 DEF AcceptFails, Down
<1>9. ASSUME NEW a \in Addresses, BackoffOver(a) PROVE StoppedInv'
  BY <1>9 DEF BackoffOver
<1>10. ASSUME NEW c \in Conns, Accept(c) PROVE StoppedInv'
  BY <1>10 DEF Accept
<1>11. ASSUME NEW c \in Conns, ReadHello(c) PROVE StoppedInv'
  <2>1. CASE Probe(c)
    BY <1>11, <2>1 DEF ReadHello, Probe, End
  <2>2. CASE ~Probe(c)
    BY <1>11, <2>2 DEF ReadHello, Step
  <2> QED
    BY <1>11, <2>1, <2>2
<1>12. ASSUME NEW c \in Conns, ReadConfirm(c) PROVE StoppedInv'
  <2>1. CASE Shown(c)
    BY <1>12, <2>1 DEF ReadConfirm, Shown, End
  <2>2. CASE Quiet(c)
    BY <1>12, <2>2 DEF ReadConfirm, Quiet, End
  <2>3. CASE ~Shown(c) /\ ~Quiet(c)
    BY <1>12, <2>3 DEF ReadConfirm, Admit, Step
  <2> QED
    BY <1>12, <2>1, <2>2, <2>3
<1>13. ASSUME NEW c \in Conns, Poll(c) PROVE StoppedInv'
  <2>1. CASE Shown(c)
    BY <1>13, <2>1 DEF Poll, Shown, End
  <2>2. CASE ~Shown(c)
    BY <1>13, <2>2 DEF Poll
  <2> QED
    BY <1>13, <2>1, <2>2
<1>14. ASSUME NEW c \in Conns, ReadOffer(c) PROVE StoppedInv'
  <2>1. CASE Shown(c)
    BY <1>14, <2>1 DEF ReadOffer, Shown, End
  <2>2. CASE ~Shown(c) /\ ~End(c, "report")
    BY <1>14, <2>2 DEF ReadOffer, Step
  <2>3. CASE ~Shown(c) /\ ~Step(c, "decide")
    <3>1. /\ worker' = [worker EXCEPT ![c] = "report"]
          /\ got' = [got EXCEPT ![c] = <<>>]
          /\ UNCHANGED <<stored, listener, unfinished>>
      BY <1>14, <2>3 DEF ReadOffer, End
    <3> QED
      BY <1>14, <2>3, <3>1
  <2> QED
    BY <1>14, <2>1, <2>2, <2>3 DEF ReadOffer, Step, End
<1>15. ASSUME NEW c \in Conns, WaitDecision(c) PROVE StoppedInv'
  <2>1. CASE Quiet(c)
    BY <1>15, <2>1 DEF WaitDecision, Quiet, End
  <2>2. CASE ~Quiet(c) /\ ~End(c, "closed")
    BY <1>15, <2>2 DEF WaitDecision
  <2>3. CASE ~Quiet(c) /\ End(c, "closed")
    BY <1>15, <2>3 DEF WaitDecision, End
  <2> QED
    BY <1>15, <2>1, <2>2, <2>3
<1>16. ASSUME NEW c \in Conns, NextRecord(c) PROVE StoppedInv'
  <2>1. CASE Shown(c)
    BY <1>16, <2>1 DEF NextRecord, Shown, End
  <2>2. CASE ~Shown(c)
    BY <1>16, <2>2 DEF NextRecord
  <2> QED
    BY <1>16, <2>1, <2>2
<1>17. ASSUME NEW c \in Conns, ReadRecord(c) PROVE StoppedInv'
  <2>1. CASE Shown(c)
    BY <1>17, <2>1 DEF ReadRecord, Shown, End
  <2>2. CASE ~Shown(c) /\ Step(c, "receive")
    BY <1>17, <2>2 DEF ReadRecord, Step, Opens
  <2>3. CASE ~Shown(c) /\ ~Step(c, "receive")
    <3>1. Head(up[c]) \in FrameType /\ Len(got[c]) \in Nat
      BY <1>17 DEF ReadRecord
    <3>2. Head(up[c]).n = Len(got[c]) + 2
      BY <1>17, <2>3 DEF ReadRecord, Opens
    <3>3. Head(up[c]).type \in {"data", "done"}
      BY <3>1, <3>2 DEF FrameType
    <3>4. /\ Step(c, "import") /\ UNCHANGED got
          /\ worker[c] = "reading" /\ Len(got[c]) = Size[c]
      BY <1>17, <2>3, <3>3 DEF ReadRecord
    <3> QED
      BY <1>17, <3>4 DEF Step
  <2> QED
    BY <1>17, <2>1, <2>2, <2>3
<1>18. ASSUME NEW c \in Conns, Import(c) PROVE StoppedInv'
  BY <1>18 DEF Import, End
<1>19. ASSUME NEW c \in Conns, GivesUp(c) PROVE StoppedInv'
  <2>1. CASE Shown(c)
    BY <1>19, <2>1 DEF GivesUp, Shown, End
  <2>2. CASE Quiet(c)
    BY <1>19, <2>2 DEF GivesUp, Quiet, End
  <2>3. CASE Probe(c)
    BY <1>19, <2>3 DEF GivesUp, Probe, End
  <2> QED
    BY <1>19, <2>1, <2>2, <2>3 DEF GivesUp
<1>20. ASSUME NEW c \in Conns, Report(c) PROVE StoppedInv'
  BY <1>20 DEF Report
<1>21. ASSUME NEW c \in Conns, Dial(c) PROVE StoppedInv'
  BY <1>21 DEF Dial, Advance, Write, Frame
<1>22. ASSUME NEW c \in Conns, WriteConfirm(c) PROVE StoppedInv'
  BY <1>22 DEF WriteConfirm, Advance, Write, Frame
<1>23. ASSUME NEW c \in Conns, WriteOffer(c) PROVE StoppedInv'
  BY <1>23 DEF WriteOffer, Advance, Write, Frame
<1>24. ASSUME NEW c \in Conns, ReadDecision(c) PROVE StoppedInv'
  BY <1>24 DEF ReadDecision, Advance
<1>25. ASSUME NEW c \in Conns, WriteData(c) PROVE StoppedInv'
  BY <1>25 DEF WriteData, Advance, Write, Frame
<1>26. ASSUME NEW c \in Conns, WriteDone(c) PROVE StoppedInv'
  BY <1>26 DEF WriteDone, Advance, Write, Frame
<1>27. ASSUME NEW c \in Conns, SenderFails(c) PROVE StoppedInv'
  BY <1>27 DEF SenderFails, Advance
<1>28. ASSUME NEW c \in Conns, LoseOrRepeat(c) PROVE StoppedInv'
  BY <1>28 DEF LoseOrRepeat
<1>29. CASE UNCHANGED vars
  BY <1>29 DEF vars
<1> QED
  BY <1>1, <1>2, <1>3, <1>4, <1>5, <1>6, <1>7, <1>8, <1>9, <1>10, <1>11, <1>12, <1>13,
     <1>14, <1>15, <1>16, <1>17, <1>18, <1>19, <1>20, <1>21, <1>22, <1>23, <1>24,
     <1>25, <1>26, <1>27, <1>28, <1>29 DEF Next, Worker, Sender

-------------------------------------------------------------------------------
(* The refinement: what each step is to Delivery.                             *)

\* Stage, case by case.
LEMMA StageCases ==
    ASSUME NEW c \in Conns
    PROVE  /\ c \in stored => Stage(c) = "stored"
           /\ c \notin stored /\ worker[c] \in {"receive", "reading", "import"} => Stage(c) = "taking"
           /\ c \notin stored /\ worker[c] \in {"report", "closed"} => Stage(c) = "closed"
           /\ c \notin stored /\ worker[c] \notin {"receive", "reading", "import", "report", "closed"}
              => Stage(c) = "open"
BY DEF Stage

\* The presses of Accept that are on their way are a number.
LEMMA ClicksNat ==
    ASSUME TypeOK
    PROVE  Accepts(commands) \in Nat /\ Accepts(channel) \in Nat
BY AcceptsNat DEF TypeOK

\* The initial states of a session are initial states of the promise.
LEMMA PromiseInit == Init => Promise!Init
<1> SUFFICES ASSUME Init PROVE Promise!Init
  OBVIOUS
<1>1. Accepts(commands) + Accepts(channel) = 0
  BY AcceptsEmpty DEF Init
<1>2. \A c \in Conns : Stage(c) = "open"
  BY StageCases DEF Init
<1> QED
  BY <1>1, <1>2 DEF Init, Promise!Init

\* A step that only loses presses, if any, is Lose or a stuttering step.
LEMMA LoseOrStay ==
    ASSUME TypeOK, TypeOK', UNCHANGED <<worker, stored, sender>>,
           Accepts(commands)' + Accepts(channel)' <= Accepts(commands) + Accepts(channel)
    PROVE  [Promise!Next]_(Promise!vars)
<1>1. /\ Accepts(commands) \in Nat /\ Accepts(channel) \in Nat
      /\ Accepts(commands)' \in Nat /\ Accepts(channel)' \in Nat
  BY ClicksNat, AcceptsNat DEF TypeOK
<1>2. \A c \in Conns : Stage(c)' = Stage(c)
  BY DEF Stage
<1>3. CASE Accepts(commands)' + Accepts(channel)' = Accepts(commands) + Accepts(channel)
  BY <1>2, <1>3 DEF Promise!vars
<1>4. CASE Accepts(commands)' + Accepts(channel)' < Accepts(commands) + Accepts(channel)
  <2>1. Promise!Lose
    BY <1>1, <1>2, <1>4 DEF Promise!Lose
  <2> QED
    BY <2>1 DEF Promise!Next
<1> QED
  BY <1>1, <1>3, <1>4

\* Reject, Stop and Cancel do not count.
LEMMA QueuedOther ==
    ASSUME TypeOK
    PROVE  /\ Accepts(Append(commands, "reject")) = Accepts(commands)
           /\ Accepts(Append(commands, "stop")) = Accepts(commands)
           /\ Accepts(Append(channel, "cancel")) = Accepts(channel)
<1>1. ASSUME NEW e \in {"reject", "stop"}
      PROVE  Accepts(Append(commands, e)) = Accepts(commands)
  <2>1. commands \in Seq({"accept", "reject", "stop"}) /\ e \in {"accept", "reject", "stop"}
        /\ e # "accept"
    BY <1>1 DEF TypeOK
  <2> QED
    BY <2>1, AcceptsAppendOther
<1>2. ASSUME NEW e \in {"cancel"}
      PROVE  Accepts(Append(channel, e)) = Accepts(channel)
  <2>1. channel \in Seq({"accept", "reject", "cancel"}) /\ e \in {"accept", "reject", "cancel"}
        /\ e # "accept"
    BY <1>2 DEF TypeOK
  <2> QED
    BY <2>1, AcceptsAppendOther
<1> QED
  BY <1>1, <1>2

\* A step of the receiver's that moves a worker inside its stage is invisible.
LEMMA SameStage ==
    ASSUME TypeOK, TypeOK', NEW c \in Conns, NEW next,
           worker' = [worker EXCEPT ![c] = next],
           \/ {worker[c], next} \subseteq {"none", "hello", "confirm", "offer", "decide"}
           \/ {worker[c], next} \subseteq {"receive", "reading", "import"}
           \/ {worker[c], next} \subseteq {"report", "closed"},
           UNCHANGED <<stored, sender>>,
           Accepts(commands)' + Accepts(channel)' <= Accepts(commands) + Accepts(channel)
    PROVE  [Promise!Next]_(Promise!vars)
<1>1. /\ Accepts(commands) \in Nat /\ Accepts(channel) \in Nat
      /\ Accepts(commands)' \in Nat /\ Accepts(channel)' \in Nat
  BY ClicksNat, AcceptsNat DEF TypeOK
<1>2. \A d \in Conns : Stage(d)' = Stage(d)
  <2> SUFFICES ASSUME NEW d \in Conns PROVE Stage(d)' = Stage(d)
    OBVIOUS
  <2>1. CASE d # c
    BY <2>1 DEF Stage, TypeOK
  <2>2. CASE d = c
    BY <2>2 DEF Stage, TypeOK
  <2> QED
    BY <2>1, <2>2
<1>3. CASE Accepts(commands)' + Accepts(channel)' = Accepts(commands) + Accepts(channel)
  BY <1>2, <1>3 DEF Promise!vars
<1>4. CASE Accepts(commands)' + Accepts(channel)' < Accepts(commands) + Accepts(channel)
  <2>1. Promise!Lose
    BY <1>1, <1>2, <1>4 DEF Promise!Lose
  <2> QED
    BY <2>1 DEF Promise!Next
<1> QED
  BY <1>1, <1>3, <1>4

\* A worker that ends takes the presses in its channel with it.
LEMMA EndClicks ==
    ASSUME TypeOK, NEW c, NEW next, End(c, next)
    PROVE  /\ Accepts(commands)' + Accepts(channel)' \in Nat
           /\ Accepts(commands)' + Accepts(channel)' <= Accepts(commands) + Accepts(channel)
<1>1. Accepts(commands) \in Nat /\ Accepts(channel) \in Nat
  BY ClicksNat
<1>2. commands' = commands /\ channel' \in {channel, <<>>}
  BY DEF End
<1>3. Accepts(commands)' = Accepts(commands) /\ Accepts(channel)' \in {Accepts(channel), 0}
  BY <1>2, AcceptsEmpty DEF Accepts
<1> QED
  BY <1>1, <1>3

\* A worker that ends without having stored closes its connection.
LEMMA EndCloses ==
    ASSUME TypeOK, AnswerInv, NEW c \in Conns, NEW next \in {"report", "closed"}, End(c, next),
           worker[c] \notin {"report", "closed"}, UNCHANGED stored
    PROVE  [Promise!Next]_(Promise!vars)
<1>1. c \notin stored
  BY DEF AnswerInv
<1>2. Stage(c) \in {"open", "taking"} /\ Stage(c)' = "closed"
  BY <1>1 DEF Stage, End, TypeOK
<1>3. \A d \in Conns \ {c} : Stage(d)' = Stage(d)
  BY DEF Stage, End, TypeOK
<1>4. UNCHANGED sender
  BY DEF End, senderVars
<1>5. [d \in Conns |-> Stage(d)'] = [[d \in Conns |-> Stage(d)] EXCEPT ![c] = "closed"]
  BY <1>2, <1>3
<1>6. Promise!End(c, "closed")
  BY <1>4, <1>5, EndClicks DEF Promise!End
<1>7. Promise!Close(c)
  BY <1>2, <1>6 DEF Promise!Close
<1> QED
  BY <1>7 DEF Promise!Next

\* Shown, Quiet and Probe are such ends.
LEMMA FailureCloses ==
    ASSUME TypeOK, AnswerInv, NEW c \in Conns, Shown(c) \/ Quiet(c) \/ Probe(c),
           worker[c] \notin {"report", "closed"}
    PROVE  [Promise!Next]_(Promise!vars)
<1>1. UNCHANGED stored /\ (End(c, "report") \/ End(c, "closed"))
  BY DEF Shown, Quiet, Probe
<1> QED
  BY <1>1, EndCloses

\* A sender that reports nothing changes nothing of the promise.
LEMMA SenderQuiet ==
    ASSUME TypeOK, NEW c \in Conns, NEW next, Advance(c, next),
           {sender[c], next} \cap {"sent", "declined"} = {}
    PROVE  [Promise!Next]_(Promise!vars)
<1> USE DEF Advance, listenVars, workerVars
<1>1. \A d \in Conns : Stage(d)' = Stage(d)
  BY DEF Stage
<1>2. Accepts(commands)' = Accepts(commands) /\ Accepts(channel)' = Accepts(channel)
  OBVIOUS
<1>3. \A d \in Conns : (IF sender'[d] \in {"sent", "declined"} THEN sender'[d] ELSE "nothing")
                    = IF sender[d] \in {"sent", "declined"} THEN sender[d] ELSE "nothing"
  BY DEF TypeOK
<1> QED
  BY <1>1, <1>2, <1>3 DEF Promise!vars

\* A sender that reports its outcome tells it once.
LEMMA SenderTells ==
    ASSUME TypeOK, NEW c \in Conns, NEW next \in {"sent", "declined"}, Advance(c, next),
           sender[c] \notin {"sent", "declined"}
    PROVE  Promise!Tell(c, next)
<1> USE DEF Advance, listenVars, workerVars
<1>1. \A d \in Conns : Stage(d)' = Stage(d)
  BY DEF Stage
<1>2. Accepts(commands)' = Accepts(commands) /\ Accepts(channel)' = Accepts(channel)
  OBVIOUS
<1>3. \A d \in Conns : (IF sender'[d] \in {"sent", "declined"} THEN sender'[d] ELSE "nothing")
                    = IF d = c THEN next
                      ELSE IF sender[d] \in {"sent", "declined"} THEN sender[d] ELSE "nothing"
  BY DEF TypeOK
<1> QED
  BY <1>1, <1>2, <1>3 DEF Promise!Tell

\* Every step of the window, the accept loop, the workers, the senders and the
\* network is a step of Delivery or changes nothing of it.
LEMMA PromiseStep ==
    ASSUME IInv, IInv', [Next]_vars
    PROVE  [Promise!Next]_(Promise!vars)
<1> USE DEF IInv, listenVars, workerVars, windowVars, senderVars, wireVars
<1>n. Accepts(commands) \in Nat /\ Accepts(channel) \in Nat
  BY ClicksNat
<1>s. UNCHANGED <<commands, channel>> =>
         Accepts(commands)' + Accepts(channel)' <= Accepts(commands) + Accepts(channel)
  <2> SUFFICES ASSUME UNCHANGED <<commands, channel>>
               PROVE  Accepts(commands)' + Accepts(channel)' <= Accepts(commands) + Accepts(channel)
    OBVIOUS
  <2>1. Accepts(commands)' = Accepts(commands) /\ Accepts(channel)' = Accepts(channel)
    OBVIOUS
  <2> QED
    BY <1>n, <2>1
<1>t. channel # <<>> /\ channel' = Tail(channel) /\ UNCHANGED commands =>
         Accepts(commands)' + Accepts(channel)' <= Accepts(commands) + Accepts(channel)
  <2> SUFFICES ASSUME channel # <<>>, channel' = Tail(channel), UNCHANGED commands
               PROVE  Accepts(commands)' + Accepts(channel)' <= Accepts(commands) + Accepts(channel)
    OBVIOUS
  <2>1. Accepts(channel) = Accepts(channel)' + (IF Head(channel) = "accept" THEN 1 ELSE 0)
    BY AcceptsTail DEF TypeOK
  <2>2. Accepts(commands)' = Accepts(commands)
    OBVIOUS
  <2>3. Accepts(channel)' \in Nat
    BY AcceptsNat DEF TypeOK
  <2> QED
    BY <1>n, <2>1, <2>2, <2>3
<1>1. CASE StartListen \/ poll_transfer
  BY <1>1, <1>s, LoseOrStay DEF StartListen, poll_transfer
<1>2. CASE Decide("accept")
  <2>1. Accepts(commands)' = Accepts(commands) + 1 /\ channel' = channel
    BY <1>2, AcceptsAppend DEF Decide, TypeOK
  <2>2. \A c \in Conns : Stage(c)' = Stage(c)
    BY <1>2 DEF Decide, Stage
  <2>3. Promise!Click
    BY <1>2, <1>n, <2>1, <2>2 DEF Decide, Promise!Click
  <2> QED
    BY <2>3 DEF Promise!Next
<1>3. CASE Decide("reject") \/ stop_transfer
  <2>1. commands' \in {Append(commands, "reject"), Append(commands, "stop")}
    BY <1>3 DEF Decide, stop_transfer
  <2>2. Accepts(commands)' = Accepts(commands)
    BY <2>1, QueuedOther
  <2> QED
    BY <1>3, <1>n, <2>2, LoseOrStay DEF Decide, stop_transfer
<1>4. CASE Listen \/ AcceptFails
  <2>1. channel' = channel /\ commands' \in {commands, <<>>}
    BY <1>4 DEF Listen, AcceptFails, Down
  <2>2. Accepts(commands)' \in {Accepts(commands), 0} /\ Accepts(channel)' = Accepts(channel)
    BY <2>1, AcceptsEmpty
  <2> QED
    BY <1>4, <1>n, <2>2, LoseOrStay DEF Listen, AcceptFails
<1>5. CASE RouteCommand
  <2>1. CASE Head(commands) = "stop"
    <3>1. commands' = <<>> /\ channel' \in {channel, Append(channel, "cancel")}
      BY <1>5, <2>1 DEF RouteCommand, Down, forward_command
    <3>2. Accepts(commands)' = 0 /\ Accepts(channel)' = Accepts(channel)
      BY <3>1, QueuedOther, AcceptsEmpty
    <3> QED
      BY <1>5, <1>n, <3>2, LoseOrStay DEF RouteCommand
  <2>2. CASE Head(commands) # "stop"
    <3>1. /\ commands # <<>> /\ commands' = Tail(commands)
          /\ channel' \in {channel, Append(channel, Head(commands))}
          /\ Head(commands) \in {"accept", "reject"}
      BY <1>5, <2>2 DEF RouteCommand, forward_command, TypeOK
    <3>2. Accepts(commands) = Accepts(commands)' + (IF Head(commands) = "accept" THEN 1 ELSE 0)
      BY <3>1, AcceptsTail DEF TypeOK
    <3>a. Accepts(Append(channel, Head(commands)))
            = Accepts(channel) + (IF Head(commands) = "accept" THEN 1 ELSE 0)
      BY <3>1, AcceptsAppend DEF TypeOK
    <3>3. \/ Accepts(channel)' = Accepts(channel)
          \/ Accepts(channel)' = Accepts(channel) + (IF Head(commands) = "accept" THEN 1 ELSE 0)
      BY <3>1, <3>a
    <3>4. Accepts(commands)' \in Nat
      BY AcceptsNat DEF TypeOK
    <3> QED
      BY <1>5, <1>n, <3>2, <3>3, <3>4, LoseOrStay DEF RouteCommand
  <2> QED
    BY <2>1, <2>2
<1>6. ASSUME NEW a \in Addresses, BackoffOver(a) PROVE [Promise!Next]_(Promise!vars)
  BY <1>6, <1>s, LoseOrStay DEF BackoffOver
<1>7. ASSUME NEW c \in Conns, Accept(c) PROVE [Promise!Next]_(Promise!vars)
  <2>1. CASE worker' = [worker EXCEPT ![c] = "hello"]
    <3>1. worker[c] = "none" /\ UNCHANGED <<commands, channel, stored, sender>>
      BY <1>7 DEF Accept
    <3> QED
      BY <1>s, <2>1, <3>1, SameStage
  <2>2. CASE worker' = [worker EXCEPT ![c] = "closed"]
    <3>1. c \notin stored /\ Stage(c) = "open" /\ Stage(c)' = "closed"
      BY <1>7, <2>2 DEF Accept, Stage, AnswerInv, TypeOK
    <3>2. \A d \in Conns \ {c} : Stage(d)' = Stage(d)
      BY <1>7, <2>2 DEF Accept, Stage, TypeOK
    <3>3. [d \in Conns |-> Stage(d)'] = [[d \in Conns |-> Stage(d)] EXCEPT ![c] = "closed"]
      BY <3>1, <3>2
    <3>4. Promise!Close(c)
      BY <1>7, <1>n, <3>1, <3>3 DEF Accept, Promise!Close, Promise!End
    <3> QED
      BY <3>4 DEF Promise!Next
  <2> QED
    BY <1>7, <2>1, <2>2 DEF Accept
<1>8. ASSUME NEW c \in Conns, ReadHello(c) PROVE [Promise!Next]_(Promise!vars)
  <2>1. CASE Probe(c)
    BY <1>8, <2>1, FailureCloses DEF ReadHello
  <2>2. CASE ~Probe(c)
    <3>1. /\ worker[c] = "hello" /\ worker' = [worker EXCEPT ![c] = "confirm"]
          /\ UNCHANGED <<commands, channel, stored, sender>>
      BY <1>8, <2>2 DEF ReadHello, Step
    <3> QED
      BY <1>s, <3>1, SameStage
  <2> QED
    BY <2>1, <2>2
<1>9. ASSUME NEW c \in Conns, ReadConfirm(c) PROVE [Promise!Next]_(Promise!vars)
  <2>1. CASE Shown(c) \/ Quiet(c)
    BY <1>9, <2>1, FailureCloses DEF ReadConfirm
  <2>2. CASE ~Shown(c) /\ ~Quiet(c)
    <3>1. /\ worker[c] = "confirm" /\ worker' = [worker EXCEPT ![c] = "offer"]
          /\ commands' = commands /\ channel' = <<>> /\ UNCHANGED <<stored, sender>>
      BY <1>9, <2>2 DEF ReadConfirm, Step
    <3>2. Accepts(commands)' = Accepts(commands) /\ Accepts(channel)' = 0
      BY <3>1, AcceptsEmpty
    <3>3. Accepts(commands)' + Accepts(channel)' <= Accepts(commands) + Accepts(channel)
      BY <1>n, <3>2
    <3> QED
      BY <3>1, <3>3, SameStage
  <2> QED
    BY <2>1, <2>2
<1>10. ASSUME NEW c \in Conns, Poll(c) PROVE [Promise!Next]_(Promise!vars)
  <2>1. CASE Shown(c)
    BY <1>10, <2>1, FailureCloses DEF Poll
  <2>2. CASE ~Shown(c)
    <3>1. channel # <<>> /\ channel' = Tail(channel) /\ UNCHANGED <<commands, worker, stored, sender>>
      BY <1>10, <2>2 DEF Poll
    <3> QED
      BY <1>t, <3>1, LoseOrStay
  <2> QED
    BY <2>1, <2>2
<1>11. ASSUME NEW c \in Conns, ReadOffer(c) PROVE [Promise!Next]_(Promise!vars)
  <2>1. CASE Shown(c)
    BY <1>11, <2>1, FailureCloses DEF ReadOffer
  <2>2. CASE End(c, "report") /\ UNCHANGED stored
    BY <1>11, <2>2, EndCloses DEF ReadOffer
  <2>3. CASE Step(c, "decide") /\ UNCHANGED <<active, channel>>
    <3>1. /\ worker[c] = "offer" /\ worker' = [worker EXCEPT ![c] = "decide"]
          /\ UNCHANGED <<commands, channel, stored, sender>>
      BY <1>11, <2>3 DEF ReadOffer, Step
    <3> QED
      BY <1>s, <3>1, SameStage
  <2> QED
    BY <1>11, <2>1, <2>2, <2>3 DEF ReadOffer
<1>12. ASSUME NEW c \in Conns, WaitDecision(c) PROVE [Promise!Next]_(Promise!vars)
  <2>1. CASE Quiet(c)
    BY <1>12, <2>1, FailureCloses DEF WaitDecision
  <2>2. CASE End(c, "closed") /\ UNCHANGED stored
    BY <1>12, <2>2, EndCloses DEF WaitDecision
  <2>3. CASE ~Quiet(c) /\ ~(End(c, "closed") /\ UNCHANGED stored)
    <3>1. /\ worker[c] = "decide" /\ worker' = [worker EXCEPT ![c] = "receive"] /\ active = c
          /\ channel # <<>> /\ Head(channel) = "accept" /\ channel' = Tail(channel)
          /\ UNCHANGED <<commands, stored, sender>>
      BY <1>12, <2>3 DEF WaitDecision
    <3>2. Accepts(channel) = Accepts(channel)' + 1 /\ Accepts(commands)' = Accepts(commands)
      BY <3>1, AcceptsTail DEF TypeOK
    <3>3. Accepts(channel)' \in Nat
      BY AcceptsNat DEF TypeOK
    <3>4. c \notin stored /\ Stage(c) = "open" /\ Stage(c)' = "taking"
      BY <3>1 DEF Stage, AnswerInv, TypeOK
    <3>5. \A d \in Conns \ {c} : Stage(d)' = Stage(d)
      BY <3>1 DEF Stage, TypeOK
    <3>6. \A d \in Conns : Stage(d) # "taking"
      BY <3>1, StageCases DEF OwnerInv, Transferring, Stage
    <3>7. [d \in Conns |-> Stage(d)'] = [[d \in Conns |-> Stage(d)] EXCEPT ![c] = "taking"]
      BY <3>4, <3>5
    <3>8. /\ Accepts(commands) + Accepts(channel) > 0
          /\ Accepts(commands)' + Accepts(channel)' = Accepts(commands) + Accepts(channel) - 1
      BY <1>n, <3>2, <3>3
    <3>9. Accepts(commands)' \in Nat
      BY AcceptsNat DEF TypeOK
    <3>10. Promise!Take(c)
      BY <1>n, <3>1, <3>3, <3>4, <3>6, <3>7, <3>8, <3>9 DEF Promise!Take
    <3> QED
      BY <3>10 DEF Promise!Next
  <2> QED
    BY <2>1, <2>2, <2>3
<1>13. ASSUME NEW c \in Conns, NextRecord(c) PROVE [Promise!Next]_(Promise!vars)
  <2>1. CASE Shown(c)
    BY <1>13, <2>1, FailureCloses DEF NextRecord
  <2>2. CASE ~Shown(c)
    <3>1. /\ worker[c] = "receive" /\ worker' = [worker EXCEPT ![c] = "reading"]
          /\ channel' = channel \/ (channel # <<>> /\ channel' = Tail(channel))
          /\ UNCHANGED <<commands, stored, sender>>
      BY <1>13, <2>2 DEF NextRecord
    <3>2. Accepts(commands)' + Accepts(channel)' <= Accepts(commands) + Accepts(channel)
      BY <1>s, <1>t, <3>1
    <3> QED
      BY <3>1, <3>2, SameStage
  <2> QED
    BY <2>1, <2>2
<1>14. ASSUME NEW c \in Conns, ReadRecord(c) PROVE [Promise!Next]_(Promise!vars)
  <2>1. CASE Shown(c)
    BY <1>14, <2>1, FailureCloses DEF ReadRecord
  <2>2. CASE ~Shown(c)
    <3>1. PICK next \in {"receive", "import"} : Step(c, next)
      BY <1>14, <2>2 DEF ReadRecord
    <3>2. /\ worker[c] = "reading" /\ worker' = [worker EXCEPT ![c] = next]
          /\ UNCHANGED <<commands, channel, stored, sender>>
      BY <1>14, <2>2, <3>1 DEF ReadRecord, Step
    <3> QED
      BY <1>s, <3>2, SameStage
  <2> QED
    BY <2>1, <2>2
<1>15. ASSUME NEW c \in Conns, Import(c) PROVE [Promise!Next]_(Promise!vars)
  <2>1. c \notin stored /\ Stage(c) = "taking" /\ Stage(c)' = "stored"
    BY <1>15 DEF Import, Stage, AnswerInv
  <2>2. \A d \in Conns \ {c} : Stage(d)' = Stage(d)
    BY <1>15 DEF Import, End, Stage, TypeOK
  <2>3. [d \in Conns |-> Stage(d)'] = [[d \in Conns |-> Stage(d)] EXCEPT ![c] = "stored"]
    BY <2>1, <2>2
  <2>4. End(c, "closed") /\ UNCHANGED sender
    BY <1>15 DEF Import, End
  <2>5. Promise!End(c, "stored")
    BY <2>3, <2>4, EndClicks DEF Promise!End
  <2>6. Promise!Store(c)
    BY <2>1, <2>5 DEF Promise!Store
  <2> QED
    BY <2>6 DEF Promise!Next
<1>16. ASSUME NEW c \in Conns, GivesUp(c) PROVE [Promise!Next]_(Promise!vars)
  BY <1>16, FailureCloses DEF GivesUp, Transferring
<1>17. ASSUME NEW c \in Conns, Report(c) PROVE [Promise!Next]_(Promise!vars)
  <2>1. /\ worker[c] = "report" /\ worker' = [worker EXCEPT ![c] = "closed"]
        /\ UNCHANGED <<commands, channel, stored, sender>>
    BY <1>17 DEF Report
  <2> QED
    BY <1>s, <2>1, SameStage
<1>18. ASSUME NEW c \in Conns,
              Dial(c) \/ WriteConfirm(c) \/ WriteOffer(c) \/ WriteData(c) \/ SenderFails(c)
       PROVE  [Promise!Next]_(Promise!vars)
  <2>1. PICK next \in {"auth", "plan", "await", "stream", "failed"} : Advance(c, next)
    BY <1>18 DEF Dial, WriteConfirm, WriteOffer, WriteData, SenderFails
  <2>2. sender[c] \notin {"sent", "declined"}
    BY <1>18 DEF Dial, WriteConfirm, WriteOffer, WriteData, SenderFails
  <2> QED
    BY <2>1, <2>2, SenderQuiet
<1>19. ASSUME NEW c \in Conns, ReadDecision(c) PROVE [Promise!Next]_(Promise!vars)
  <2>1. CASE down[c] = "accept"
    <3>1. Advance(c, "stream") /\ sender[c] = "await"
      BY <1>19, <2>1 DEF ReadDecision
    <3> QED
      BY <3>1, SenderQuiet
  <2>2. CASE down[c] = "decline"
    <3>1. Advance(c, "declined") /\ sender[c] = "await"
      BY <1>19, <2>2 DEF ReadDecision
    <3>2. Stage(c) = "closed"
      BY <2>2, StageCases DEF AnswerInv
    <3>3. Promise!Tell(c, "declined")
      BY <3>1, SenderTells
    <3>4. Promise!Declined(c)
      BY <3>2, <3>3 DEF Promise!Declined
    <3> QED
      BY <3>4 DEF Promise!Next
  <2> QED
    BY <1>19, <2>1, <2>2 DEF ReadDecision
<1>20. ASSUME NEW c \in Conns, WriteDone(c) PROVE [Promise!Next]_(Promise!vars)
  <2>1. Advance(c, "sent") /\ sender[c] = "stream"
    BY <1>20 DEF WriteDone
  <2>2. Stage(c) # "open"
    BY <2>1, StageCases DEF AnswerInv
  <2>3. Promise!Tell(c, "sent")
    BY <2>1, SenderTells
  <2>4. Promise!Sent(c)
    BY <2>2, <2>3 DEF Promise!Sent
  <2> QED
    BY <2>4 DEF Promise!Next
<1>21. ASSUME NEW c \in Conns, LoseOrRepeat(c) PROVE [Promise!Next]_(Promise!vars)
  BY <1>21, <1>s, LoseOrStay DEF LoseOrRepeat
<1>22. CASE UNCHANGED vars
  BY <1>22, <1>s, LoseOrStay DEF vars
<1> QED
  BY <1>1, <1>2, <1>3, <1>4, <1>5, <1>6, <1>7, <1>8, <1>9, <1>10, <1>11, <1>12, <1>13, <1>14,
     <1>15, <1>16, <1>17, <1>18, <1>19, <1>20, <1>21, <1>22 DEF Next, Worker, Sender

-------------------------------------------------------------------------------
(* Theorems.                                                                  *)

\* IInv is inductive.
LEMMA Inductive == IInv /\ [Next]_vars => IInv'
BY TypeStep, OwnerStep, AnswerStep, StoppedStep DEF IInv

\* Every behaviour satisfies the inductive invariant.
LEMMA Invariance == Spec => []IInv
BY InitInv, Inductive, PTL DEF Spec

\* Refinement: workers, accept loop, window, senders and network implement
\* Delivery.  One vault is taken at a time, each on a press of Accept of its own,
\* only what was taken is stored, and a sender is told "sent" only of a vault that
\* was taken and "declined" only of one that never is stored.
THEOREM TransferDelivers == Spec => Delivers
<1>1. IInv /\ IInv' /\ [Next]_vars => [Promise!Next]_(Promise!vars)
  BY PromiseStep
<1> QED
  BY <1>1, PromiseInit, Invariance, PTL DEF Spec, Delivers, Promise!Spec

\* A session that ends never stores what it had not all but received: the stop flag
\* is looked at before every record, and an Accept queued before it does not help.
THEOREM NothingStoredAfterStop == Spec => []StopMeansStop
<1>1. IInv => StopMeansStop
  BY DEF IInv, StoppedInv, StopMeansStop
<1> QED
  BY <1>1, Invariance, PTL

================================================================================
