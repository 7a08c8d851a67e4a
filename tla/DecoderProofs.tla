--------------------------- MODULE DecoderProofs ---------------------------
(***************************************************************************)
(* The two decoders of a byte stream, for any limits and any cuts.         *)
(* WebSocket: what is delivered and answered depends on the frames a peer  *)
(* sends alone, whatever they are and however many.  Framing: what is      *)
(* written through a stack of ciphers and plugins comes out as it went in. *)
(***************************************************************************)
EXTENDS Decoders, SequenceTheorems, WellFoundedInduction, TLAPS

(***************************************************************************)
(* Induction, with the property as a set of numbers: the theorems of the   *)
(* library take it as an operator.                                         *)
(***************************************************************************)
(* A set of natural numbers that is not empty has a least element.         *)
LEMMA Least ==
  ASSUME NEW T, T \subseteq Nat, T # {}
  PROVE  \E m \in T : \A x \in T : m <= x
<1> DEFINE R == OpToRel(<, Nat)
<1>1. IsWellFoundedOn(R, Nat)
  BY NatLessThanWellFounded, Zenon
<1> HIDE DEF R
<1>2. PICK m \in T : \A y \in T : ~(<<y, m>> \in R)
  BY <1>1, WFMin, Zenon
<1>3. \A y \in T : ~(y < m)
  BY <1>2 DEF R, OpToRel
<1> QED BY <1>3

(* A set that holds 0 and with a number the next one holds all of them.    *)
LEMMA Induction ==
  ASSUME NEW T, T \subseteq Nat, 0 \in T, \A n \in T : n + 1 \in T
  PROVE  T = Nat
<1> SUFFICES ASSUME Nat \ T # {} PROVE FALSE
  OBVIOUS
<1>1. PICK m \in Nat \ T : \A x \in Nat \ T : m <= x
  BY Least
<1>2. m # 0 /\ m - 1 \in Nat
  BY <1>1
<1>3. m - 1 \in T
  BY <1>1, <1>2
<1> QED BY <1>1, <1>2, <1>3

-----------------------------------------------------------------------------
(***************************************************************************)
(* A sequence of sequences made into one.                                  *)
(***************************************************************************)
(* The partial results: those of the first i sequences, for every i.       *)
Folds(ss, f) == \A i \in 1..Len(ss) : f[i] = IF i = 1 THEN ss[i] ELSE f[i - 1] \o ss[i]

LEMMA FoldsExists ==
  ASSUME NEW S, NEW ss \in Seq(Seq(S))
  PROVE  \E f \in [1..Len(ss) -> Seq(S)] : Folds(ss, f)
<1> DEFINE P(n, f) == \A i \in 1..n : f[i] = IF i = 1 THEN ss[i] ELSE f[i - 1] \o ss[i]
           T == {n \in Nat : n <= Len(ss) => \E f \in [1..n -> Seq(S)] : P(n, f)}
<1>1. 0 \in T
  <2>1. [i \in 1..0 |-> <<>>] \in [1..0 -> Seq(S)] /\ P(0, [i \in 1..0 |-> <<>>])
    OBVIOUS
  <2> QED BY <2>1
<1>2. ASSUME NEW n \in T PROVE n + 1 \in T
  <2>0. n \in Nat /\ n + 1 \in Nat /\ Len(ss) \in Nat
    OBVIOUS
  <2> HIDE DEF P
  <2> SUFFICES ASSUME n + 1 <= Len(ss) PROVE \E f \in [1..(n + 1) -> Seq(S)] : P(n + 1, f)
    BY <2>0, Zenon
  <2> USE DEF P
  <2>1. PICK g \in [1..n -> Seq(S)] : P(n, g)
    <3> HIDE DEF P
    <3>1. n <= Len(ss)
      <4> HIDE DEF T
      <4> QED BY <2>0
    <3> QED BY <3>1, Zenon
  <2> DEFINE last == IF n = 0 THEN ss[1] ELSE g[n] \o ss[n + 1]
             f == [i \in 1..(n + 1) |-> IF i <= n THEN g[i] ELSE last]
  <2>2. ss[n + 1] \in Seq(S) /\ ss[1] \in Seq(S) /\ (n # 0 => g[n] \in Seq(S))
    BY <2>0, <2>1, ElementOfSeq
  <2>3. last \in Seq(S)
    BY <2>2, ConcatProperties
  <2>4. n + 1 \in 1..(n + 1) /\ f[n + 1] = last /\ \A i \in 1..n : f[i] = g[i]
    <3> HIDE DEF last
    <3>1. n + 1 \in 1..(n + 1) /\ ~(n + 1 <= n) /\ \A i \in 1..n : i \in 1..(n + 1) /\ i <= n
      BY <2>0
    <3> QED BY <3>1
  <2>5. f \in [1..(n + 1) -> Seq(S)]
    <3> HIDE DEF last
    <3> QED BY <2>0, <2>1, <2>3
  <2> HIDE DEF f
  <2>6. ASSUME NEW i \in 1..(n + 1) PROVE f[i] = IF i = 1 THEN ss[i] ELSE f[i - 1] \o ss[i]
    <3>1. CASE i \in 1..n
      <4>1. i # 1 => i - 1 \in 1..n
        BY <2>0, <3>1
      <4>2. f[i] = g[i] /\ (i # 1 => f[i - 1] = g[i - 1])
        BY <2>4, <3>1, <4>1, Zenon
      <4>3. g[i] = IF i = 1 THEN ss[i] ELSE g[i - 1] \o ss[i]
        BY <2>1, <3>1, Zenon
      <4> QED BY <4>2, <4>3, Zenon
    <3>2. CASE i = n + 1 /\ n = 0
      BY <2>4, <3>2
    <3>3. CASE i = n + 1 /\ n # 0
      <4>1. n \in 1..n /\ f[n] = g[n] /\ i - 1 = n /\ i # 1
        BY <2>0, <2>4, <3>3
      <4> QED BY <2>4, <3>3, <4>1
    <3> QED BY <2>0, <3>1, <3>2, <3>3
  <2> QED BY <2>5, <2>6
<1> HIDE DEF T
<1>3. T = Nat
  <2>1. T \subseteq Nat
    BY DEF T
  <2> QED BY <1>1, <1>2, <2>1, Induction
<1>4. Len(ss) \in T
  BY <1>3
<1> QED BY <1>4 DEF T, Folds

(* The partial results decide what FlattenSeq returns.                     *)
LEMMA FlattenIs ==
  ASSUME NEW S, NEW ss \in Seq(Seq(S)), NEW f \in [1..Len(ss) -> Seq(S)], Folds(ss, f)
  PROVE  W!FlattenSeq(ss) = IF ss = <<>> THEN <<>> ELSE f[Len(ss)]
<1>1. CASE ss = <<>>
  BY <1>1 DEF W!FlattenSeq
<1>2. CASE ss # <<>>
  <2> DEFINE Is(g) == g = [i \in 1..Len(ss) |-> IF i = 1 THEN ss[i] ELSE g[i - 1] \o ss[i]]
             F == CHOOSE g : Is(g)
  <2>0. Len(ss) \in Nat /\ Len(ss) # 0
    BY <1>2, EmptySeq
  <2>1. W!FlattenSeq(ss) = F[Len(ss)]
    BY <2>0 DEF W!FlattenSeq
  <2>2. Is(f)
    BY Zenon DEF Folds
  <2>3. Is(F)
    <3> HIDE DEF Is
    <3> QED BY <2>2, Zenon
  <2>4. \A i \in 1..Len(ss) : /\ F[i] = IF i = 1 THEN ss[i] ELSE F[i - 1] \o ss[i]
                              /\ f[i] = IF i = 1 THEN ss[i] ELSE f[i - 1] \o ss[i]
    BY <2>3, Zenon DEF Folds
  <2> HIDE DEF F, Is
  <2> DEFINE T == {n \in Nat : n + 1 <= Len(ss) => F[n + 1] = f[n + 1]}
  <2>5. 0 \in T
    <3>1. 1 \in 1..Len(ss) /\ 0 + 1 = 1 /\ 0 \in Nat
      BY <2>0
    <3>2. F[1] = f[1]
      BY <2>4, <3>1, Zenon
    <3> QED BY <3>1, <3>2
  <2>6. ASSUME NEW n \in T PROVE n + 1 \in T
    <3>0. n \in Nat /\ (n + 1) + 1 = n + 2
      OBVIOUS
    <3> SUFFICES ASSUME n + 2 <= Len(ss) PROVE F[n + 2] = f[n + 2]
      BY <3>0
    <3>1. F[n + 1] = f[n + 1]
      BY <2>0, <3>0
    <3>2. n + 2 \in 1..Len(ss) /\ n + 2 # 1 /\ (n + 2) - 1 = n + 1
      BY <2>0, <3>0
    <3>3. F[n + 2] = F[n + 1] \o ss[n + 2] /\ f[n + 2] = f[n + 1] \o ss[n + 2]
      <4> DEFINE k == n + 2
      <4>1. F[k] = IF k = 1 THEN ss[k] ELSE F[k - 1] \o ss[k]
        BY <2>4, <3>2, Zenon
      <4>2. f[k] = IF k = 1 THEN ss[k] ELSE f[k - 1] \o ss[k]
        BY <2>4, <3>2, Zenon
      <4> QED BY <3>2, <4>1, <4>2, Zenon
    <3> QED BY <3>1, <3>3, Zenon
  <2> HIDE DEF T
  <2>7. T = Nat
    <3>1. T \subseteq Nat
      BY DEF T
    <3> QED BY <2>5, <2>6, <3>1, Induction
  <2>8. Len(ss) - 1 \in T /\ (Len(ss) - 1) + 1 = Len(ss)
    BY <2>0, <2>7
  <2> QED BY <1>2, <2>1, <2>8 DEF T
<1> QED BY <1>1, <1>2

LEMMA FlattenType ==
  ASSUME NEW S, NEW ss \in Seq(Seq(S))
  PROVE  W!FlattenSeq(ss) \in Seq(S)
<1>1. PICK f \in [1..Len(ss) -> Seq(S)] : Folds(ss, f)
  BY FoldsExists
<1>2. ss # <<>> => f[Len(ss)] \in Seq(S)
  <2>1. ss # <<>> => Len(ss) \in 1..Len(ss)
    BY EmptySeq
  <2> QED BY <2>1
<1>3. <<>> \in Seq(S)
  BY EmptySeq
<1> QED BY <1>1, <1>2, <1>3, FlattenIs

LEMMA FlattenEmpty == W!FlattenSeq(<<>>) = <<>>
BY DEF W!FlattenSeq

(* One more at the end.                                                    *)
LEMMA FlattenAppend ==
  ASSUME NEW S, NEW ss \in Seq(Seq(S)), NEW x \in Seq(S)
  PROVE  W!FlattenSeq(Append(ss, x)) = W!FlattenSeq(ss) \o x
<1>1. PICK f \in [1..Len(ss) -> Seq(S)] : Folds(ss, f)
  BY FoldsExists
<1> DEFINE m    == Len(ss)
           tt   == Append(ss, x)
           last == IF m = 0 THEN x ELSE f[m] \o x
           g    == [i \in 1..(m + 1) |-> IF i <= m THEN f[i] ELSE last]
<1>2. m \in Nat /\ (ss = <<>> <=> m = 0)
  BY EmptySeq
<1>3. /\ tt \in Seq(Seq(S)) /\ tt # <<>> /\ Len(tt) = m + 1 /\ tt[m + 1] = x
      /\ \A i \in 1..m : tt[i] = ss[i]
  BY AppendProperties
<1>4. last \in Seq(S)
  <2>1. m # 0 => m \in 1..Len(ss)
    BY <1>2
  <2>2. m # 0 => f[m] \in Seq(S)
    <3> HIDE DEF m
    <3> QED BY <2>1
  <2> QED BY <2>2, ConcatProperties
<1>5. m + 1 \in 1..(m + 1) /\ g[m + 1] = last /\ \A i \in 1..m : g[i] = f[i]
  BY <1>2
<1>6. g \in [1..Len(tt) -> Seq(S)]
  <2> HIDE DEF last, tt
  <2> QED BY <1>2, <1>3, <1>4
<1>7. \A i \in 1..m : f[i] = IF i = 1 THEN ss[i] ELSE f[i - 1] \o ss[i]
  BY <1>1 DEF Folds
<1>8. last = IF m = 0 THEN x ELSE f[m] \o x
  OBVIOUS
<1> HIDE DEF g, tt, last, m
<1>9. ASSUME NEW i \in 1..(m + 1) PROVE g[i] = IF i = 1 THEN tt[i] ELSE g[i - 1] \o tt[i]
  <2>1. CASE i \in 1..m
    <3>1. i # 1 => i - 1 \in 1..m
      BY <1>2, <2>1
    <3>2. g[i] = f[i] /\ tt[i] = ss[i] /\ (i # 1 => g[i - 1] = f[i - 1])
      BY <1>3, <1>5, <2>1, <3>1
    <3> QED BY <1>7, <2>1, <3>2
  <2>2. CASE i = m + 1 /\ m = 0
    BY <1>3, <1>5, <1>8, <2>2
  <2>3. CASE i = m + 1 /\ m # 0
    <3>1. i # 1 /\ i - 1 = m /\ m \in 1..m
      BY <1>2, <2>3
    <3> QED BY <1>3, <1>5, <1>8, <2>3, <3>1
  <2> QED BY <1>2, <2>1, <2>2, <2>3
<1>10. W!FlattenSeq(tt) = last
  <2>1. Folds(tt, g)
    BY <1>3, <1>9 DEF Folds
  <2>2. W!FlattenSeq(tt) = g[Len(tt)]
    BY <1>3, <1>6, <2>1, FlattenIs
  <2> QED BY <1>3, <1>5, <2>2
<1>11. W!FlattenSeq(ss) = IF m = 0 THEN <<>> ELSE f[m]
  BY <1>1, <1>2, FlattenIs DEF m
<1>12. <<>> \o x = x
  BY ConcatEmptySeq
<1> QED BY <1>8, <1>10, <1>11, <1>12 DEF tt

LEMMA ConcatAppend ==
  ASSUME NEW S, NEW s \in Seq(S), NEW t \in Seq(S), NEW x \in S
  PROVE  s \o Append(t, x) = Append(s \o t, x)
<1>1. <<x>> \in Seq(S) /\ s \o t \in Seq(S) /\ Append(t, x) = t \o <<x>>
  BY AppendIsConcat, ConcatProperties
<1>2. (s \o t) \o <<x>> = s \o (t \o <<x>>)
  BY <1>1, ConcatAssociative
<1>3. Append(s \o t, x) = (s \o t) \o <<x>>
  BY <1>1, AppendIsConcat
<1> QED BY <1>1, <1>2, <1>3, Zenon

(* Two halves.                                                             *)
LEMMA FlattenConcat ==
  ASSUME NEW S, NEW ss \in Seq(Seq(S)), NEW tt \in Seq(Seq(S))
  PROVE  W!FlattenSeq(ss \o tt) = W!FlattenSeq(ss) \o W!FlattenSeq(tt)
<1> DEFINE T == {n \in Nat : \A uu \in Seq(Seq(S)) : Len(uu) = n =>
                    W!FlattenSeq(ss \o uu) = W!FlattenSeq(ss) \o W!FlattenSeq(uu)}
<1>1. 0 \in T
  <2> SUFFICES ASSUME NEW uu \in Seq(Seq(S)), Len(uu) = 0
               PROVE  W!FlattenSeq(ss \o uu) = W!FlattenSeq(ss) \o W!FlattenSeq(uu)
    OBVIOUS
  <2>1. uu = <<>>
    BY EmptySeq
  <2>2. ss \o uu = ss /\ W!FlattenSeq(ss) \o <<>> = W!FlattenSeq(ss)
    BY <2>1, FlattenType, ConcatEmptySeq
  <2> QED BY <2>1, <2>2, FlattenEmpty
<1>2. ASSUME NEW n \in T PROVE n + 1 \in T
  <2>0. n \in Nat
    OBVIOUS
  <2> SUFFICES ASSUME NEW uu \in Seq(Seq(S)), Len(uu) = n + 1
               PROVE  W!FlattenSeq(ss \o uu) = W!FlattenSeq(ss) \o W!FlattenSeq(uu)
    BY <2>0
  <2>1. PICK vv \in Seq(Seq(S)), x \in Seq(S) : uu = Append(vv, x)
    <3>1. uu # <<>>
      BY <2>0, EmptySeq
    <3> QED BY <3>1, SequenceEmptyOrAppend
  <2>2. Len(vv) = n
    BY <2>0, <2>1, AppendProperties
  <2>3. W!FlattenSeq(ss \o vv) = W!FlattenSeq(ss) \o W!FlattenSeq(vv)
    BY <2>2
  <2> HIDE DEF T
  <2>4. ss \o uu = Append(ss \o vv, x) /\ ss \o vv \in Seq(Seq(S))
    BY <2>1, ConcatAppend, ConcatProperties
  <2>5. W!FlattenSeq(ss \o uu) = (W!FlattenSeq(ss) \o W!FlattenSeq(vv)) \o x
    <3>1. W!FlattenSeq(Append(ss \o vv, x)) = W!FlattenSeq(ss \o vv) \o x
      BY <2>4, FlattenAppend
    <3> QED BY <2>3, <2>4, <3>1, Zenon
  <2>6. W!FlattenSeq(uu) = W!FlattenSeq(vv) \o x
    BY <2>1, FlattenAppend
  <2>7. W!FlattenSeq(ss) \in Seq(S) /\ W!FlattenSeq(vv) \in Seq(S)
    BY FlattenType, Zenon
  <2>8. (W!FlattenSeq(ss) \o W!FlattenSeq(vv)) \o x = W!FlattenSeq(ss) \o (W!FlattenSeq(vv) \o x)
    BY <2>7, ConcatAssociative, SMTT(30)
  <2> QED BY <2>5, <2>6, <2>8, Zenon
<1> HIDE DEF T
<1>3. T = Nat
  <2>1. T \subseteq Nat
    BY DEF T
  <2> QED BY <1>1, <1>2, <2>1, Induction
<1>4. Len(tt) \in T
  BY <1>3
<1> QED BY <1>4 DEF T

-----------------------------------------------------------------------------
(***************************************************************************)
(* A piece of a sequence of sequences, made into one.                     *)
(***************************************************************************)
Joined(ps, a, b) == W!FlattenSeq(SubSeq(ps, a, b))

(* What SubSeq cuts out.                                                  *)
LEMMA Slices ==
  ASSUME NEW S, NEW ps \in Seq(Seq(S)), NEW a \in 1..(Len(ps) + 1), NEW b \in (a - 1)..Len(ps)
  PROVE  SubSeq(ps, a, b) \in Seq(Seq(S)) /\ Len(SubSeq(ps, a, b)) = b - a + 1
         /\ \A i \in 1..(b - a + 1) : SubSeq(ps, a, b)[i] = ps[a + i - 1]
<1>1. \A i \in a..b : ps[i] \in Seq(S)
  BY ElementOfSeq
<1>2. a \in Int /\ b \in Int /\ (a <= b \/ b - a + 1 = 0) /\ b - a + 1 = (b - a) + 1
  BY LenProperties
<1> QED BY <1>1, <1>2, SubSeqProperties

LEMMA JoinedType ==
  ASSUME NEW S, NEW ps \in Seq(Seq(S)), NEW a \in 1..(Len(ps) + 1), NEW b \in (a - 1)..Len(ps)
  PROVE  Joined(ps, a, b) \in Seq(S)
BY Slices, FlattenType DEF Joined

(* A piece in two.                                                        *)
LEMMA JoinedSplit ==
  ASSUME NEW S, NEW ps \in Seq(Seq(S)), NEW a \in 1..(Len(ps) + 1), NEW b \in (a - 1)..Len(ps),
         NEW c \in b..Len(ps)
  PROVE  Joined(ps, a, c) = Joined(ps, a, b) \o Joined(ps, b + 1, c)
<1>1. SubSeq(ps, a, b) \in Seq(Seq(S)) 
  BY Slices
<1>2. SubSeq(ps, b + 1, c) \in Seq(Seq(S))
  <2>1. b + 1 \in 1..(Len(ps) + 1) /\ c \in ((b + 1) - 1)..Len(ps)
     BY LenProperties
  <2> QED BY <2>1, Slices
<1>3. SubSeq(ps, a, b) \o SubSeq(ps, b + 1, c) = SubSeq(ps, a, c)
  BY ConcatAdjacentSubSeq
<1>4. W!FlattenSeq(SubSeq(ps, a, b) \o SubSeq(ps, b + 1, c))
        = W!FlattenSeq(SubSeq(ps, a, b)) \o W!FlattenSeq(SubSeq(ps, b + 1, c))
  BY <1>1, <1>2, FlattenConcat
<1> QED BY <1>3, <1>4 DEF Joined

(* An empty piece.                                                        *)
LEMMA JoinedNone ==
  ASSUME NEW ps, NEW a \in Int
  PROVE  Joined(ps, a, a - 1) = <<>>
<1>1. a - 1 \in Int /\ a - 1 < a
  OBVIOUS
<1>2. SubSeq(ps, a, a - 1) = <<>>
  BY <1>1, SubSeqEmpty
<1> QED BY <1>2, FlattenEmpty DEF Joined

LEMMA FlattenOne ==
  ASSUME NEW S, NEW x \in Seq(S)
  PROVE  W!FlattenSeq(<<x>>) = x
<1>1. <<>> \in Seq(Seq(S)) /\ Append(<<>>, x) = <<x>>
  OBVIOUS
<1>2. W!FlattenSeq(Append(<<>>, x)) = W!FlattenSeq(<<>>) \o x
  BY <1>1, FlattenAppend
<1> QED BY <1>1, <1>2, FlattenEmpty, ConcatEmptySeq

(* A piece of one.                                                        *)
LEMMA JoinedOne ==
  ASSUME NEW S, NEW ps \in Seq(Seq(S)), NEW a \in 1..Len(ps)
  PROVE  Joined(ps, a, a) = ps[a] /\ ps[a] \in Seq(S)
<1>1. ps[a] \in Seq(S)
  BY ElementOfSeq
<1>2. SubSeq(ps, a, a) = <<ps[a]>> \o SubSeq(ps, a + 1, a)
  <2>1. a \in a..Len(ps)
    BY LenProperties
  <2> QED BY <2>1, SubSeqRecursiveFirst
<1>3. SubSeq(ps, a + 1, a) = <<>>
  BY SubSeqEmpty
<1>4. <<ps[a]>> \o <<>> = <<ps[a]>>
  <2>1. <<ps[a]>> \in Seq(Seq(S))
    BY <1>1
  <2> QED BY <2>1, ConcatEmptySeq
<1> QED BY <1>1, <1>2, <1>3, <1>4, FlattenOne DEF Joined

(* The piece as WebSocket.tla writes it, as a function.                   *)
LEMMA FunSlice ==
  ASSUME NEW S, NEW ps \in Seq(Seq(S)), NEW a \in 1..(Len(ps) + 1), NEW b \in (a - 1)..Len(ps),
         NEW f, f = [i \in 1..(b - a + 1) |-> ps[a + i - 1]]
  PROVE  W!FlattenSeq(f) = Joined(ps, a, b)
<1>1. f = SubSeq(ps, a, b)
  OBVIOUS
<1> QED BY <1>1 DEF Joined

(* The piece depends on the elements in it alone.                         *)
LEMMA JoinedSame ==
  ASSUME NEW S, NEW ps \in Seq(Seq(S)), NEW qs \in Seq(Seq(S)), NEW a \in 1..(Len(ps) + 1),
         NEW b \in (a - 1)..Len(ps),
         b <= Len(qs), a <= Len(qs) + 1, \A i \in a..b : ps[i] = qs[i]
  PROVE  Joined(ps, a, b) = Joined(qs, a, b)
<1>1. SubSeq(ps, a, b) = SubSeq(qs, a, b)
  OBVIOUS
<1> QED BY <1>1 DEF Joined

-----------------------------------------------------------------------------
(***************************************************************************)
(* Sequences of bytes: regrouped, cut, masked.                            *)
(***************************************************************************)
LEMMA Regroup ==
  ASSUME NEW a \in Seq(Int), NEW b \in Seq(Int), NEW c \in Seq(Int)
  PROVE  (a \o b) \o c = a \o (b \o c)
BY ConcatAssociative

(* A cut: the two parts make the whole.                                   *)
LEMMA AfterIs ==
  ASSUME NEW b \in Seq(Int), NEW m \in 0..Len(b)
  PROVE  /\ W!After(b, m) \in Seq(Int) /\ Len(W!After(b, m)) = Len(b) - m
         /\ SubSeq(b, 1, m) \in Seq(Int) /\ SubSeq(b, 1, m) \o W!After(b, m) = b
<1>1. Len(b) \in Nat
  BY LenProperties
<1>2. W!After(b, m) \in Seq(Int) /\ Len(W!After(b, m)) = Len(b) - m /\ SubSeq(b, 1, m) \in Seq(Int)
  BY <1>1 DEF W!After
<1>3. SubSeq(b, 1, m) \o W!After(b, m) = b
  <2>1. 1 \in 1..(Len(b) + 1) /\ m \in (1 - 1)..Len(b) /\ Len(b) \in m..Len(b)
    BY <1>1
  <2>2. SubSeq(b, 1, m) \o SubSeq(b, m + 1, Len(b)) = SubSeq(b, 1, Len(b))
    BY <2>1, ConcatAdjacentSubSeq
  <2> QED BY <2>2, SubSeqFull DEF W!After
<1> QED BY <1>2, <1>3

(* The head of what is buffered, and what follows it, when more is still  *)
(* to come.                                                               *)
LEMMA Shift ==
  ASSUME NEW b \in Seq(Int), NEW w \in Seq(Int), NEW h \in Seq(Int), NEW r \in Seq(Int),
         b \o w = h \o r, Len(b) >= Len(h)
  PROVE  /\ SubSeq(b, 1, Len(h)) = h
         /\ W!After(b, Len(h)) \in Seq(Int) /\ Len(W!After(b, Len(h))) = Len(b) - Len(h)
         /\ W!After(b, Len(h)) \o w = r
<1> DEFINE m == Len(h)
           c == W!After(b, m)
<1>1. m \in Nat /\ Len(b) \in Nat /\ m <= Len(b)
  BY LenProperties
<1>2. \A i \in 1..m : (h \o r)[i] = h[i] /\ (b \o w)[i] = b[i]
  BY <1>1, ConcatProperties
<1>3. /\ SubSeq(b, 1, m) \in Seq(Int) /\ Len(SubSeq(b, 1, m)) = m
      /\ \A i \in 1..m : SubSeq(b, 1, m)[i] = b[i]
  OBVIOUS
<1>4. SubSeq(b, 1, m) = h
  BY <1>1, <1>2, <1>3, SeqEqual
<1>9. m \in 0..Len(b)
  BY <1>1
<1>5. c \in Seq(Int) /\ Len(c) = Len(b) - m /\ SubSeq(b, 1, m) \o c = b
  <2> HIDE DEF m
  <2> QED BY <1>9, AfterIs
<1>6. h \o (c \o w) = h \o r
  <2>1. (h \o c) \o w = h \o (c \o w)
    <3>1. c \in Seq(Int)
      BY <1>5
    <3> HIDE DEF c, m
    <3> QED BY <3>1, Regroup
  <2> QED BY <1>4, <1>5, <2>1
<1>7. c \o w = r
  <2>1. c \o w \in Seq(Int)
    BY <1>5, ConcatProperties
  <2> DEFINE x == c \o w
  <2>2. x \in Seq(Int) /\ h \o x = h \o r
    BY <1>6, <2>1
  <2> HIDE DEF x
  <2>3. x = r
    BY <2>2, ConcatSimplifications
  <2> QED BY <2>3 DEF x
<1> QED BY <1>4, <1>5, <1>7

(* A sequence is a prefix of its continuations.                           *)
LEMMA PrefixOf ==
  ASSUME NEW S, NEW s \in Seq(S), NEW t \in Seq(S)
  PROVE  W!IsPrefix(s, s \o t)
BY DEF W!IsPrefix

(* Masking twice changes nothing.                                         *)
LEMMA Unmask ==
  ASSUME NEW d \in Seq(Int)
  PROVE  /\ W!xor_mask_bytes(d) \in Seq(Int) /\ Len(W!xor_mask_bytes(d)) = Len(d)
         /\ W!xor_mask_bytes(W!xor_mask_bytes(d)) = d
BY DEF W!xor_mask_bytes, W!Key

-----------------------------------------------------------------------------
(***************************************************************************)
(* The bytes of a frame: what write_frame() puts before the payload, and  *)
(* what Header reads of it.                                               *)
(***************************************************************************)
Size(f)  == Len(f.data)
Byte1(f) == f.op + (IF f.fin THEN 16 ELSE 0) + (IF f.rsv THEN 32 ELSE 0)
Byte2(f) == (IF Size(f) <= Small THEN Size(f) ELSE IF Size(f) <= 2 * Small THEN W!Medium ELSE W!Long)
            + (IF f.masked THEN W!Masked ELSE 0)
Longer(f) == IF Size(f) <= Small THEN <<>> ELSE <<Size(f)>>
Mask(f)  == IF f.masked THEN <<W!Key>> ELSE <<>>
Lead(f)  == (<<Byte1(f), Byte2(f)>> \o Longer(f)) \o Mask(f)
Body(f)  == IF f.masked THEN W!xor_mask_bytes(f.data) ELSE f.data

LEMMA FrameTypes ==
  ASSUME NEW f \in W!Frame
  PROVE  /\ Size(f) \in Nat /\ Byte1(f) \in Int /\ Byte2(f) \in Int /\ Lead(f) \in Seq(Int)
         /\ Body(f) \in Seq(Int)
         /\ Longer(f) \in Seq(Int) /\ Mask(f) \in Seq(Int) /\ <<Byte1(f), Byte2(f)>> \in Seq(Int)
         /\ Len(Body(f)) = Size(f)
<1>1. /\ f.data \in Seq(Int) /\ f.op \in Int /\ f.fin \in BOOLEAN /\ f.rsv \in BOOLEAN
      /\ f.masked \in BOOLEAN
  BY DEF W!Frame
<1>2. Size(f) \in Nat
  BY <1>1 DEF Size
<1>3. Byte1(f) \in Int /\ Byte2(f) \in Int
  BY SizeAssumption, <1>1, <1>2 DEF Byte1, Byte2, W!Medium, W!Long, W!Masked
<1>4. Longer(f) \in Seq(Int) /\ Mask(f) \in Seq(Int) /\ <<Byte1(f), Byte2(f)>> \in Seq(Int)
  BY <1>2, <1>3 DEF Longer, Mask, W!Key
<1>5. Lead(f) \in Seq(Int)
  BY <1>4, ConcatProperties DEF Lead
<1>6. Body(f) \in Seq(Int) /\ Len(Body(f)) = Size(f)
  BY <1>1, Unmask DEF Body, Size
<1> QED BY <1>2, <1>3, <1>4, <1>5, <1>6

(* What write_frame() writes is a lead and a body.                        *)
LEMMA Written ==
  ASSUME NEW f \in W!Frame
  PROVE  W!write_frame(f) = Lead(f) \o Body(f)
<1> DEFINE a == <<Byte1(f), Byte2(f)>> \o Longer(f)
           d == IF f.masked THEN <<W!Key>> \o W!xor_mask_bytes(f.data) ELSE f.data
<1>1. a \in Seq(Int) /\ Mask(f) \in Seq(Int) /\ Body(f) \in Seq(Int)
  BY FrameTypes, ConcatProperties
<1>2. W!write_frame(f) = a \o d
  BY DEF W!write_frame, Byte1, Byte2, Longer, Size
<1>3. Mask(f) \o Body(f) = d
  BY <1>1, ConcatEmptySeq DEF Mask, Body
<1>4. Lead(f) = a \o Mask(f)
  BY DEF Lead
<1> HIDE DEF a, d
<1>5. (a \o Mask(f)) \o Body(f) = a \o (Mask(f) \o Body(f))
  <2> DEFINE y == Mask(f)
             z == Body(f)
  <2>1. a \in Seq(Int) /\ y \in Seq(Int) /\ z \in Seq(Int)
    BY <1>1
  <2> HIDE DEF y, z
  <2>2. (a \o y) \o z = a \o (y \o z)
    BY <2>1, ConcatAssociative
  <2> QED BY <2>2 DEF y, z
<1> QED BY <1>2, <1>3, <1>4, <1>5

(* What the first bytes say.                                              *)
LEMMA LeadBytes ==
  ASSUME NEW f \in W!Frame
  PROVE  /\ Len(Lead(f)) = 2 + (IF Size(f) <= Small THEN 0 ELSE 1) + (IF f.masked THEN 1 ELSE 0)
         /\ Lead(f)[1] = Byte1(f) /\ Lead(f)[2] = Byte2(f)
         /\ Size(f) > Small => Lead(f)[3] = Size(f)
<1> DEFINE p == <<Byte1(f), Byte2(f)>>
           a == p \o Longer(f)
<1>1. p \in Seq(Int) /\ Longer(f) \in Seq(Int) /\ Mask(f) \in Seq(Int) /\ Size(f) \in Nat
  BY FrameTypes
<1>2. Len(p) = 2 /\ p[1] = Byte1(f) /\ p[2] = Byte2(f)
  OBVIOUS
<1>3. /\ Len(Longer(f)) = (IF Size(f) <= Small THEN 0 ELSE 1)
      /\ (Size(f) > Small => Longer(f)[1] = Size(f))
      /\ Len(Mask(f)) = IF f.masked THEN 1 ELSE 0
  BY <1>1, SizeAssumption DEF Longer, Mask
<1> HIDE DEF p
<1>4. /\ a \in Seq(Int) /\ Len(a) = 2 + (IF Size(f) <= Small THEN 0 ELSE 1) /\ a[1] = Byte1(f)
      /\ a[2] = Byte2(f)
      /\ Size(f) > Small => a[3] = Size(f)
  <2> DEFINE q == Longer(f)
  <2>1. q \in Seq(Int) /\ Len(q) \in Nat
    BY <1>1, LenProperties
  <2>2. /\ p \o q \in Seq(Int) /\ Len(p \o q) = 2 + Len(q)
        /\ \A i \in 1..(2 + Len(q)) : (p \o q)[i] = IF i <= 2 THEN p[i] ELSE q[i - 2]
    <3> HIDE DEF q
    <3>1. /\ p \o q \in Seq(Int) /\ Len(p \o q) = Len(p) + Len(q)
          /\ \A i \in 1..(Len(p) + Len(q)) : (p \o q)[i] = IF i <= Len(p) THEN p[i] ELSE q[i - Len(p)]
      BY <1>1, <2>1, ConcatProperties
    <3> QED BY <1>2, <3>1
  <2>3. (p \o q)[1] = p[1] /\ (p \o q)[2] = p[2]
    BY <2>1, <2>2
  <2>4. Size(f) > Small => (p \o q)[3] = q[1]
    <3>1. Size(f) > Small => Len(q) = 1
      BY <1>1, <1>3, SizeAssumption
    <3> HIDE DEF q
    <3>2. Len(q) = 1 => 3 \in 1..(2 + Len(q)) /\ ~(3 <= 2) /\ 3 - 2 = 1
      OBVIOUS
    <3> QED BY <2>2, <3>1, <3>2
  <2> QED BY <1>2, <1>3, <2>2, <2>3, <2>4
<1> HIDE DEF a
<1>5. /\ Len(a \o Mask(f)) = Len(a) + Len(Mask(f))
      /\ \A i \in 1..Len(a) : (a \o Mask(f))[i] = a[i]
  <2> DEFINE q == Mask(f)
  <2>1. q \in Seq(Int) /\ Len(q) \in Nat /\ Len(a) \in Nat
    BY <1>1, <1>4, LenProperties
  <2> HIDE DEF q
  <2>2. /\ Len(a \o q) = Len(a) + Len(q)
        /\ \A i \in 1..(Len(a) + Len(q)) : (a \o q)[i] = IF i <= Len(a) THEN a[i] ELSE q[i - Len(a)]
    BY <1>4, <2>1, ConcatProperties
  <2>3. \A i \in 1..Len(a) : i \in 1..(Len(a) + Len(q)) /\ i <= Len(a)
    BY <2>1
  <2> QED BY <2>2, <2>3 DEF q
<1>6. Lead(f) = a \o Mask(f)
  BY DEF Lead, a, p
<1> HIDE DEF a, p
<1>7. Len(Lead(f)) = 2 + (IF Size(f) <= Small THEN 0 ELSE 1) + (IF f.masked THEN 1 ELSE 0)
  BY <1>3, <1>4, <1>5, <1>6
<1>8. 1 \in 1..Len(a) /\ 2 \in 1..Len(a) /\ (Size(f) > Small => 3 \in 1..Len(a))
  BY <1>1, <1>4, SizeAssumption
<1>9. Lead(f)[1] = Byte1(f) /\ Lead(f)[2] = Byte2(f) /\ (Size(f) > Small => Lead(f)[3] = Size(f))
  BY <1>4, <1>5, <1>6, <1>8
<1> QED BY <1>7, <1>9

(* The fields of the first byte.                                          *)
LEMMA Bits ==
  ASSUME NEW x \in 0..15, NEW c \in BOOLEAN, NEW d \in BOOLEAN, NEW b,
         b = x + (IF c THEN 16 ELSE 0) + (IF d THEN 32 ELSE 0)
  PROVE  b \in Int /\ (b >= 32 <=> d) /\ (b % 32 >= 16 <=> c) /\ (b % 32) % 16 = x /\ b % 32 \in 0..31
<1>1. CASE c /\ d
  BY <1>1
<1>2. CASE c /\ ~d
  BY <1>2
<1>3. CASE ~c /\ d
  BY <1>3
<1>4. CASE ~c /\ ~d
  BY <1>4
<1> QED BY <1>1, <1>2, <1>3, <1>4

(* The two first bytes tell the fields of the frame, and the body its     *)
(* payload.                                                               *)
LEMMA Decoded ==
  ASSUME NEW f \in W!Frame
  PROVE  /\ Byte1(f) \in Int /\ (Byte1(f) >= 32 <=> f.rsv) /\ (Byte1(f) % 32 >= 16 <=> f.fin)
         /\ (Byte1(f) % 32) % 16 = f.op
         /\ Byte2(f) \in Int /\ (Byte2(f) >= W!Masked <=> f.masked)
         /\ LET marker == IF f.masked THEN Byte2(f) - W!Masked ELSE Byte2(f)
            IN (marker >= W!Medium <=> Size(f) > Small) /\ (Size(f) <= Small => marker = Size(f))
         /\ (IF f.masked THEN W!xor_mask_bytes(Body(f)) ELSE Body(f)) = f.data
<1>1. /\ f.data \in Seq(Int) /\ f.op \in 0..15 /\ f.fin \in BOOLEAN /\ f.rsv \in BOOLEAN
      /\ f.masked \in BOOLEAN
  BY DEF W!Frame
<1>2. /\ Byte1(f) \in Int /\ (Byte1(f) >= 32 <=> f.rsv) /\ (Byte1(f) % 32 >= 16 <=> f.fin)
      /\ (Byte1(f) % 32) % 16 = f.op
  <2> DEFINE x == f.op
             c == f.fin
             d == f.rsv
             b == Byte1(f)
  <2>1. x \in 0..15 /\ c \in BOOLEAN /\ d \in BOOLEAN /\ b = x + (IF c THEN 16 ELSE 0) + (IF d THEN 32 ELSE 0)
    BY <1>1 DEF Byte1
  <2> HIDE DEF x, c, d, b
  <2>2. b \in Int /\ (b >= 32 <=> d) /\ (b % 32 >= 16 <=> c) /\ (b % 32) % 16 = x
    BY <2>1, Bits
  <2> QED BY <2>2 DEF x, c, d, b
<1>3. Size(f) \in Nat /\ Small \in Nat
  BY FrameTypes, SizeAssumption
<1>4. /\ Byte2(f) \in Int /\ (Byte2(f) >= W!Masked <=> f.masked)
      /\ LET marker == IF f.masked THEN Byte2(f) - W!Masked ELSE Byte2(f)
         IN (marker >= W!Medium <=> Size(f) > Small) /\ (Size(f) <= Small => marker = Size(f))
  BY <1>1, <1>3 DEF Byte2, W!Medium, W!Long, W!Masked
<1>5. (IF f.masked THEN W!xor_mask_bytes(Body(f)) ELSE Body(f)) = f.data
  BY <1>1, Unmask DEF Body
<1> QED BY <1>2, <1>4, <1>5

-----------------------------------------------------------------------------
(***************************************************************************)
(* The frames read up to a position: the last data frame, the end of the  *)
(* last message, what is open.                                            *)
(***************************************************************************)
LEMMA LatestIs ==
  ASSUME NEW k \in Nat, NEW T, T \subseteq 1..k
  PROVE  /\ W!Latest(T) \in 0..k
         /\ T = {} => W!Latest(T) = 0
         /\ T # {} => W!Latest(T) \in T /\ \A j \in T : W!Latest(T) >= j
<1>1. CASE T = {}
  BY <1>1 DEF W!Latest
<1>2. CASE T # {}
  <2> DEFINE U == {x \in Nat : \A j \in T : x >= j}
  <2>1. k \in U
    OBVIOUS
  <2>2. PICK m \in U : \A x \in U : m <= x
    <3>1. U \subseteq Nat /\ U # {}
      BY <2>1
    <3> HIDE DEF U
    <3> QED BY <3>1, Least
  <2>3. m \in T
    <3> SUFFICES ASSUME m \notin T PROVE FALSE
      OBVIOUS
    <3>1. PICK j \in T : m >= j /\ j \in 1..k
      BY <1>2, <2>2
    <3>2. m - 1 \in Nat
      BY <2>2, <3>1
    <3>3. \A i \in T : m - 1 >= i
      BY <2>2
    <3> QED BY <2>2, <3>2, <3>3
  <2>4. W!Latest(T) \in T /\ \A j \in T : W!Latest(T) >= j
    BY <1>2, <2>2, <2>3 DEF W!Latest
  <2>5. W!Latest(T) \in 1..k
    BY <2>4
  <2>6. 1..k \subseteq 0..k
    OBVIOUS
  <2> HIDE DEF U
  <2> QED BY <1>2, <2>4, <2>5, <2>6
<1> QED BY <1>1, <1>2

(* The latest after one more.                                             *)
LEMMA LatestStep ==
  ASSUME NEW k \in Nat, NEW T, T \subseteq 1..k
  PROVE  W!Latest(T \union {k + 1}) = k + 1
<1>1. T \union {k + 1} \subseteq 1..(k + 1) /\ T \union {k + 1} # {} /\ k + 1 \in Nat
  OBVIOUS
<1>2. W!Latest(T \union {k + 1}) \in T \union {k + 1} /\ W!Latest(T \union {k + 1}) >= k + 1
  BY <1>1, LatestIs
<1>3. W!Latest(T \union {k + 1}) \in Nat /\ W!Latest(T \union {k + 1}) <= k + 1
  <2>1. \A x \in T \union {k + 1} : x \in Nat /\ x <= k + 1
    OBVIOUS
  <2> QED BY <1>2, <2>1, Zenon
<1> QED BY <1>2, <1>3

DataOf(fs, i)   == fs[i].op < W!CLOSE
EndsOf(fs, i)   == DataOf(fs, i) /\ fs[i].fin
LastData(fs, k) == W!Latest({j \in 1..k : DataOf(fs, j)})
LastEnd(fs, k)  == W!Latest({j \in 1..k : EndsOf(fs, j)})
OpenOf(fs, k)   == LastData(fs, k) > 0 /\ ~fs[LastData(fs, k)].fin

(* One frame more: where the last message ends and whether one is open.   *)
LEMMA LastStep ==
  ASSUME NEW fs, NEW k \in Nat
  PROVE  /\ LastEnd(fs, k + 1) = IF EndsOf(fs, k + 1) THEN k + 1 ELSE LastEnd(fs, k)
         /\ LastData(fs, k + 1) = IF DataOf(fs, k + 1) THEN k + 1 ELSE LastData(fs, k)
         /\ LastEnd(fs, k) \in 0..k /\ LastData(fs, k) \in 0..k
         /\ OpenOf(fs, k + 1) = IF DataOf(fs, k + 1) THEN ~fs[k + 1].fin ELSE OpenOf(fs, k)
<1> DEFINE E(n) == {j \in 1..n : EndsOf(fs, j)}
           D(n) == {j \in 1..n : DataOf(fs, j)}
<1>1. E(k + 1) = E(k) \union (IF EndsOf(fs, k + 1) THEN {k + 1} ELSE {}) /\ E(k) \subseteq 1..k
  OBVIOUS
<1>2. D(k + 1) = D(k) \union (IF DataOf(fs, k + 1) THEN {k + 1} ELSE {}) /\ D(k) \subseteq 1..k
  OBVIOUS
<1>3. LastEnd(fs, k + 1) = W!Latest(E(k + 1)) /\ LastEnd(fs, k) = W!Latest(E(k))
  BY DEF LastEnd
<1>4. LastData(fs, k + 1) = W!Latest(D(k + 1)) /\ LastData(fs, k) = W!Latest(D(k))
  BY DEF LastData
<1> HIDE DEF E, D
<1>5. LastEnd(fs, k + 1) = IF EndsOf(fs, k + 1) THEN k + 1 ELSE LastEnd(fs, k)
  BY <1>1, <1>3, LatestStep
<1>6. LastData(fs, k + 1) = IF DataOf(fs, k + 1) THEN k + 1 ELSE LastData(fs, k)
  BY <1>2, <1>4, LatestStep
<1>7. LastEnd(fs, k) \in 0..k /\ LastData(fs, k) \in 0..k
  BY <1>1, <1>2, <1>3, <1>4, LatestIs
<1>8. OpenOf(fs, k + 1) = IF DataOf(fs, k + 1) THEN ~fs[k + 1].fin ELSE OpenOf(fs, k)
  BY <1>6 DEF OpenOf
<1> QED BY <1>5, <1>6, <1>7, <1>8

(* Frame by frame: the payload, the bytes, the answer.                    *)
Payloads(fs) == [i \in 1..Len(fs) |-> IF DataOf(fs, i) THEN fs[i].data ELSE <<>>]
Codes(fs)    == [i \in 1..Len(fs) |-> W!write_frame(fs[i])]
Reply(fs, i) == CASE fs[i].op = W!PING -> <<[op |-> W!PONG, data |-> fs[i].data]>>
                  [] fs[i].op = W!CLOSE /\ (\A j \in 1..(i - 1) : fs[j].op # W!CLOSE) ->
                       <<[op |-> W!CLOSE, data |-> fs[i].data]>>
                  [] OTHER -> <<>>
Replies(fs)  == [i \in 1..Len(fs) |-> Reply(fs, i)]
Answer == [op : Int, data : Seq(Int)]

LEMMA Fragments ==
  ASSUME NEW fs \in Seq(W!Frame)
  PROVE  /\ Payloads(fs) \in Seq(Seq(Int)) /\ Len(Payloads(fs)) = Len(fs)
         /\ Codes(fs) \in Seq(Seq(Int)) /\ Len(Codes(fs)) = Len(fs)
         /\ Replies(fs) \in Seq(Seq(Answer)) /\ Len(Replies(fs)) = Len(fs)
         /\ Len(fs) \in Nat
<1>1. ASSUME NEW i \in 1..Len(fs) 
      PROVE /\ fs[i] \in W!Frame /\ fs[i].data \in Seq(Int) /\ <<>> \in Seq(Int)
            /\ W!write_frame(fs[i]) \in Seq(Int)
  <2>1. fs[i] \in W!Frame
    OBVIOUS
  <2>2. /\ Lead(fs[i]) \in Seq(Int) /\ Body(fs[i]) \in Seq(Int)
        /\ W!write_frame(fs[i]) = Lead(fs[i]) \o Body(fs[i])
    BY <2>1, Written, FrameTypes
  <2>3. W!write_frame(fs[i]) \in Seq(Int)
    BY <2>2, ConcatProperties
  <2> QED BY <2>1, <2>3 DEF W!Frame
<1>2. ASSUME NEW i \in 1..Len(fs) PROVE Reply(fs, i) \in Seq(Answer)
  <2>1. [op |-> W!PONG, data |-> fs[i].data] \in Answer /\ [op |-> W!CLOSE, data |-> fs[i].data] \in Answer
    BY <1>1 DEF Answer, W!PONG, W!CLOSE
  <2> QED BY <2>1 DEF Reply
<1>3. Payloads(fs) \in Seq(Seq(Int)) /\ Len(Payloads(fs)) = Len(fs)
  BY <1>1 DEF Payloads
<1>4. Codes(fs) \in Seq(Seq(Int)) /\ Len(Codes(fs)) = Len(fs)
  BY <1>1 DEF Codes
<1>5. Replies(fs) \in Seq(Seq(Answer)) /\ Len(Replies(fs)) = Len(fs)
  BY <1>2 DEF Replies
<1> QED BY <1>3, <1>4, <1>5

-----------------------------------------------------------------------------
(***************************************************************************)
(* The invariant: k frames are decoded and none of them was bad; what the *)
(* adapter has delivered, keeps of an open message and has answered is    *)
(* what those k frames say; its buffer, followed by the bytes on the      *)
(* wire, is what remains of the frames after them.                        *)
(***************************************************************************)
BytesOf(fs, a, b) == Joined(Payloads(fs), a, b)
Coded(fs, a)      == Joined(Codes(fs), a, Len(fs))
Answers(fs, k)    == Joined(Replies(fs), 1, k)
BadOf(fs, i) ==
  LET f == fs[i]
  IN \/ f.rsv \/ f.masked # expect_masked \/ f.op \notin {W!CONT, 1, 2, W!CLOSE, W!PING, W!PONG}
     \/ f.op >= W!CLOSE /\ (~f.fin \/ Size(f) > Small)
     \/ Size(f) > MAX_FRAME_SIZE
     \/ DataOf(fs, i) /\ ((f.op = W!CONT) # OpenOf(fs, i - 1)
                          \/ Len(BytesOf(fs, LastEnd(fs, i - 1) + 1, i)) > MAX_MESSAGE_SIZE)

(* What the adapter may hold.                                             *)
Hdr   == [op : 0..15, fin : BOOLEAN, masked : BOOLEAN, size : Nat]
State == [buffer : Seq(Int), frame : Hdr \union {W!None}, message : Seq(Int), open : BOOLEAN,
          out : Seq(Int), answers : Seq(Answer), closed : BOOLEAN, close_sent : BOOLEAN, failed : BOOLEAN]

(* What the first k frames leave in the adapter.                          *)
Heard(fs, s, k) ==
  /\ \A i \in 1..k : ~BadOf(fs, i)
  /\ s.out = BytesOf(fs, 1, LastEnd(fs, k))
  /\ s.message = BytesOf(fs, LastEnd(fs, k) + 1, k)
  /\ s.open = OpenOf(fs, k)
  /\ s.answers = Answers(fs, k)
  /\ s.close_sent <=> \E i \in 1..k : fs[i].op = W!CLOSE
  /\ s.closed <=> s.failed \/ s.close_sent

(* What the buffer and the wire hold: a frame from its first byte, or the *)
(* body of one whose header is read.                                      *)
HeaderOf(f) == [op |-> f.op, fin |-> f.fin, masked |-> f.masked, size |-> Size(f)]
Allowed(f) ==
  /\ ~f.rsv /\ f.masked = expect_masked
  /\ f.op >= W!CLOSE => f.fin /\ Size(f) <= Small
  /\ Size(f) <= MAX_FRAME_SIZE
Between(fs, s, k, w) == s.frame = W!None /\ s.buffer \o w = Coded(fs, k + 1)
Within(fs, s, k, w)  ==
  /\ k < Len(fs) /\ s.frame = HeaderOf(fs[k + 1]) /\ Allowed(fs[k + 1])
  /\ s.buffer \o w = Body(fs[k + 1]) \o Coded(fs, k + 2)
Layout(fs, s, k, w) == Between(fs, s, k, w) \/ Within(fs, s, k, w)

(* What is still to be decoded begins with the next frame.                *)
LEMMA CodedIs ==
  ASSUME NEW fs \in Seq(W!Frame)
  PROVE  /\ Coded(fs, Len(fs) + 1) = <<>>
         /\ \A k \in 0..Len(fs) : Coded(fs, k + 1) \in Seq(Int)
         /\ \A k \in 0..Len(fs) : k < Len(fs) =>
              /\ fs[k + 1] \in W!Frame /\ Coded(fs, k + 2) \in Seq(Int)
              /\ Coded(fs, k + 1) = Lead(fs[k + 1]) \o (Body(fs[k + 1]) \o Coded(fs, k + 2))
<1> DEFINE cs == Codes(fs)
           n  == Len(fs)
<1>1. cs \in Seq(Seq(Int)) /\ Len(cs) = n /\ n \in Nat
  BY Fragments
<1>2. Coded(fs, n + 1) = <<>>
  <2>1. n + 1 \in Int /\ (n + 1) - 1 = n
    BY <1>1
  <2> QED BY <2>1, JoinedNone DEF Coded
<1>3. ASSUME NEW k \in 0..n PROVE Coded(fs, k + 1) \in Seq(Int)
  <2> HIDE DEF n, cs
  <2>1. k + 1 \in 1..(Len(cs) + 1) /\ n \in ((k + 1) - 1)..Len(cs)
    BY <1>1
  <2>2. Joined(cs, k + 1, n) \in Seq(Int)
    BY <1>1, <2>1, JoinedType
  <2> QED BY <2>2 DEF Coded, cs, n
<1>4. ASSUME NEW k \in 0..n, k < n
      PROVE  /\ fs[k + 1] \in W!Frame /\ Coded(fs, k + 2) \in Seq(Int)
             /\ Coded(fs, k + 1) = Lead(fs[k + 1]) \o (Body(fs[k + 1]) \o Coded(fs, k + 2))
  <2> DEFINE f == fs[k + 1]
  <2>1. k + 1 \in 0..n /\ k + 1 \in 1..n /\ (k + 1) + 1 = k + 2
    BY <1>1, <1>4
  <2>2. f \in W!Frame
    BY <2>1, ElementOfSeq
  <2>3. Coded(fs, k + 2) \in Seq(Int)
    BY <1>3, <2>1
  <2>4. Lead(f) \in Seq(Int) /\ Body(f) \in Seq(Int)
    BY <2>2, FrameTypes
  <2>5. cs[k + 1] = Lead(f) \o Body(f)
    BY <2>1, <2>2, Written DEF Codes
  <2>6. Joined(cs, k + 1, n) = Joined(cs, k + 1, k + 1) \o Joined(cs, k + 2, n)
    <3> HIDE DEF cs, n
    <3>1. k + 1 \in 1..(Len(cs) + 1) /\ k + 1 \in ((k + 1) - 1)..Len(cs) /\ n \in (k + 1)..Len(cs)
      BY <1>1, <2>1
    <3> QED BY <1>1, <2>1, <3>1, JoinedSplit
  <2>7. Joined(cs, k + 1, k + 1) = cs[k + 1]
    <3>1. k + 1 \in 1..Len(cs)
      BY <1>1, <2>1
    <3> HIDE DEF cs, n
    <3> QED BY <1>1, <3>1, JoinedOne
  <2>8. Coded(fs, k + 1) = (Lead(f) \o Body(f)) \o Coded(fs, k + 2)
    BY <2>5, <2>6, <2>7 DEF Coded
  <2>9. (Lead(f) \o Body(f)) \o Coded(fs, k + 2) = Lead(f) \o (Body(f) \o Coded(fs, k + 2))
    <3> HIDE DEF f, cs, n
    <3> QED BY <2>3, <2>4, Regroup
  <2> QED BY <2>2, <2>3, <2>8, <2>9
<1> QED BY <1>2, <1>3, <1>4

(* A header: not there yet, refused because the frame is bad, or the one  *)
(* that was sent.                                                         *)
LEMMA HeaderRound ==
  ASSUME NEW fs \in Seq(W!Frame), NEW s \in State, NEW k \in 0..Len(fs), NEW w \in Seq(Int),
         Between(fs, s, k, w), Len(s.buffer) >= 2
  PROVE  /\ k < Len(fs)
         /\ \/ W!Header(s) = s /\ w # <<>>
            \/ W!Header(s) = W!Fail(s) /\ BadOf(fs, k + 1)
            \/ /\ W!Header(s) = [s EXCEPT !.frame = HeaderOf(fs[k + 1]),
                                        !.buffer = W!After(s.buffer, Len(Lead(fs[k + 1])))]
               /\ Len(Lead(fs[k + 1])) >= 2 /\ Len(s.buffer) >= Len(Lead(fs[k + 1]))
               /\ Within(fs, W!Header(s), k, w)
<1> DEFINE b == s.buffer
           f == fs[k + 1]
           r == Body(f) \o Coded(fs, k + 2)
<1>1. b \in Seq(Int) /\ Len(b) \in Nat
  BY DEF State
<1>2. k < Len(fs)
  <2>1. CASE k = Len(fs)
    <3>1. b \o w = <<>>
      BY <2>1, CodedIs DEF Between
    <3>2. Len(b \o w) = Len(b) + Len(w) /\ Len(w) \in Nat
      BY <1>1, ConcatProperties, LenProperties
    <3> QED BY <1>1, <3>1, <3>2, EmptySeq
  <2> QED BY <2>1, LenProperties
<1>3. f \in W!Frame /\ Coded(fs, k + 2) \in Seq(Int) /\ b \o w = Lead(f) \o r
  BY <1>2, CodedIs DEF Between
<1>4. Lead(f) \in Seq(Int) /\ Body(f) \in Seq(Int) /\ Size(f) \in Nat /\ r \in Seq(Int)
  BY <1>3, FrameTypes, ConcatProperties
<1> DEFINE m == Len(Lead(f))
<1>5. /\ m = 2 + (IF Size(f) <= Small THEN 0 ELSE 1) + (IF f.masked THEN 1 ELSE 0)
      /\ Lead(f)[1] = Byte1(f) /\ Lead(f)[2] = Byte2(f)
      /\ Size(f) > Small => Lead(f)[3] = Size(f)
  BY <1>3, LeadBytes
<1>6. \A i \in 1..m : i <= Len(b) => b[i] = Lead(f)[i]
  <2> HIDE DEF b, f, r
  <2>1. \A i \in 1..Len(Lead(f)) : (Lead(f) \o r)[i] = Lead(f)[i]
    BY <1>4, ConcatProperties, LenProperties
  <2>2. \A i \in 1..Len(b) : (b \o w)[i] = b[i]
    BY <1>1, ConcatProperties, LenProperties
  <2>3. ASSUME NEW i \in 1..m, i <= Len(b) PROVE b[i] = Lead(f)[i]
    <3>1. i \in 1..Len(b)
      BY <1>1, <2>3
    <3> QED BY <1>3, <2>1, <2>2, <3>1
  <2> QED BY <2>3
<1> DEFINE first  == b[1] % 32
           masked == b[2] >= W!Masked
           marker == IF masked THEN b[2] - W!Masked ELSE b[2]
           size   == 2 + (IF marker >= W!Medium THEN 1 ELSE 0) + (IF masked THEN 1 ELSE 0)
           op     == first % 16
           n      == IF marker >= W!Medium THEN b[3] ELSE marker
<1>7. W!Header(s) = IF b[1] >= 32 \/ masked # expect_masked THEN W!Fail(s)
                  ELSE IF Len(b) < size THEN s
                  ELSE IF (op >= 8 /\ (first < 16 \/ n > Small)) \/ n > MAX_FRAME_SIZE THEN W!Fail(s)
                  ELSE [s EXCEPT !.frame = [op |-> op, fin |-> first >= 16, masked |-> masked, size |-> n],
                                 !.buffer = W!After(@, size)]
  BY DEF W!Header
<1>8. b[1] = Byte1(f) /\ b[2] = Byte2(f) /\ m \in Nat /\ m >= 2
  <2> HIDE DEF b, f, r, m
  <2>1. m \in Nat /\ m >= 2
    BY <1>4, <1>5, SizeAssumption
  <2>2. 1 \in 1..m /\ 2 \in 1..m /\ 1 <= Len(b) /\ 2 <= Len(b)
    BY <1>1, <2>1 DEF b
  <2> QED BY <1>5, <1>6, <2>1, <2>2
<1>9. /\ (b[1] >= 32 <=> f.rsv) /\ (first >= 16 <=> f.fin) /\ (first < 16 <=> ~f.fin) /\ op = f.op
      /\ masked = f.masked
  <2>1. f.masked \in BOOLEAN /\ f.fin \in BOOLEAN /\ f.rsv \in BOOLEAN
    BY <1>3 DEF W!Frame
  <2> HIDE DEF b, f
  <2>2. first = Byte1(f) % 32 /\ op = (Byte1(f) % 32) % 16 /\ masked = (Byte2(f) >= W!Masked)
    BY <1>8, Zenon
  <2>3. first \in Int
    BY <1>3, <2>2, Decoded
  <2> HIDE DEF first, op, masked
  <2>4. (b[1] >= 32 <=> f.rsv) /\ (first >= 16 <=> f.fin) /\ op = f.op /\ masked = f.masked
    <3>1. /\ (Byte1(f) >= 32 <=> f.rsv) /\ (Byte1(f) % 32 >= 16 <=> f.fin)
          /\ (Byte1(f) % 32) % 16 = f.op
          /\ (Byte2(f) >= W!Masked <=> f.masked)
      BY <1>3, Decoded
    <3> QED BY <1>8, <2>1, <2>2, <3>1
  <2> QED BY <2>3, <2>4
<1>10. (marker >= W!Medium <=> Size(f) > Small) /\ (Size(f) <= Small => marker = Size(f))
  <2>1. marker = IF f.masked THEN Byte2(f) - W!Masked ELSE Byte2(f)
    BY <1>8, <1>9
  <2> QED BY <1>3, <2>1, Decoded
<1>11. size = m
  <2> HIDE DEF marker, masked
  <2>1. size = 2 + (IF Size(f) > Small THEN 1 ELSE 0) + (IF f.masked THEN 1 ELSE 0)
    BY <1>9, <1>10
  <2> QED BY <1>4, <1>5, <2>1, SizeAssumption
<1>12. Len(b) >= m => n = Size(f)
  <2>1. CASE Size(f) <= Small
    BY <1>4, <1>10, <2>1, SizeAssumption
  <2>2. CASE Size(f) > Small /\ Len(b) >= m
    <3>1. n = b[3]
      BY <1>10, <2>2
    <3>2. 3 \in 1..m /\ 3 <= Len(b)
      <4> HIDE DEF b, f, m
      <4>1. m >= 3
        <5>1. ~(Size(f) <= Small)
          BY <1>4, <2>2, SizeAssumption
        <5>2. m = 2 + 1 + (IF f.masked THEN 1 ELSE 0)
          BY <1>5, <5>1, Zenon
        <5> QED BY <5>2
      <4> QED BY <1>1, <1>8, <2>2, <4>1
    <3> QED BY <1>5, <1>6, <2>2, <3>1, <3>2
  <2> QED BY <1>4, <2>1, <2>2, SizeAssumption
<1>13. f.op \in 0..15 /\ f.masked \in BOOLEAN /\ f.rsv \in BOOLEAN /\ f.fin \in BOOLEAN
  BY <1>3 DEF W!Frame
<1> HIDE DEF first, masked, marker, size, op, n, r, m
<1>14. CASE b[1] >= 32 \/ masked # expect_masked
  <2>1. W!Header(s) = W!Fail(s)
    BY <1>7, <1>14, Zenon
  <2>2. BadOf(fs, k + 1)
    BY <1>9, <1>14 DEF BadOf
  <2> QED BY <1>2, <2>1, <2>2
<1>15. CASE ~(b[1] >= 32 \/ masked # expect_masked) /\ Len(b) < m
  <2>1. W!Header(s) = s
    BY <1>7, <1>11, <1>15, Zenon
  <2>2. w # <<>>
    <3>1. Len(Lead(f) \o r) = m + Len(r) /\ Len(r) \in Nat
      <4> HIDE DEF f
      <4> QED BY <1>4, ConcatProperties, LenProperties DEF m, r
    <3>2. w = <<>> => b \o w = b
      BY <1>1, ConcatEmptySeq
    <3> QED BY <1>1, <1>3, <1>8, <1>15, <3>1, <3>2 DEF r
  <2> QED BY <1>2, <2>1, <2>2
<1>16. CASE /\ ~(b[1] >= 32 \/ masked # expect_masked) /\ Len(b) >= m
            /\ (op >= 8 /\ (first < 16 \/ n > Small)) \/ n > MAX_FRAME_SIZE
  <2>1. W!Header(s) = W!Fail(s)
    BY <1>1, <1>7, <1>8, <1>11, <1>16
  <2>2. BadOf(fs, k + 1)
    BY <1>9, <1>12, <1>16 DEF BadOf, W!CLOSE
  <2> QED BY <1>2, <2>1, <2>2
<1>18. CASE /\ ~(b[1] >= 32 \/ masked # expect_masked) /\ Len(b) >= m
            /\ ~((op >= 8 /\ (first < 16 \/ n > Small)) \/ n > MAX_FRAME_SIZE)
  <2>1. W!Header(s) = [s EXCEPT !.frame = [op |-> op, fin |-> first >= 16, masked |-> masked, size |-> n],
                              !.buffer = W!After(b, m)]
    BY <1>1, <1>7, <1>8, <1>11, <1>18
  <2>2. [op |-> op, fin |-> first >= 16, masked |-> masked, size |-> n] = HeaderOf(f)
    BY <1>9, <1>12, <1>13, <1>18 DEF HeaderOf
  <2>3. W!Header(s) = [s EXCEPT !.frame = HeaderOf(f), !.buffer = W!After(b, m)]
    BY <2>1, <2>2, Zenon
  <2>4. W!Header(s).frame = HeaderOf(f) /\ W!Header(s).buffer = W!After(b, m)
    BY <2>3 DEF State
  <2>5. W!After(b, m) \o w = r
    <3> HIDE DEF b, f
    <3>1. b \o w = Lead(f) \o r /\ r \in Seq(Int) /\ Lead(f) \in Seq(Int) /\ Len(b) >= Len(Lead(f))
      BY <1>3, <1>4, <1>18 DEF r, m
    <3>2. W!After(b, Len(Lead(f))) \o w = r
      <4> DEFINE h == Lead(f)
      <4>1. b \in Seq(Int) /\ h \in Seq(Int) /\ r \in Seq(Int) /\ b \o w = h \o r /\ Len(b) >= Len(h)
        BY <1>1, <3>1 DEF b
      <4> HIDE DEF h
      <4>2. W!After(b, Len(h)) \o w = r
        BY <4>1, Shift
      <4> QED BY <4>2 DEF h
    <3> QED BY <3>2 DEF m
  <2>6. Allowed(f)
    <3>1. ~f.rsv /\ f.masked = expect_masked
      BY <1>9, <1>18
    <3>2. n = Size(f) /\ Size(f) \in Nat
      BY <1>4, <1>12, <1>18
    <3>3. Size(f) <= MAX_FRAME_SIZE
      BY <1>18, <3>2, SizeAssumption
    <3>4. f.op >= W!CLOSE => f.fin /\ Size(f) <= Small
      <4>1. f.op >= W!CLOSE => op >= 8
        BY <1>9 DEF W!CLOSE
      <4>2. op >= 8 => ~(first < 16) /\ ~(n > Small)
        BY <1>18
      <4>3. ~(n > Small) => Size(f) <= Small
        BY <3>2, SizeAssumption
      <4> QED BY <1>9, <1>13, <4>1, <4>2, <4>3
    <3> QED BY <3>1, <3>3, <3>4 DEF Allowed
  <2>7. Within(fs, W!Header(s), k, w)
    BY <1>2, <2>4, <2>5, <2>6 DEF Within, r
  <2> QED BY <1>2, <1>8, <1>18, <2>3, <2>7 DEF m
<1> QED BY <1>1, <1>8, <1>14, <1>15, <1>16, <1>18

-----------------------------------------------------------------------------
(***************************************************************************)
(* One frame more: what is delivered, answered and kept.                  *)
(***************************************************************************)
LEMMA BytesType ==
  ASSUME NEW fs \in Seq(W!Frame), NEW a \in 1..(Len(fs) + 1), NEW b \in (a - 1)..Len(fs)
  PROVE  BytesOf(fs, a, b) \in Seq(Int)
<1> DEFINE ps == Payloads(fs)
<1>1. ps \in Seq(Seq(Int)) /\ Len(ps) = Len(fs)
  BY Fragments
<1> HIDE DEF ps
<1>2. Joined(ps, a, b) \in Seq(Int)
  BY <1>1, JoinedType
<1> QED BY <1>2 DEF BytesOf, ps

LEMMA BytesSplit ==
  ASSUME NEW fs \in Seq(W!Frame), NEW a \in 1..(Len(fs) + 1), NEW b \in (a - 1)..Len(fs),
         NEW c \in b..Len(fs)
  PROVE  BytesOf(fs, a, c) = BytesOf(fs, a, b) \o BytesOf(fs, b + 1, c)
<1> DEFINE ps == Payloads(fs)
<1>1. ps \in Seq(Seq(Int)) /\ Len(ps) = Len(fs)
  BY Fragments
<1> HIDE DEF ps
<1>2. Joined(ps, a, c) = Joined(ps, a, b) \o Joined(ps, b + 1, c)
  BY <1>1, JoinedSplit
<1> QED BY <1>2 DEF BytesOf, ps

LEMMA BytesNone == ASSUME NEW fs, NEW a \in Int PROVE BytesOf(fs, a, a - 1) = <<>>
BY JoinedNone DEF BytesOf

(* One payload more.                                                      *)
LEMMA BytesStep ==
  ASSUME NEW fs \in Seq(W!Frame), NEW k \in 0..Len(fs), k < Len(fs), NEW a \in 1..(k + 1)
  PROVE  /\ fs[k + 1] \in W!Frame /\ k + 1 \in 0..Len(fs)
         /\ BytesOf(fs, a, k + 1) = IF DataOf(fs, k + 1) THEN BytesOf(fs, a, k) \o fs[k + 1].data
                                                         ELSE BytesOf(fs, a, k)
<1> DEFINE ps == Payloads(fs)
<1>1. ps \in Seq(Seq(Int)) /\ Len(ps) = Len(fs) /\ Len(fs) \in Nat
  BY Fragments
<1>2. /\ k + 1 \in 1..Len(fs) /\ k + 1 \in 0..Len(fs) /\ a \in 1..(Len(fs) + 1)
      /\ k \in (a - 1)..Len(fs) /\ k + 1 \in k..Len(fs)
  BY <1>1
<1>3. fs[k + 1] \in W!Frame
  BY <1>2, ElementOfSeq
<1>4. ps[k + 1] = IF DataOf(fs, k + 1) THEN fs[k + 1].data ELSE <<>>
  BY <1>2 DEF Payloads
<1> HIDE DEF ps
<1>5. Joined(ps, k + 1, k + 1) = ps[k + 1]
  BY <1>1, <1>2, JoinedOne
<1>6. BytesOf(fs, a, k + 1) = BytesOf(fs, a, k) \o ps[k + 1]
  BY <1>2, <1>5, BytesSplit DEF BytesOf, ps
<1>7. BytesOf(fs, a, k) \o <<>> = BytesOf(fs, a, k)
  BY <1>2, BytesType, ConcatEmptySeq
<1> QED BY <1>2, <1>3, <1>4, <1>6, <1>7

(* One answer more.                                                       *)
LEMMA AnswersStep ==
  ASSUME NEW fs \in Seq(W!Frame), NEW k \in 0..Len(fs), k < Len(fs)
  PROVE  Answers(fs, k + 1) = Answers(fs, k) \o Reply(fs, k + 1)
<1> DEFINE rs == Replies(fs)
<1>1. rs \in Seq(Seq(Answer)) /\ Len(rs) = Len(fs) /\ Len(fs) \in Nat
  BY Fragments
<1>2. k + 1 \in 1..Len(fs) /\ 1 \in 1..(Len(fs) + 1) /\ k \in (1 - 1)..Len(fs) /\ k + 1 \in k..Len(fs)
  BY <1>1
<1>3. rs[k + 1] = Reply(fs, k + 1)
  BY <1>2 DEF Replies
<1> HIDE DEF rs
<1>4. Joined(rs, k + 1, k + 1) = rs[k + 1]
  BY <1>1, <1>2, JoinedOne
<1>5. Joined(rs, 1, k + 1) = Joined(rs, 1, k) \o Joined(rs, k + 1, k + 1)
  <2>1. 1 \in 1..(Len(rs) + 1) /\ k \in (1 - 1)..Len(rs) /\ k + 1 \in k..Len(rs)
    BY <1>1, <1>2
  <2> QED BY <1>1, <2>1, JoinedSplit
<1> QED BY <1>3, <1>4, <1>5 DEF Answers, rs

LEMMA AnswersType ==
  ASSUME NEW fs \in Seq(W!Frame), NEW k \in 0..Len(fs)
  PROVE  Answers(fs, k) \in Seq(Answer)
<1> DEFINE rs == Replies(fs)
<1>1. rs \in Seq(Seq(Answer)) /\ Len(rs) = Len(fs) /\ Len(fs) \in Nat
  BY Fragments
<1>2. 1 \in 1..(Len(fs) + 1) /\ k \in (1 - 1)..Len(fs)
  BY <1>1
<1> HIDE DEF rs
<1>3. Joined(rs, 1, k) \in Seq(Answer)
  BY <1>1, <1>2, JoinedType
<1> QED BY <1>3 DEF Answers, rs

(* _fail() leaves what was delivered and answered alone.                  *)
LEMMA FailHeard ==
  ASSUME NEW fs, NEW k, NEW s \in State, Heard(fs, s, k)
  PROVE  /\ W!Fail(s) \in State /\ Heard(fs, W!Fail(s), k) /\ W!Fail(s).failed
         /\ W!Fail(s).buffer = s.buffer /\ W!Fail(s).frame = s.frame
<1>1. W!Fail(s) \in State
  BY DEF W!Fail, State
<1>2. /\ W!Fail(s).out = s.out /\ W!Fail(s).message = s.message /\ W!Fail(s).open = s.open
      /\ W!Fail(s).answers = s.answers
      /\ W!Fail(s).close_sent = s.close_sent /\ W!Fail(s).failed = TRUE /\ W!Fail(s).closed = TRUE
      /\ W!Fail(s).buffer = s.buffer /\ W!Fail(s).frame = s.frame
  BY DEF W!Fail, State
<1> QED BY <1>1, <1>2 DEF Heard

(* A frame that is not bad: what the frames so far say of Close and of    *)
(* the answers.                                                           *)
LEMMA OneMore ==
  ASSUME NEW fs \in Seq(W!Frame), NEW s \in State, NEW k \in 0..Len(fs), k < Len(fs),
         Heard(fs, s, k), ~BadOf(fs, k + 1)
  PROVE  /\ \A i \in 1..(k + 1) : ~BadOf(fs, i)
         /\ fs[k + 1].op # W!CLOSE =>
              /\ s.close_sent <=> \E i \in 1..(k + 1) : fs[i].op = W!CLOSE
              /\ fs[k + 1].op # W!PING => Answers(fs, k + 1) = s.answers
         /\ fs[k + 1].op = W!CLOSE => \E i \in 1..(k + 1) : fs[i].op = W!CLOSE
<1>1. \A i \in 1..(k + 1) : i \in 1..k \/ i = k + 1
  OBVIOUS
<1>2. k + 1 \in 1..(k + 1) /\ \A i \in 1..k : i \in 1..(k + 1)
  OBVIOUS
<1>3. \A i \in 1..(k + 1) : ~BadOf(fs, i)
  BY <1>1 DEF Heard
<1>4. fs[k + 1].op # W!CLOSE => (s.close_sent <=> \E i \in 1..(k + 1) : fs[i].op = W!CLOSE)
  BY <1>1, <1>2 DEF Heard
<1>5. fs[k + 1].op # W!CLOSE /\ fs[k + 1].op # W!PING => Answers(fs, k + 1) = s.answers
  <2>1. fs[k + 1].op # W!CLOSE /\ fs[k + 1].op # W!PING => Reply(fs, k + 1) = <<>>
    BY DEF Reply
  <2>2. Answers(fs, k) \o <<>> = Answers(fs, k)
    BY AnswersType, ConcatEmptySeq
  <2>3. Answers(fs, k + 1) = Answers(fs, k) \o Reply(fs, k + 1)
    BY AnswersStep
  <2> QED BY <2>1, <2>2, <2>3 DEF Heard
<1> QED BY <1>2, <1>3, <1>4, <1>5

(* _emit_message() joins the fragments, delivers at the last one, and     *)
(* fails if and only if the message is too long.                          *)
LEMMA EmitHeard ==
  ASSUME NEW fs \in Seq(W!Frame), NEW s \in State, NEW k \in 0..Len(fs), k < Len(fs), ~s.failed,
         Heard(fs, s, k),
         s.frame = HeaderOf(fs[k + 1]), Allowed(fs[k + 1]),
         fs[k + 1].op \in {W!CONT, 1, 2}, (fs[k + 1].op = W!CONT) <=> s.open
  PROVE  LET d == W!Emit(s, fs[k + 1].data)
         IN /\ d \in State /\ d.buffer = s.buffer /\ d.frame = s.frame
            /\ \/ d.failed /\ Heard(fs, d, k) /\ BadOf(fs, k + 1)
               \/ ~d.failed /\ Heard(fs, d, k + 1)
<1> DEFINE f   == fs[k + 1]
           l   == LastEnd(fs, k)
           all == s.message \o f.data
           d   == W!Emit(s, f.data)
<1>1. f \in W!Frame /\ f.data \in Seq(Int) /\ k + 1 \in 0..Len(fs) /\ k \in Nat /\ Len(fs) \in Nat
  <2>1. k + 1 \in 1..Len(fs)
    BY LenProperties
  <2>2. f \in W!Frame
    BY <2>1, ElementOfSeq
  <2>3. f.data \in Seq(Int)
    BY <2>2 DEF W!Frame
  <2> QED BY <2>1, <2>2, <2>3
<1>2. l \in 0..k /\ l + 1 \in 1..(k + 1) /\ k >= 0
  <2>1. l \in 0..k
    BY <1>1, LastStep
  <2> HIDE DEF l
  <2> QED BY <1>1, <2>1
<1>3. DataOf(fs, k + 1)
  BY DEF DataOf, W!CONT, W!CLOSE
<1>4. all = BytesOf(fs, l + 1, k + 1)
  BY <1>2, <1>3, BytesStep DEF Heard
<1>5. all \in Seq(Int) /\ s.message \in Seq(Int) /\ s.out \in Seq(Int)
  BY <1>1, ConcatProperties DEF State
<1>6. s.frame.fin = f.fin
  BY DEF HeaderOf
<1>7. BadOf(fs, k + 1) <=> Len(all) > MAX_MESSAGE_SIZE
  <2>1. (k + 1) - 1 = k
    BY <1>1
  <2>2. s.open = OpenOf(fs, k) /\ OpenOf(fs, k) \in BOOLEAN
    BY DEF Heard, State
  <2>3. f.op < W!CLOSE /\ ~(f.op >= W!CLOSE)
    BY <1>1, <1>3 DEF DataOf, W!Frame, W!CLOSE
  <2>4. (f.op = W!CONT) = OpenOf(fs, k)
    BY <2>2
  <2>5. BadOf(fs, k + 1) <=> DataOf(fs, k + 1) /\ ((f.op = W!CONT) # OpenOf(fs, (k + 1) - 1)
                              \/ Len(BytesOf(fs, LastEnd(fs, (k + 1) - 1) + 1, k + 1)) > MAX_MESSAGE_SIZE)
    <3>1. Size(f) \in Nat
      BY <1>1, FrameTypes
    <3>2. ~f.rsv /\ f.masked = expect_masked /\ ~(Size(f) > MAX_FRAME_SIZE)
      BY <3>1, SizeAssumption DEF Allowed
    <3> QED BY <2>3, <3>2 DEF BadOf
  <2> QED BY <1>3, <1>4, <2>1, <2>4, <2>5
<1>11. f.op # W!CLOSE /\ f.op # W!PING
  BY DEF W!CONT, W!CLOSE, W!PING
<1>8. CASE Len(all) > MAX_MESSAGE_SIZE
  <2>1. d = W!Fail(s)
    BY <1>8 DEF W!Emit
  <2> QED BY <1>7, <1>8, <2>1, FailHeard
<1>9. CASE ~(Len(all) > MAX_MESSAGE_SIZE) /\ f.fin
  <2>1. d = [s EXCEPT !.message = <<>>, !.open = FALSE, !.out = @ \o all]
    BY <1>6, <1>9 DEF W!Emit
  <2>2. d \in State /\ d.buffer = s.buffer /\ d.frame = s.frame /\ ~d.failed
    <3>1. s.out \o all \in Seq(Int)
      BY <1>5, ConcatProperties
    <3>2. <<>> \in Seq(Int)
      OBVIOUS
    <3> HIDE DEF all, f, d
    <3> QED BY <2>1, <3>1, <3>2 DEF State
  <2>3. LastEnd(fs, k + 1) = k + 1 /\ OpenOf(fs, k + 1) = FALSE
    BY <1>1, <1>3, <1>9, LastStep DEF EndsOf
  <2>4. d.out = BytesOf(fs, 1, k + 1)
    <3>1. BytesOf(fs, 1, k + 1) = BytesOf(fs, 1, l) \o BytesOf(fs, l + 1, k + 1)
      <4>1. 1 \in 1..(Len(fs) + 1) /\ l \in (1 - 1)..Len(fs) /\ k + 1 \in l..Len(fs)
        BY <1>1, <1>2
      <4> HIDE DEF l
      <4> QED BY <4>1, BytesSplit
    <3>2. s.out = BytesOf(fs, 1, l)
      BY DEF Heard
    <3>3. d.out = s.out \o all
      BY <2>1 DEF State
    <3> QED BY <1>4, <3>1, <3>2, <3>3, Zenon
  <2>5. d.message = BytesOf(fs, (k + 1) + 1, k + 1)
    <3>1. BytesOf(fs, (k + 1) + 1, ((k + 1) + 1) - 1) = <<>>
      <4>1. (k + 1) + 1 \in Int
        BY <1>1
      <4> QED BY <4>1, BytesNone
    <3>2. ((k + 1) + 1) - 1 = k + 1
      BY <1>1
    <3>3. d.message = <<>>
      BY <2>1 DEF State
    <3> QED BY <3>1, <3>2, <3>3
  <2>6. /\ d.open = FALSE /\ d.answers = s.answers /\ d.close_sent = s.close_sent
        /\ d.closed = s.closed /\ d.failed = s.failed
    BY <2>1 DEF State
  <2>7. /\ \A i \in 1..(k + 1) : ~BadOf(fs, i)
        /\ s.close_sent <=> \E i \in 1..(k + 1) : fs[i].op = W!CLOSE
        /\ Answers(fs, k + 1) = s.answers
    BY <1>7, <1>9, <1>11, OneMore
  <2>8. Heard(fs, d, k + 1)
    <3> HIDE DEF d
    <3>1. s.closed <=> s.failed \/ s.close_sent
      BY DEF Heard
    <3> QED BY <2>3, <2>4, <2>5, <2>6, <2>7, <3>1 DEF Heard
  <2> QED BY <2>2, <2>8
<1>10. CASE ~(Len(all) > MAX_MESSAGE_SIZE) /\ ~f.fin
  <2>1. d = [s EXCEPT !.message = all, !.open = TRUE]
    BY <1>6, <1>10 DEF W!Emit
  <2>2. d \in State /\ d.buffer = s.buffer /\ d.frame = s.frame /\ ~d.failed
    <3> HIDE DEF all, f, d
    <3> QED BY <1>5, <2>1 DEF State
  <2>3. LastEnd(fs, k + 1) = l /\ OpenOf(fs, k + 1) = TRUE
    BY <1>1, <1>3, <1>10, LastStep DEF EndsOf
  <2>6. /\ d.message = all /\ d.open = TRUE /\ d.out = s.out
        /\ d.answers = s.answers /\ d.close_sent = s.close_sent /\ d.closed = s.closed
        /\ d.failed = s.failed
    <3> HIDE DEF all, f, d
    <3> QED BY <2>1 DEF State
  <2>7. /\ \A i \in 1..(k + 1) : ~BadOf(fs, i)
        /\ s.close_sent <=> \E i \in 1..(k + 1) : fs[i].op = W!CLOSE
        /\ Answers(fs, k + 1) = s.answers
    BY <1>7, <1>10, <1>11, OneMore
  <2>8. Heard(fs, d, k + 1)
    <3> HIDE DEF d
    <3>1. (s.closed <=> s.failed \/ s.close_sent) /\ s.out = BytesOf(fs, 1, l)
      BY DEF Heard
    <3> QED BY <1>4, <2>3, <2>6, <2>7, <3>1 DEF Heard
  <2> QED BY <2>2, <2>8
<1> QED BY <1>8, <1>9, <1>10

(* Ping and Close: the answer.                                            *)
LEMMA ReplyHeard ==
  ASSUME NEW fs \in Seq(W!Frame), NEW s \in State, NEW k \in 0..Len(fs), k < Len(fs), ~s.failed,
         Heard(fs, s, k),
         ~BadOf(fs, k + 1), ~DataOf(fs, k + 1), NEW d \in State,
         d.out = s.out, d.message = s.message, d.open = s.open, d.failed = s.failed,
         d.answers = Answers(fs, k + 1),
         d.close_sent <=> s.close_sent \/ fs[k + 1].op = W!CLOSE,
         d.closed <=> s.closed \/ fs[k + 1].op = W!CLOSE
  PROVE  Heard(fs, d, k + 1)
<1>1. k \in Nat /\ Len(fs) \in Nat
  BY LenProperties
<1>2. LastEnd(fs, k + 1) = LastEnd(fs, k) /\ OpenOf(fs, k + 1) = OpenOf(fs, k)
  BY <1>1, LastStep DEF EndsOf
<1>3. BytesOf(fs, LastEnd(fs, k) + 1, k + 1) = BytesOf(fs, LastEnd(fs, k) + 1, k)
  <2>1. LastEnd(fs, k) \in 0..k
    BY <1>1, LastStep
  <2>2. LastEnd(fs, k) + 1 \in 1..(k + 1)
    BY <1>1, <2>1
  <2> QED BY <2>2, BytesStep
<1>4. /\ \A i \in 1..(k + 1) : ~BadOf(fs, i)
      /\ d.close_sent <=> \E i \in 1..(k + 1) : fs[i].op = W!CLOSE
  BY OneMore
<1>5. d.closed <=> d.failed \/ d.close_sent
  BY DEF Heard
<1>6. /\ s.out = BytesOf(fs, 1, LastEnd(fs, k)) /\ s.message = BytesOf(fs, LastEnd(fs, k) + 1, k)
      /\ s.open = OpenOf(fs, k)
  BY DEF Heard
<1> QED BY <1>2, <1>3, <1>4, <1>5, <1>6 DEF Heard

(* _handle_frame() for a frame that the header allowed: it fails if and   *)
(* only if the frame is bad, and says what the frame says.                *)
LEMMA HandleHeard ==
  ASSUME NEW fs \in Seq(W!Frame), NEW s \in State, NEW k \in 0..Len(fs), k < Len(fs), ~s.failed,
         Heard(fs, s, k),
         s.frame = HeaderOf(fs[k + 1]), Allowed(fs[k + 1])
  PROVE  LET d == W!Handle(s, fs[k + 1].data)
         IN /\ d \in State /\ d.buffer = s.buffer /\ d.frame = s.frame
            /\ \/ d.failed /\ Heard(fs, d, k) /\ BadOf(fs, k + 1)
               \/ ~d.failed /\ Heard(fs, d, k + 1)
<1> DEFINE f == fs[k + 1]
           d == W!Handle(s, f.data)
<1>1. f \in W!Frame /\ f.data \in Seq(Int) /\ f.op \in 0..15 /\ k \in Nat /\ (k + 1) - 1 = k
  <2>1. k + 1 \in 1..Len(fs) /\ k \in Nat /\ (k + 1) - 1 = k
    BY LenProperties
  <2>2. f \in W!Frame
    BY <2>1, ElementOfSeq
  <2>3. f.data \in Seq(Int) /\ f.op \in 0..15
    BY <2>2 DEF W!Frame
  <2> QED BY <2>1, <2>2, <2>3
<1>2. s.frame.op = f.op /\ s.open = OpenOf(fs, k) /\ s.open \in BOOLEAN /\ s.answers = Answers(fs, k)
  BY DEF HeaderOf, Heard, State
<1>3. CASE f.op \in {W!CONT, 1, 2} /\ (f.op = W!CONT <=> s.open)
  <2>1. d = W!Emit(s, f.data)
    BY <1>2, <1>3 DEF W!Handle, W!CONT, W!PING, W!PONG, W!CLOSE
  <2> DEFINE e == W!Emit(s, f.data)
  <2>2. /\ e \in State /\ e.buffer = s.buffer /\ e.frame = s.frame
        /\ \/ e.failed /\ Heard(fs, e, k) /\ BadOf(fs, k + 1)
           \/ ~e.failed /\ Heard(fs, e, k + 1)
    <3> HIDE DEF d
    <3> QED BY <1>3, EmitHeard
  <2> HIDE DEF e
  <2> QED BY <2>1, <2>2, Zenon DEF e
<1>4. CASE f.op \in {W!CONT, 1, 2} /\ ~(f.op = W!CONT <=> s.open)
  <2>1. d = W!Fail(s)
    BY <1>2, <1>4 DEF W!Handle, W!CONT, W!PING, W!PONG, W!CLOSE
  <2>2. BadOf(fs, k + 1)
    <3>1. DataOf(fs, k + 1)
      BY <1>4 DEF DataOf, W!CONT, W!CLOSE
    <3>2. (f.op = W!CONT) # OpenOf(fs, (k + 1) - 1)
      BY <1>1, <1>2, <1>4
    <3> QED BY <3>1, <3>2 DEF BadOf
  <2> QED BY <2>1, <2>2, FailHeard
<1>5. CASE f.op \notin {W!CONT, 1, 2, W!CLOSE, W!PING, W!PONG}
  <2>1. d = W!Fail(s)
    BY <1>2, <1>5 DEF W!Handle, W!CONT, W!PING, W!PONG, W!CLOSE
  <2>2. BadOf(fs, k + 1)
    BY <1>5 DEF BadOf
  <2> QED BY <2>1, <2>2, FailHeard
<1>6. f.op \in {W!CLOSE, W!PING, W!PONG} => ~BadOf(fs, k + 1) /\ ~DataOf(fs, k + 1)
  <2>1. Size(f) \in Nat
    BY <1>1, FrameTypes
  <2>2. f.op \in {W!CLOSE, W!PING, W!PONG} => ~DataOf(fs, k + 1) /\ f.op >= W!CLOSE
    BY DEF DataOf, W!CLOSE, W!PING, W!PONG
  <2> QED BY <2>1, <2>2, SizeAssumption DEF BadOf, Allowed
<1>7. Answers(fs, k + 1) = s.answers \o Reply(fs, k + 1) /\ s.answers \in Seq(Answer)
  BY <1>2, AnswersStep DEF State
<1>8. s.answers \o <<>> = s.answers
  BY <1>7, ConcatEmptySeq
<1>9. ASSUME NEW x \in Answer
      PROVE  Append(s.answers, x) = s.answers \o <<x>> /\ Append(s.answers, x) \in Seq(Answer)
  BY <1>7, AppendIsConcat, AppendProperties
<1>10. CASE f.op = W!PING
  <2> DEFINE x == [op |-> W!PONG, data |-> f.data]
  <2>1. x \in Answer
    BY <1>1 DEF Answer, W!PONG
  <2>2. d = [s EXCEPT !.answers = Append(@, x)]
    BY <1>2, <1>10 DEF W!Handle, W!CONT, W!PING, W!PONG, W!CLOSE
  <2>3. Reply(fs, k + 1) = <<x>>
    BY <1>10 DEF Reply, W!PING, W!CLOSE
  <2> HIDE DEF x, d, f
  <2>4. /\ d \in State /\ d.buffer = s.buffer /\ d.frame = s.frame /\ ~d.failed
        /\ d.out = s.out /\ d.message = s.message /\ d.open = s.open /\ d.failed = s.failed
        /\ d.close_sent = s.close_sent /\ d.closed = s.closed
    BY <1>9, <2>1, <2>2 DEF State
  <2>5. d.answers = Answers(fs, k + 1)
    BY <1>7, <1>9, <2>1, <2>2, <2>3 DEF State
  <2>6. f.op # W!CLOSE
    BY <1>10 DEF W!PING, W!CLOSE
  <2>7. Heard(fs, d, k + 1)
    BY <1>6, <1>10, <2>4, <2>5, <2>6, ReplyHeard DEF f
  <2> QED BY <2>4, <2>7 DEF d, f
<1>11. CASE f.op = W!PONG
  <2>1. d = s
    BY <1>2, <1>11 DEF W!Handle, W!CONT, W!PING, W!PONG, W!CLOSE
  <2>2. Reply(fs, k + 1) = <<>> /\ f.op # W!CLOSE
    BY <1>11 DEF Reply, W!PING, W!PONG, W!CLOSE
  <2>3. Heard(fs, s, k + 1)
    BY <1>6, <1>7, <1>8, <1>11, <2>2, ReplyHeard
  <2> QED BY <2>1, <2>3
<1>12. CASE f.op = W!CLOSE
  <2> DEFINE x == [op |-> W!CLOSE, data |-> f.data]
  <2>1. x \in Answer
    BY <1>1 DEF Answer, W!CLOSE
  <2>2. d = [s EXCEPT !.answers = IF s.close_sent THEN @ ELSE Append(@, x),
                      !.close_sent = TRUE, !.closed = TRUE]
    BY <1>2, <1>12 DEF W!Handle, W!HandleClose, W!CONT, W!PING, W!PONG, W!CLOSE
  <2>3. Reply(fs, k + 1) = IF s.close_sent THEN <<>> ELSE <<x>>
    <3>1. s.close_sent <=> \E j \in 1..((k + 1) - 1) : fs[j].op = W!CLOSE
      BY <1>1 DEF Heard
    <3>2. f.op # W!PING
      BY <1>12 DEF W!PING, W!CLOSE
    <3> QED BY <1>12, <3>1, <3>2 DEF Reply
  <2> HIDE DEF x, d, f
  <2>4. /\ d \in State /\ d.buffer = s.buffer /\ d.frame = s.frame /\ ~d.failed
        /\ d.out = s.out /\ d.message = s.message /\ d.open = s.open /\ d.failed = s.failed
        /\ d.close_sent = TRUE /\ d.closed = TRUE
    BY <1>9, <2>1, <2>2 DEF State
  <2>5. d.answers = Answers(fs, k + 1)
    BY <1>7, <1>8, <1>9, <2>1, <2>2, <2>3 DEF State
  <2>7. Heard(fs, d, k + 1)
    BY <1>6, <1>12, <2>4, <2>5, ReplyHeard DEF f
  <2> QED BY <2>4, <2>7 DEF d, f
<1> QED BY <1>3, <1>4, <1>5, <1>10, <1>11, <1>12, Zenon

-----------------------------------------------------------------------------
(***************************************************************************)
(* One round of the loop of feed_data().                                  *)
(***************************************************************************)
Measure(s) == 2 * Len(s.buffer) + (IF s.frame = W!None THEN 0 ELSE 1)
Quiet(s)   == W!Round(s) = s

(* The state of the adapter, read off the frames: k of them decoded.      *)
Good(fs, s, k, w) ==
  /\ Heard(fs, s, k)
  /\ s.failed => k < Len(fs) /\ BadOf(fs, k + 1)
  /\ ~s.failed => Layout(fs, s, k, w)

(* No header is the one that is not there.                                *)
LEMMA HdrNotNone == \A h \in Hdr : h # W!None
<1> SUFFICES ASSUME NEW h \in Hdr PROVE h # W!None
  OBVIOUS
<1>1. h.op \in 0..15 /\ W!None.op = -1
  BY DEF Hdr, W!None
<1> QED BY <1>1

LEMMA WithinNotNone ==
  ASSUME NEW fs \in Seq(W!Frame), NEW s, NEW k \in 0..Len(fs), NEW w, Within(fs, s, k, w)
  PROVE  s.frame # W!None
<1>1. fs[k + 1] \in W!Frame
  BY CodedIs DEF Within
<1>2. s.frame.op \in 0..15 /\ W!None.op = -1
  BY <1>1 DEF Within, HeaderOf, W!Frame, W!None
<1>3. s.frame = W!None => s.frame.op = W!None.op
  OBVIOUS
<1>4. s.frame.op # W!None.op
  <2>1. \A i \in 0..15 : i # -1
    OBVIOUS
  <2> QED BY <1>2, <2>1, Zenon
<1> QED BY <1>3, <1>4, Zenon

(* A payload: not there yet, or handled.                                  *)
LEMMA PayloadRound ==
  ASSUME NEW fs \in Seq(W!Frame), NEW s \in State, NEW k \in 0..Len(fs), NEW w \in Seq(Int),
         ~s.failed, Heard(fs, s, k), Within(fs, s, k, w)
  PROVE  \/ W!Payload(s) = s /\ w # <<>>
         \/ /\ W!Payload(s) \in State /\ Measure(W!Payload(s)) < Measure(s)
            /\ \E i \in 0..Len(fs) : Good(fs, W!Payload(s), i, w)
<1> DEFINE f == fs[k + 1]
           b == s.buffer
           r == Coded(fs, k + 2)
           n == s.frame.size
           p == IF s.frame.masked THEN W!xor_mask_bytes(SubSeq(b, 1, n)) ELSE SubSeq(b, 1, n)
           d == W!Handle(s, p)
<1>1. /\ k < Len(fs) /\ s.frame = HeaderOf(f) /\ Allowed(f) /\ b \o w = Body(f) \o r
      /\ f \in W!Frame /\ r \in Seq(Int) /\ b \in Seq(Int)
  BY CodedIs DEF Within, State
<1>2. /\ Body(f) \in Seq(Int) /\ Len(Body(f)) = n /\ n \in Nat /\ Len(b) \in Nat
      /\ s.frame.masked = f.masked
  <2>1. n = Size(f) /\ s.frame.masked = f.masked
    BY <1>1 DEF HeaderOf
  <2>2. Body(f) \in Seq(Int) /\ Len(Body(f)) = Size(f) /\ Size(f) \in Nat
    BY <1>1, FrameTypes
  <2>3. Len(b) \in Nat
    BY <1>1, LenProperties
  <2> QED BY <2>1, <2>2, <2>3
<1>3. CASE Len(b) < n
  <2>1. W!Payload(s) = s
    BY <1>3 DEF W!Payload
  <2>2. w # <<>>
    <3> HIDE DEF b, f, r, n
    <3>1. Len(Body(f) \o r) = n + Len(r) /\ Len(r) \in Nat
      BY <1>1, <1>2, ConcatProperties, LenProperties
    <3>2. w = <<>> => b \o w = b
      BY <1>1, ConcatEmptySeq
    <3> QED BY <1>1, <1>2, <1>3, <3>1, <3>2
  <2> QED BY <2>1, <2>2
<1>4. CASE ~(Len(b) < n)
  <2>1. /\ SubSeq(b, 1, n) = Body(f) /\ W!After(b, n) \in Seq(Int) /\ Len(W!After(b, n)) = Len(b) - n
        /\ W!After(b, n) \o w = r
    <3> HIDE DEF b, f, r, n
    <3>1. Len(b) >= Len(Body(f))
      BY <1>2, <1>4
    <3>2. /\ SubSeq(b, 1, Len(Body(f))) = Body(f)
          /\ W!After(b, Len(Body(f))) \in Seq(Int) /\ Len(W!After(b, Len(Body(f)))) = Len(b) - Len(Body(f))
          /\ W!After(b, Len(Body(f))) \o w = r
      BY <1>1, <1>2, <3>1, Shift
    <3> QED BY <1>2, <3>2
  <2>2. p = f.data
    <3> HIDE DEF b, f, n
    <3>1. p = IF f.masked THEN W!xor_mask_bytes(Body(f)) ELSE Body(f)
      BY <1>2, <2>1
    <3> QED BY <1>1, <3>1, Decoded
  <2>3. W!Payload(s) = [d EXCEPT !.buffer = W!After(@, n), !.frame = W!None]
    BY <1>4 DEF W!Payload
  <2> HIDE DEF p, n, b
  <2>4. /\ d \in State /\ d.buffer = b /\ d.frame = s.frame
        /\ \/ d.failed /\ Heard(fs, d, k) /\ BadOf(fs, k + 1)
           \/ ~d.failed /\ Heard(fs, d, k + 1)
    BY <1>1, <2>2, HandleHeard DEF b
  <2> HIDE DEF d
  <2>5. /\ W!Payload(s) \in State /\ W!Payload(s).buffer = W!After(b, n) /\ W!Payload(s).frame = W!None
        /\ W!Payload(s).failed = d.failed /\ W!Payload(s).out = d.out /\ W!Payload(s).message = d.message
        /\ W!Payload(s).open = d.open /\ W!Payload(s).answers = d.answers
        /\ W!Payload(s).close_sent = d.close_sent /\ W!Payload(s).closed = d.closed
    <3>1. W!None \in Hdr \union {W!None}
      OBVIOUS
    <3> QED BY <2>1, <2>3, <2>4, <3>1 DEF State
  <2>6. \A i : Heard(fs, d, i) => Heard(fs, W!Payload(s), i)
    BY <2>5 DEF Heard
  <2>7. Measure(W!Payload(s)) < Measure(s)
    <3>1. s.frame # W!None
      BY WithinNotNone
    <3> QED BY <1>2, <1>4, <2>1, <2>5, <3>1 DEF Measure, b
  <2>8. CASE d.failed
    <3>1. Good(fs, W!Payload(s), k, w)
      BY <1>1, <2>4, <2>5, <2>6, <2>8 DEF Good
    <3> QED BY <2>5, <2>7, <3>1
  <2>9. CASE ~d.failed
    <3>1. k + 1 \in 0..Len(fs) /\ (k + 1) + 1 = k + 2
      BY <1>1, LenProperties
    <3>2. Layout(fs, W!Payload(s), k + 1, w)
      BY <2>1, <2>5, <3>1 DEF Layout, Between
    <3>3. Good(fs, W!Payload(s), k + 1, w)
      BY <2>4, <2>5, <2>6, <2>9, <3>2 DEF Good
    <3> QED BY <2>5, <2>7, <3>1, <3>3
  <2> QED BY <2>8, <2>9
<1> QED BY <1>2, <1>3, <1>4

(* One round keeps what holds, and makes progress or changes nothing.     *)
LEMMA OneRound ==
  ASSUME NEW fs \in Seq(W!Frame), NEW s \in State, NEW k \in 0..Len(fs), NEW w \in Seq(Int),
         Good(fs, s, k, w)
  PROVE  /\ W!Round(s) \in State
         /\ \E i \in 0..Len(fs) : Good(fs, W!Round(s), i, w)
         /\ W!Round(s) = s \/ W!Round(s).failed \/ Measure(W!Round(s)) < Measure(s)
         /\ W!Round(s) = s /\ ~s.failed /\ w = <<>> => k = Len(fs)
<1>1. CASE s.failed
  BY <1>1 DEF W!Round
<1>2. CASE ~s.failed /\ s.frame # W!None
  <2>1. W!Round(s) = W!Payload(s)
    BY <1>2 DEF W!Round
  <2>2. Heard(fs, s, k) /\ Within(fs, s, k, w)
    BY <1>2 DEF Good, Layout, Between
  <2>3. \/ W!Payload(s) = s /\ w # <<>>
        \/ /\ W!Payload(s) \in State /\ Measure(W!Payload(s)) < Measure(s)
           /\ \E i \in 0..Len(fs) : Good(fs, W!Payload(s), i, w)
    BY <1>2, <2>2, PayloadRound
  <2>4. Measure(s) \in Int
    BY DEF Measure, State
  <2> QED BY <2>1, <2>3, <2>4
<1>3. CASE ~s.failed /\ s.frame = W!None /\ Len(s.buffer) < 2
  <2>1. W!Round(s) = s
    BY <1>3 DEF W!Round
  <2>2. k < Len(fs) => w # <<>>
    <3> SUFFICES ASSUME k < Len(fs), w = <<>> PROVE FALSE
      OBVIOUS
    <3> DEFINE f == fs[k + 1]
               r == Body(f) \o Coded(fs, k + 2)
    <3>1. s.buffer \o w = Coded(fs, k + 1)
      BY <1>3, WithinNotNone DEF Good, Layout, Between
    <3>2. f \in W!Frame /\ Coded(fs, k + 2) \in Seq(Int) /\ Coded(fs, k + 1) = Lead(f) \o r
      BY CodedIs
    <3>3. s.buffer \in Seq(Int) /\ s.buffer \o w = s.buffer
      BY ConcatEmptySeq DEF State
    <3>4. Lead(f) \in Seq(Int) /\ Body(f) \in Seq(Int) /\ Len(Lead(f)) >= 2
      <4> HIDE DEF f, r
      <4>1. Len(Lead(f)) = 2 + (IF Size(f) <= Small THEN 0 ELSE 1) + (IF f.masked THEN 1 ELSE 0)
        BY <3>2, LeadBytes
      <4>2. Lead(f) \in Seq(Int) /\ Body(f) \in Seq(Int)
        BY <3>2, FrameTypes
      <4> QED BY <4>1, <4>2
    <3>5. r \in Seq(Int)
      BY <3>2, <3>4, ConcatProperties
    <3> HIDE DEF f, r
    <3>6. Len(Lead(f) \o r) = Len(Lead(f)) + Len(r) /\ Len(r) \in Nat /\ Len(Lead(f)) \in Nat
      BY <3>4, <3>5, ConcatProperties, LenProperties
    <3> QED BY <1>3, <3>1, <3>2, <3>3, <3>4, <3>6
  <2>3. w = <<>> => k = Len(fs)
    BY <2>2, LenProperties
  <2> QED BY <2>1, <2>3
<1>4. CASE ~s.failed /\ s.frame = W!None /\ ~(Len(s.buffer) < 2)
  <2>1. W!Round(s) = W!Header(s)
    BY <1>4 DEF W!Round
  <2> DEFINE f == fs[k + 1]
             m == Len(Lead(f))
  <2>2. s.buffer \in Seq(Int) /\ Len(s.buffer) \in Nat /\ Len(s.buffer) >= 2
    <3>1. s.buffer \in Seq(Int)
      BY DEF State
    <3>2. Len(s.buffer) \in Nat
      BY <3>1, LenProperties
    <3> QED BY <1>4, <3>1, <3>2
  <2>3. Heard(fs, s, k) /\ Between(fs, s, k, w)
    <3>1. ~Within(fs, s, k, w)
      BY <1>4, WithinNotNone
    <3> QED BY <1>4, <3>1 DEF Good, Layout
  <2>4. /\ k < Len(fs)
        /\ \/ W!Header(s) = s /\ w # <<>>
           \/ W!Header(s) = W!Fail(s) /\ BadOf(fs, k + 1)
           \/ /\ W!Header(s) = [s EXCEPT !.frame = HeaderOf(f), !.buffer = W!After(s.buffer, m)]
              /\ m >= 2 /\ Len(s.buffer) >= m
              /\ Within(fs, W!Header(s), k, w)
    <3> HIDE DEF m
    <3> QED BY <2>2, <2>3, HeaderRound DEF m
  <2>5. CASE W!Header(s) = s /\ w # <<>>
    BY <2>1, <2>5
  <2>6. CASE W!Header(s) = W!Fail(s) /\ BadOf(fs, k + 1)
    <3>1. Good(fs, W!Fail(s), k, w)
      BY <2>3, <2>4, <2>6, FailHeard DEF Good
    <3>2. W!Fail(s) \in State /\ W!Fail(s).failed
      BY <2>3, FailHeard
    <3>3. W!Round(s) = W!Fail(s) /\ W!Fail(s) # s
      BY <1>4, <2>1, <2>6, <3>2
    <3> QED BY <3>1, <3>2, <3>3
  <2>7. CASE /\ W!Header(s) = [s EXCEPT !.frame = HeaderOf(f), !.buffer = W!After(s.buffer, m)]
             /\ m >= 2 /\ Len(s.buffer) >= m
             /\ Within(fs, W!Header(s), k, w)
    <3> DEFINE c == W!After(s.buffer, m)
               h == HeaderOf(f)
    <3>1. h \in Hdr /\ m \in Nat
      <4>1. f \in W!Frame
        BY <2>4, CodedIs
      <4> HIDE DEF f
      <4>2. Size(f) \in Nat /\ m \in Nat
        BY <4>1, FrameTypes, LenProperties
      <4> QED BY <4>1, <4>2 DEF HeaderOf, Hdr, W!Frame
    <3>2. c \in Seq(Int) /\ Len(c) = Len(s.buffer) - m
      <4> HIDE DEF m
      <4>1. m \in 0..Len(s.buffer)
        BY <2>2, <2>7, <3>1
      <4> QED BY <2>2, <4>1, AfterIs
    <3> HIDE DEF c, h, m
    <3>3. /\ W!Header(s) \in State /\ W!Header(s).buffer = c /\ W!Header(s).frame = h
          /\ W!Header(s).failed = s.failed /\ W!Header(s).out = s.out /\ W!Header(s).message = s.message
          /\ W!Header(s).open = s.open /\ W!Header(s).answers = s.answers
          /\ W!Header(s).close_sent = s.close_sent /\ W!Header(s).closed = s.closed
      BY <2>7, <3>1, <3>2 DEF c, h, State
    <3>4. Good(fs, W!Header(s), k, w)
      <4>1. Heard(fs, W!Header(s), k)
        BY <2>3, <3>3 DEF Heard
      <4> QED BY <1>4, <2>7, <3>3, <4>1 DEF Good, Layout
    <3>5. Measure(W!Header(s)) < Measure(s)
      <4>1. h # W!None
        BY <3>1, HdrNotNone
      <4> QED BY <1>4, <2>2, <2>7, <3>1, <3>2, <3>3, <4>1 DEF Measure
    <3>6. W!Header(s) # s
      <4>1. Measure(s) \in Int
        BY <2>2 DEF Measure
      <4> QED BY <3>5, <4>1
    <3> QED BY <2>1, <3>3, <3>4, <3>5, <3>6
  <2> QED BY <2>4, <2>5, <2>6, <2>7
<1> QED BY <1>1, <1>2, <1>3, <1>4

-----------------------------------------------------------------------------
(***************************************************************************)
(* The loop: as many rounds as it may take.                               *)
(***************************************************************************)
(* The function that feed_data() defines by its own values.               *)
IsRun(g, x, n) == g = [i \in 0..n |-> IF i = 0 THEN x ELSE W!Round(g[i - 1])]

(* The function has a value for every number of rounds.                   *)
LEMMA RunExists ==
  ASSUME NEW x, NEW n \in Nat
  PROVE  \E g : IsRun(g, x, n)
<1> DEFINE T == {m \in Nat : \E g : IsRun(g, x, m)}
<1>1. 0 \in T
  <2> DEFINE g == [i \in 0..0 |-> x]
  <2>1. g = [i \in 0..0 |-> IF i = 0 THEN x ELSE W!Round(g[i - 1])]
    <3>1. \A i \in 0..0 : i = 0
      OBVIOUS
    <3> QED BY <3>1
  <2> HIDE DEF g
  <2> QED BY <2>1 DEF IsRun
<1>2. ASSUME NEW m \in T PROVE m + 1 \in T
  <2>1. m \in Nat /\ m + 1 \in Nat
    OBVIOUS
  <2>2. PICK g : IsRun(g, x, m)
    BY Zenon
  <2> DEFINE h == [i \in 0..(m + 1) |-> IF i <= m THEN g[i] ELSE W!Round(g[m])]
  <2>3. \A i \in 0..m : g[i] = IF i = 0 THEN x ELSE W!Round(g[i - 1])
    BY <2>2 DEF IsRun
  <2>4. ASSUME NEW i \in 0..(m + 1) PROVE h[i] = IF i = 0 THEN x ELSE W!Round(h[i - 1])
    <3>1. CASE i \in 0..m
      <4>1. i # 0 => i - 1 \in 0..m /\ i - 1 <= m /\ i - 1 \in 0..(m + 1)
        BY <2>1, <3>1
      <4>2. h[i] = g[i] /\ (i # 0 => h[i - 1] = g[i - 1])
        BY <2>1, <3>1, <4>1
      <4> HIDE DEF h
      <4> QED BY <2>3, <3>1, <4>2
    <3>2. CASE i = m + 1
      <4>1. i # 0 /\ i - 1 = m /\ m \in 0..(m + 1) /\ ~(i <= m)
        BY <2>1, <3>2
      <4>2. h[i] = W!Round(g[m]) /\ h[m] = g[m]
        BY <2>1, <4>1
      <4> HIDE DEF h
      <4> QED BY <4>1, <4>2
    <3> QED BY <2>1, <3>1, <3>2
  <2>5. h = [i \in 0..(m + 1) |-> h[i]]
    OBVIOUS
  <2> HIDE DEF h
  <2>6. IsRun(h, x, m + 1)
    BY <2>4, <2>5 DEF IsRun
  <2> QED BY <2>1, <2>6
<1> HIDE DEF T
<1>3. T = Nat
  <2>1. T \subseteq Nat
    BY DEF T
  <2> QED BY <1>1, <1>2, <2>1, Induction
<1> QED BY <1>3 DEF T

(* The whole loop: it ends where another round would change nothing.      *)
LEMMA WholeLoop ==
  ASSUME NEW fs \in Seq(W!Frame), NEW x \in State, NEW w \in Seq(Int),
         \E k \in 0..Len(fs) : Good(fs, x, k, w),
         NEW run, IsRun(run, x, 2 * Len(x.buffer) + 1)
  PROVE  LET y == run[2 * Len(x.buffer) + 1]
         IN y \in State /\ Quiet(y) /\ \E k \in 0..Len(fs) : Good(fs, y, k, w)
<1> DEFINE n == 2 * Len(x.buffer) + 1
           T == {m \in Nat : m <= n => /\ run[m] \in State /\ \E k \in 0..Len(fs) : Good(fs, run[m], k, w)
                                       /\ Quiet(run[m]) \/ Measure(run[m]) <= n - m}
<1>1. n \in Nat /\ Measure(x) <= n
  <2>1. x.buffer \in Seq(Int)
    BY DEF State
  <2>2. Len(x.buffer) \in Nat
    BY <2>1, LenProperties
  <2> QED BY <2>2 DEF Measure
<1>2. \A i \in 0..n : run[i] = IF i = 0 THEN x ELSE W!Round(run[i - 1])
  BY DEF IsRun
<1> HIDE DEF n
<1>3. 0 \in T
  <2>1. run[0] = x /\ n - 0 = n
    BY <1>1, <1>2
  <2> QED BY <1>1, <2>1
<1>4. ASSUME NEW m \in T PROVE m + 1 \in T
  <2>1. m \in Nat /\ m + 1 \in Nat
    OBVIOUS
  <2> DEFINE y == run[m]
             z == run[m + 1]
  <2> SUFFICES ASSUME m + 1 <= n
               PROVE  /\ z \in State /\ \E k \in 0..Len(fs) : Good(fs, z, k, w)
                      /\ Quiet(z) \/ Measure(z) <= n - (m + 1)
    BY <2>1
  <2>2. m <= n
    BY <1>1, <2>1
  <2>3. y \in State /\ (\E k \in 0..Len(fs) : Good(fs, y, k, w)) /\ (Quiet(y) \/ Measure(y) <= n - m)
    BY <2>2
  <2>4. z = W!Round(y)
    <3>1. m + 1 \in 0..n /\ m + 1 # 0 /\ (m + 1) - 1 = m
      BY <1>1, <2>1
    <3> QED BY <1>2, <3>1
  <2> HIDE DEF T, y, z
  <2>5. /\ z \in State /\ \E k \in 0..Len(fs) : Good(fs, z, k, w)
        /\ z = y \/ z.failed \/ Measure(z) < Measure(y)
    BY <2>3, <2>4, OneRound
  <2>6. Measure(y) \in Int /\ Measure(z) \in Int
    <3>1. y.buffer \in Seq(Int) /\ z.buffer \in Seq(Int)
      BY <2>3, <2>5 DEF State
    <3>2. Len(y.buffer) \in Nat /\ Len(z.buffer) \in Nat
      BY <3>1, LenProperties
    <3> QED BY <3>2 DEF Measure
  <2>7. z.failed => Quiet(z)
    BY DEF Quiet, W!Round
  <2>8. Quiet(y) => Quiet(z)
    BY <2>4 DEF Quiet
  <2>9. z = y => Quiet(z)
    BY <2>4 DEF Quiet
  <2>10. Measure(z) < Measure(y) /\ Measure(y) <= n - m => Measure(z) <= n - (m + 1)
    BY <1>1, <2>1, <2>6
  <2> QED BY <2>3, <2>5, <2>7, <2>8, <2>9, <2>10
<1> HIDE DEF T
<1>5. T = Nat
  <2>1. T \subseteq Nat
    BY DEF T
  <2> QED BY <1>3, <1>4, <2>1, Induction
<1> DEFINE y == run[n]
<1>6. /\ y \in State /\ \E k \in 0..Len(fs) : Good(fs, y, k, w)
      /\ Quiet(y) \/ Measure(y) <= n - n
  <2>1. n \in T /\ n <= n
    BY <1>1, <1>5
  <2> QED BY <2>1 DEF T
<1> HIDE DEF y
<1>7. Measure(y) <= n - n => Quiet(y)
  <2>1. y.buffer \in Seq(Int)
    BY <1>6 DEF State
  <2>2. Len(y.buffer) \in Nat
    BY <2>1, LenProperties
  <2>3. Measure(y) <= n - n => y.frame = W!None /\ Len(y.buffer) < 2
    <3> DEFINE l == Len(y.buffer)
    <3>1. Measure(y) = 2 * l + (IF y.frame = W!None THEN 0 ELSE 1) /\ n - n = 0
      BY <1>1 DEF Measure
    <3>2. l \in Nat
      BY <2>2
    <3> HIDE DEF l
    <3>3. 2 * l + (IF y.frame = W!None THEN 0 ELSE 1) <= 0 => y.frame = W!None /\ l < 2
      BY <3>2
    <3> QED BY <3>1, <3>3 DEF l
  <2> QED BY <2>3 DEF Quiet, W!Round
<1> QED BY <1>6, <1>7 DEF y, n

(* feed_data() keeps what holds, and stops where it can do no more.       *)
LEMMA Fed ==
  ASSUME NEW fs \in Seq(W!Frame), NEW s \in State, NEW d \in Seq(Int), NEW w \in Seq(Int), ~s.closed,
         NEW k \in 0..Len(fs), Good(fs, s, k, d \o w)
  PROVE  LET t == W!feed_data(s, d)
         IN t \in State /\ Quiet(t) /\ \E i \in 0..Len(fs) : Good(fs, t, i, w)
<1> DEFINE full == [s EXCEPT !.buffer = @ \o d]
           n == 2 * Len(full.buffer) + 1
           run == CHOOSE g : IsRun(g, full, n)
<1>1. full \in State /\ full.buffer = s.buffer \o d
  <2>1. s.buffer \o d \in Seq(Int)
    BY ConcatProperties DEF State
  <2> QED BY <2>1 DEF State
<1>2. Good(fs, full, k, w)
  <2>1. /\ full.failed = s.failed /\ full.out = s.out /\ full.message = s.message /\ full.open = s.open
        /\ full.answers = s.answers /\ full.close_sent = s.close_sent /\ full.closed = s.closed
        /\ full.frame = s.frame
    BY DEF State
  <2>2. full.buffer \o w = s.buffer \o (d \o w)
    <3>1. s.buffer \in Seq(Int)
      BY DEF State
    <3>2. (s.buffer \o d) \o w = s.buffer \o (d \o w)
      BY <3>1, Regroup
    <3> QED BY <1>1, <3>2, Zenon
  <2> HIDE DEF full
  <2>3. Heard(fs, full, k)
    BY <2>1 DEF Good, Heard
  <2>4. ~s.failed => Layout(fs, full, k, w)
    BY <2>1, <2>2 DEF Good, Layout, Between, Within
  <2> QED BY <2>1, <2>3, <2>4 DEF Good
<1>3. W!feed_data(s, d) = run[n]
  BY DEF W!feed_data, IsRun
<1> HIDE DEF full
<1>4. n \in Nat
  <2>1. full.buffer \in Seq(Int)
    BY <1>1 DEF State
  <2>2. Len(full.buffer) \in Nat
    BY <2>1, LenProperties
  <2> QED BY <2>2
<1>5. IsRun(run, full, n)
  <2> HIDE DEF n
  <2>1. \E g : IsRun(g, full, n)
    BY <1>4, RunExists
  <2> QED BY <2>1, Zenon
<1> HIDE DEF run
<1> QED BY <1>1, <1>2, <1>3, <1>5, WholeLoop

-----------------------------------------------------------------------------
(***************************************************************************)
(* The peer sends a frame more, behind what is not yet decoded.           *)
(***************************************************************************)
(* One frame more changes nothing of what the first ones say.             *)
LEMMA SameBefore ==
  ASSUME NEW fs \in Seq(W!Frame), NEW f \in W!Frame
  PROVE  LET gs == Append(fs, f)
         IN /\ gs \in Seq(W!Frame) /\ Len(gs) = Len(fs) + 1 /\ Len(fs) \in Nat
            /\ \A i \in 1..Len(fs) : gs[i] = fs[i]
            /\ \A k \in 0..Len(fs) : LastEnd(gs, k) = LastEnd(fs, k) /\ OpenOf(gs, k) = OpenOf(fs, k)
            /\ \A a \in 1..(Len(fs) + 1) : \A b \in (a - 1)..Len(fs) : BytesOf(gs, a, b) = BytesOf(fs, a, b)
            /\ \A k \in 0..Len(fs) : Answers(gs, k) = Answers(fs, k)
            /\ \A a \in 1..(Len(fs) + 1) : Coded(gs, a) = Coded(fs, a) \o W!write_frame(f)
<1> DEFINE gs == Append(fs, f)
           n  == Len(fs)
<1>1. gs \in Seq(W!Frame) /\ Len(gs) = n + 1 /\ gs[n + 1] = f /\ \A i \in 1..n : gs[i] = fs[i]
  BY AppendProperties
<1>2. n \in Nat
  BY LenProperties
<1> HIDE DEF gs, n
<1>3. ASSUME NEW k \in 0..n PROVE LastEnd(gs, k) = LastEnd(fs, k) /\ OpenOf(gs, k) = OpenOf(fs, k)
  <2>1. \A j \in 1..k : gs[j] = fs[j]
    BY <1>1, <1>2
  <2>2. LastEnd(gs, k) = LastEnd(fs, k) /\ LastData(gs, k) = LastData(fs, k)
    <3>1. {j \in 1..k : EndsOf(gs, j)} = {j \in 1..k : EndsOf(fs, j)}
      BY <2>1 DEF EndsOf, DataOf
    <3>2. {j \in 1..k : DataOf(gs, j)} = {j \in 1..k : DataOf(fs, j)}
      BY <2>1 DEF DataOf
    <3> QED BY <3>1, <3>2 DEF LastEnd, LastData
  <2>3. LastData(fs, k) \in 0..k
    BY LastStep
  <2>4. LastData(fs, k) > 0 => gs[LastData(fs, k)] = fs[LastData(fs, k)]
    BY <2>1, <2>3
  <2> QED BY <2>2, <2>4 DEF OpenOf
<1>4. ASSUME NEW a \in 1..(n + 1), NEW b \in (a - 1)..n PROVE BytesOf(gs, a, b) = BytesOf(fs, a, b)
  <2> DEFINE ps == Payloads(fs)
             qs == Payloads(gs)
  <2>1. ps \in Seq(Seq(Int)) /\ Len(ps) = n /\ qs \in Seq(Seq(Int)) /\ Len(qs) = n + 1
    BY <1>1, Fragments DEF n
  <2>2. \A i \in a..b : ps[i] = qs[i]
    <3>1. \A i \in a..b : i \in 1..n /\ i \in 1..(n + 1)
      BY <1>2
    <3> QED BY <1>1, <3>1 DEF Payloads, DataOf, n
  <2> HIDE DEF ps, qs
  <2>3. a \in 1..(Len(ps) + 1) /\ b \in (a - 1)..Len(ps) /\ b <= Len(qs) /\ a <= Len(qs) + 1
    BY <1>2, <2>1
  <2>4. Joined(ps, a, b) = Joined(qs, a, b)
    BY <2>1, <2>2, <2>3, JoinedSame
  <2> QED BY <2>4 DEF BytesOf, ps, qs
<1>5. ASSUME NEW k \in 0..n PROVE Answers(gs, k) = Answers(fs, k)
  <2> DEFINE ps == Replies(fs)
             qs == Replies(gs)
  <2>1. ps \in Seq(Seq(Answer)) /\ Len(ps) = n /\ qs \in Seq(Seq(Answer)) /\ Len(qs) = n + 1
    BY <1>1, Fragments DEF n
  <2>2. \A i \in 1..k : ps[i] = qs[i]
    <3> SUFFICES ASSUME NEW i \in 1..k PROVE ps[i] = qs[i]
      OBVIOUS
    <3>1. i \in 1..n /\ i \in 1..(n + 1) /\ \A j \in 1..(i - 1) : j \in 1..n
      BY <1>2
    <3>2. gs[i] = fs[i] /\ \A j \in 1..(i - 1) : gs[j] = fs[j]
      BY <1>1, <3>1
    <3>3. Reply(gs, i) = Reply(fs, i)
      BY <3>2 DEF Reply
    <3> QED BY <1>1, <3>1, <3>3 DEF Replies, n
  <2> HIDE DEF ps, qs
  <2>3. 1 \in 1..(Len(ps) + 1) /\ k \in (1 - 1)..Len(ps) /\ k <= Len(qs) /\ 1 <= Len(qs) + 1
    BY <1>2, <2>1
  <2>4. Joined(ps, 1, k) = Joined(qs, 1, k)
    BY <2>1, <2>2, <2>3, JoinedSame
  <2> QED BY <2>4 DEF Answers, ps, qs
<1>6. ASSUME NEW a \in 1..(n + 1) PROVE Coded(gs, a) = Coded(fs, a) \o W!write_frame(f)
  <2> DEFINE ps == Codes(fs)
             qs == Codes(gs)
  <2>1. ps \in Seq(Seq(Int)) /\ Len(ps) = n /\ qs \in Seq(Seq(Int)) /\ Len(qs) = n + 1
    BY <1>1, Fragments DEF n
  <2>2. (\A i \in a..n : ps[i] = qs[i]) /\ qs[n + 1] = W!write_frame(f)
    <3>1. (\A i \in a..n : i \in 1..n /\ i \in 1..(n + 1)) /\ n + 1 \in 1..(n + 1)
      BY <1>2
    <3> QED BY <1>1, <3>1 DEF Codes, n
  <2>3. Coded(fs, a) = Joined(ps, a, n) /\ Coded(gs, a) = Joined(qs, a, n + 1)
    BY <1>1 DEF Coded, n
  <2> HIDE DEF ps, qs
  <2>4. /\ a \in 1..(Len(ps) + 1) /\ n \in (a - 1)..Len(ps) /\ n <= Len(qs) /\ a <= Len(qs) + 1
        /\ a \in 1..(Len(qs) + 1) /\ n \in (a - 1)..Len(qs) /\ n + 1 \in n..Len(qs)
        /\ n + 1 \in 1..Len(qs)
    BY <1>2, <2>1
  <2>5. Joined(ps, a, n) = Joined(qs, a, n)
    BY <2>1, <2>2, <2>4, JoinedSame
  <2>6. Joined(qs, a, n + 1) = Joined(qs, a, n) \o Joined(qs, n + 1, n + 1)
    BY <2>1, <2>4, JoinedSplit
  <2>7. Joined(qs, n + 1, n + 1) = qs[n + 1]
    BY <2>1, <2>4, JoinedOne
  <2> QED BY <2>2, <2>3, <2>5, <2>6, <2>7
<1> QED BY <1>1, <1>2, <1>3, <1>4, <1>5, <1>6 DEF gs, n

(* So what holds of the adapter goes on to hold.                          *)
LEMMA HeardBefore ==
  ASSUME NEW fs \in Seq(W!Frame), NEW f \in W!Frame, NEW s \in State, NEW k \in 0..Len(fs),
         NEW w \in Seq(Int)
  PROVE  LET gs == Append(fs, f)
         IN /\ \A i \in 1..Len(fs) : BadOf(gs, i) <=> BadOf(fs, i)
            /\ Heard(fs, s, k) => Heard(gs, s, k)
            /\ Layout(fs, s, k, w) => Layout(gs, s, k, w \o W!write_frame(f))
<1> DEFINE gs == Append(fs, f)
           n  == Len(fs)
           v  == W!write_frame(f)
<1>1. /\ gs \in Seq(W!Frame) /\ Len(gs) = n + 1 /\ n \in Nat
      /\ \A i \in 1..n : gs[i] = fs[i]
      /\ \A i \in 0..n : LastEnd(gs, i) = LastEnd(fs, i) /\ OpenOf(gs, i) = OpenOf(fs, i)
      /\ \A a \in 1..(n + 1) : \A b \in (a - 1)..n : BytesOf(gs, a, b) = BytesOf(fs, a, b)
      /\ \A i \in 0..n : Answers(gs, i) = Answers(fs, i)
      /\ \A a \in 1..(n + 1) : Coded(gs, a) = Coded(fs, a) \o v
  BY SameBefore
<1>2. v \in Seq(Int)
  BY Written, FrameTypes, ConcatProperties
<1> HIDE DEF gs, n, v
<1>3. ASSUME NEW i \in 1..n PROVE BadOf(gs, i) <=> BadOf(fs, i)
  <2> DEFINE l == LastEnd(fs, i - 1)
  <2>1. i - 1 \in Nat /\ i - 1 \in 0..n
    BY <1>1
  <2>2. l \in 0..(i - 1)
    BY <2>1, LastStep
  <2>3. l + 1 \in 1..(n + 1) /\ i \in ((l + 1) - 1)..n
    <3> HIDE DEF l
    <3> QED BY <1>1, <2>2
  <2>4. gs[i] = fs[i] /\ LastEnd(gs, i - 1) = l /\ OpenOf(gs, i - 1) = OpenOf(fs, i - 1)
    BY <1>1, <2>1
  <2>5. BytesOf(gs, l + 1, i) = BytesOf(fs, l + 1, i)
    BY <1>1, <2>3
  <2> QED BY <2>4, <2>5 DEF BadOf, DataOf
<1>4. ASSUME Heard(fs, s, k) PROVE Heard(gs, s, k)
  <2> DEFINE l == LastEnd(fs, k)
  <2>0. k \in 0..n /\ k \in Nat
    BY <1>1 DEF n
  <2>1. l \in 0..k
    BY <2>0, LastStep
  <2>2. 1 \in 1..(n + 1) /\ l \in (1 - 1)..n /\ l + 1 \in 1..(n + 1) /\ k \in ((l + 1) - 1)..n
    <3> HIDE DEF l
    <3> QED BY <1>1, <2>0, <2>1
  <2>3. LastEnd(gs, k) = l /\ OpenOf(gs, k) = OpenOf(fs, k) /\ Answers(gs, k) = Answers(fs, k)
    BY <1>1, <2>0
  <2>4. BytesOf(gs, 1, l) = BytesOf(fs, 1, l) /\ BytesOf(gs, l + 1, k) = BytesOf(fs, l + 1, k)
    <3> HIDE DEF l
    <3> QED BY <1>1, <2>2
  <2>5. \A i \in 1..k : i \in 1..n
    BY <1>1, <2>0
  <2>6. \A i \in 1..k : ~BadOf(gs, i)
    BY <1>3, <1>4, <2>5 DEF Heard
  <2>7. (\E i \in 1..k : gs[i].op = W!CLOSE) <=> \E i \in 1..k : fs[i].op = W!CLOSE
    BY <1>1, <2>5
  <2> QED BY <1>4, <2>3, <2>4, <2>6, <2>7 DEF Heard
<1>5. ASSUME Layout(fs, s, k, w) PROVE Layout(gs, s, k, w \o v)
  <2>1. s.buffer \in Seq(Int) /\ s.buffer \o (w \o v) = (s.buffer \o w) \o v
    <3>1. s.buffer \in Seq(Int)
      BY DEF State
    <3> QED BY <1>2, <3>1, Regroup
  <2>2. CASE Between(fs, s, k, w)
    <3>1. k + 1 \in 1..(n + 1)
      BY <1>1 DEF n
    <3>2. Coded(gs, k + 1) = Coded(fs, k + 1) \o v
      BY <1>1, <3>1
    <3> QED BY <2>1, <2>2, <3>2 DEF Layout, Between
  <2>3. CASE Within(fs, s, k, w)
    <3>1. k < n /\ k + 1 \in 1..n /\ k + 2 \in 1..(n + 1) /\ k < n + 1
      BY <1>1, <2>3 DEF n, Within
    <3>2. gs[k + 1] = fs[k + 1] /\ Coded(gs, k + 2) = Coded(fs, k + 2) \o v
      BY <1>1, <3>1
    <3>3. Body(fs[k + 1]) \in Seq(Int) /\ Coded(fs, k + 2) \in Seq(Int)
      BY <3>1, CodedIs, FrameTypes DEF n
    <3>4. (Body(fs[k + 1]) \o Coded(fs, k + 2)) \o v = Body(fs[k + 1]) \o (Coded(fs, k + 2) \o v)
      BY <1>2, <3>3, Regroup
    <3>5. /\ s.buffer \o w = Body(fs[k + 1]) \o Coded(fs, k + 2) /\ s.frame = HeaderOf(fs[k + 1])
          /\ Allowed(fs[k + 1])
      BY <2>3 DEF Within
    <3>6. s.buffer \o (w \o v) = Body(gs[k + 1]) \o Coded(gs, k + 2)
      BY <2>1, <3>2, <3>4, <3>5
    <3> QED BY <1>1, <3>1, <3>2, <3>5, <3>6 DEF Layout, Within
  <2> QED BY <1>5, <2>2, <2>3 DEF Layout
<1> QED BY <1>3, <1>4, <1>5 DEF gs, n, v

-----------------------------------------------------------------------------
(***************************************************************************)
(* The invariant of the specification and its proof.                      *)
(***************************************************************************)
Told(k) ==
  /\ Heard(frames, ws, k)
  /\ ws.failed => k < Len(frames) /\ BadOf(frames, k + 1)
  /\ ~ws.closed => Layout(frames, ws, k, piece)

WsTypeOK == frames \in Seq(W!Frame) /\ piece \in Seq(Int) /\ attached \in BOOLEAN /\ ws \in State
(* The first k frames are told; the adapter, where it is installed and    *)
(* open, has gone as far as its buffer goes; before, it is not closed.    *)
WsInv ==
  /\ WsTypeOK
  /\ \E k \in 0..Len(frames) : Told(k)
  /\ attached /\ ~ws.closed => Quiet(ws)
  /\ ~attached => ~ws.closed

(* Of no frames there is nothing to say.                                  *)
LEMMA NothingYet ==
  ASSUME NEW fs, fs = <<>>
  PROVE  /\ fs \in Seq(W!Frame) /\ LastEnd(fs, 0) = 0 /\ OpenOf(fs, 0) = FALSE
         /\ BytesOf(fs, 1, 0) = <<>> /\ Answers(fs, 0) = <<>>
         /\ Coded(fs, 1) = <<>>
<1>1. fs \in Seq(W!Frame) /\ Len(fs) = 0
  OBVIOUS
<1>2. LastEnd(fs, 0) = 0 /\ LastData(fs, 0) = 0
  <2>1. \A j \in 1..0 : FALSE
    OBVIOUS
  <2> QED BY <2>1 DEF LastEnd, LastData, W!Latest
<1>3. OpenOf(fs, 0) = FALSE
  BY <1>2 DEF OpenOf
<1>4. BytesOf(fs, 1, 0) = <<>> /\ Answers(fs, 0) = <<>> /\ Coded(fs, 1) = <<>>
  <2>1. 1 - 1 = 0 /\ 1 \in Int
    OBVIOUS
  <2>2. /\ Joined(Payloads(fs), 1, 1 - 1) = <<>> /\ Joined(Replies(fs), 1, 1 - 1) = <<>>
        /\ Joined(Codes(fs), 1, 1 - 1) = <<>>
    BY <2>1, JoinedNone
  <2> QED BY <1>1, <2>1, <2>2 DEF BytesOf, Answers, Coded
<1> QED BY <1>1, <1>2, <1>3, <1>4

LEMMA WsInitInv == W!Init => WsInv
<1> SUFFICES ASSUME W!Init PROVE WsInv
  OBVIOUS
<1>1. frames = <<>> /\ piece = <<>> /\ attached = FALSE
  BY DEF W!Init
<1>2. /\ ws.buffer = <<>> /\ ws.frame = W!None /\ ws.message = <<>> /\ ws.open = FALSE
      /\ ws.out = <<>> /\ ws.answers = <<>>
      /\ ws.closed = FALSE /\ ws.close_sent = FALSE /\ ws.failed = FALSE
  BY DEF W!Init
<1>3. WsTypeOK
  <2>1. <<>> \in Seq(W!Frame) /\ <<>> \in Seq(Int) /\ <<>> \in Seq(Answer)
    OBVIOUS
  <2>2. ws \in State
    BY <2>1 DEF W!Init, State
  <2> QED BY <1>1, <2>1, <2>2 DEF WsTypeOK
<1>4. Told(0) /\ 0 \in 0..Len(frames)
  <2>1. /\ Len(frames) = 0 /\ 0 + 1 = 1
    BY <1>1
  <2>2. (\A i \in 1..0 : FALSE) /\ <<>> \o <<>> = <<>>
    OBVIOUS
  <2>3. /\ LastEnd(frames, 0) = 0 /\ OpenOf(frames, 0) = FALSE /\ BytesOf(frames, 1, 0) = <<>>
        /\ Answers(frames, 0) = <<>>
        /\ Coded(frames, 1) = <<>>
    BY <1>1, NothingYet
  <2>4. Heard(frames, ws, 0)
    BY <1>2, <2>1, <2>2, <2>3 DEF Heard
  <2>5. Layout(frames, ws, 0, piece)
    BY <1>1, <1>2, <2>1, <2>2, <2>3 DEF Layout, Between
  <2> QED BY <1>2, <2>1, <2>4, <2>5 DEF Told
<1> QED BY <1>1, <1>2, <1>3, <1>4 DEF WsInv

LEMMA GoodIsTold ==
  ASSUME NEW fs, NEW s, NEW k, NEW w, Good(fs, s, k, w)
  PROVE  /\ Heard(fs, s, k) /\ (s.failed => k < Len(fs) /\ BadOf(fs, k + 1))
         /\ (~s.closed => Layout(fs, s, k, w))
BY DEF Good, Heard

LEMMA WsStepInv == WsInv /\ [W!Next]_(W!vars) => WsInv'
<1> SUFFICES ASSUME WsInv, [W!Next]_(W!vars) PROVE WsInv'
  OBVIOUS
<1>1. frames \in Seq(W!Frame) /\ piece \in Seq(Int) /\ attached \in BOOLEAN /\ ws \in State
  BY DEF WsInv, WsTypeOK
<1>2. PICK k \in 0..Len(frames) : Told(k)
  BY DEF WsInv
<1>3. ~ws.closed => ~ws.failed /\ Good(frames, ws, k, piece)
  BY <1>2 DEF Told, Good, Heard
<1>4. CASE W!PeerSends
  <2>1. PICK f \in PeerFrames : frames' = Append(frames, f) /\ piece' = piece \o W!write_frame(f)
    BY <1>4 DEF W!PeerSends
  <2>2. attached' = attached /\ ws' = ws
    BY <1>4 DEF W!PeerSends
  <2>3. f \in W!Frame
    BY FrameAssumption DEF Frame, W!Frame
  <2>4. W!write_frame(f) \in Seq(Int)
    BY <2>3, Written, FrameTypes, ConcatProperties
  <2>5. WsTypeOK'
    BY <1>1, <2>1, <2>2, <2>3, <2>4, AppendProperties, ConcatProperties DEF WsTypeOK
  <2>6. Len(frames') = Len(frames) + 1 /\ Len(frames) \in Nat
    BY <1>1, <2>1, <2>3, AppendProperties, LenProperties
  <2>7. /\ \A i \in 1..Len(frames) : BadOf(frames', i) <=> BadOf(frames, i)
        /\ Heard(frames, ws, k) => Heard(frames', ws, k)
        /\ Layout(frames, ws, k, piece) => Layout(frames', ws, k, piece')
    BY <1>1, <2>1, <2>3, HeardBefore
  <2>8. k \in 0..Len(frames') /\ (k < Len(frames) => k + 1 \in 1..Len(frames) /\ k < Len(frames'))
    BY <2>6
  <2>9. Told(k)'
    BY <1>2, <2>2, <2>7, <2>8 DEF Told
  <2> QED BY <2>2, <2>5, <2>8, <2>9 DEF WsInv, Quiet
<1>5. ASSUME NEW d \in Seq(Int), NEW w \in Seq(Int), d \o w = piece, ws' = W!feed_data(ws, d), piece' = w,
             UNCHANGED frames, attached' = TRUE
      PROVE  WsInv'
  <2>1. CASE ws.closed
    <3>1. ws' = ws
      BY <1>5, <2>1 DEF W!feed_data
    <3>2. WsTypeOK'
      BY <1>1, <1>5, <3>1 DEF WsTypeOK
    <3>3. Told(k)'
      BY <1>2, <1>5, <2>1, <3>1 DEF Told
    <3> QED BY <1>5, <2>1, <3>1, <3>2, <3>3 DEF WsInv
  <2>2. CASE ~ws.closed
    <3>1. Good(frames, ws, k, d \o w)
      BY <1>3, <1>5, <2>2
    <3>2. ws' \in State /\ Quiet(ws') /\ \E i \in 0..Len(frames) : Good(frames, ws', i, w)
      BY <1>1, <1>5, <2>2, <3>1, Fed
    <3>3. PICK i \in 0..Len(frames) : Good(frames, ws', i, w)
      BY <3>2
    <3>4. WsTypeOK'
      BY <1>1, <1>5, <3>2 DEF WsTypeOK
    <3>5. Told(i)' /\ i \in 0..Len(frames')
      BY <1>5, <3>3, GoodIsTold DEF Told
    <3>6. Quiet(ws)'
      BY <3>2 DEF Quiet
    <3> QED BY <1>5, <3>4, <3>5, <3>6 DEF WsInv
  <2> QED BY <2>1, <2>2
<1>6. CASE W!Arrive
  <2>1. PICK n \in 1..Len(piece) :
          /\ piece' = W!After(piece, n)
          /\ ws' = IF attached THEN W!feed_data(ws, SubSeq(piece, 1, n))
                               ELSE [ws EXCEPT !.buffer = @ \o SubSeq(piece, 1, n)]
    BY <1>6 DEF W!Arrive
  <2>2. frames' = frames /\ attached' = attached
    BY <1>6 DEF W!Arrive
  <2> DEFINE d == SubSeq(piece, 1, n)
             w == W!After(piece, n)
  <2>3. d \in Seq(Int) /\ w \in Seq(Int) /\ d \o w = piece
    <3>1. n \in 0..Len(piece)
      BY <1>1, LenProperties
    <3> QED BY <1>1, <3>1, AfterIs
  <2> HIDE DEF d, w
  <2>4. CASE attached
    BY <1>5, <2>1, <2>2, <2>3, <2>4 DEF d, w
  <2>5. CASE ~attached
    <3>1. ws' = [ws EXCEPT !.buffer = @ \o d] /\ piece' = w
      BY <2>1, <2>5 DEF d, w
    <3>2. ~ws.closed
      BY <2>5 DEF WsInv
    <3>3. ws.buffer \in Seq(Int) /\ ws.buffer \o d \in Seq(Int)
      BY <1>1, <2>3, ConcatProperties DEF State
    <3>4. /\ ws' \in State /\ ws'.buffer = ws.buffer \o d /\ ws'.frame = ws.frame
          /\ ws'.failed = ws.failed /\ ws'.out = ws.out /\ ws'.message = ws.message
          /\ ws'.open = ws.open
          /\ ws'.answers = ws.answers /\ ws'.close_sent = ws.close_sent /\ ws'.closed = ws.closed
      BY <1>1, <3>1, <3>3 DEF State
    <3>5. ws'.buffer \o w = ws.buffer \o piece
      <4>1. (ws.buffer \o d) \o w = ws.buffer \o (d \o w)
        BY <2>3, <3>3, Regroup
      <4> QED BY <2>3, <3>4, <4>1, Zenon
    <3>6. Heard(frames, ws', k)
      BY <1>2, <3>4 DEF Told, Heard
    <3>7. Layout(frames, ws', k, w)
      BY <1>2, <3>2, <3>4, <3>5 DEF Told, Layout, Between, Within
    <3>8. Told(k)'
      BY <1>3, <2>2, <3>1, <3>2, <3>4, <3>6, <3>7 DEF Told
    <3>9. WsTypeOK'
      BY <1>1, <2>2, <2>3, <3>1, <3>4 DEF WsTypeOK
    <3> QED BY <2>2, <2>5, <3>2, <3>4, <3>8, <3>9 DEF WsInv
  <2> QED BY <2>4, <2>5
<1>7. CASE W!Attach
  <2>1. attached' = TRUE /\ ws' = W!feed_data(ws, <<>>) /\ frames' = frames /\ piece' = piece
    BY <1>7 DEF W!Attach
  <2>2. <<>> \in Seq(Int) /\ <<>> \o piece = piece
    BY <1>1, ConcatEmptySeq
  <2> QED BY <1>1, <1>5, <2>1, <2>2
<1>8. CASE UNCHANGED W!vars
  <2>1. frames' = frames /\ piece' = piece /\ attached' = attached /\ ws' = ws
    BY <1>8 DEF W!vars
  <2>2. WsTypeOK'
    BY <1>1, <2>1 DEF WsTypeOK
  <2>3. Told(k)' /\ k \in 0..Len(frames')
    BY <1>2, <2>1 DEF Told
  <2> QED BY <2>1, <2>2, <2>3 DEF WsInv, Quiet
<1> QED BY <1>4, <1>6, <1>7, <1>8 DEF W!Next

-----------------------------------------------------------------------------
(***************************************************************************)
(* From the invariant to what the runs check.                             *)
(***************************************************************************)
LEMMA FirstIs ==
  ASSUME NEW n \in Nat, NEW T, T \subseteq 1..n, NEW o \in Nat, o = n + 1
  PROVE  /\ W!First(T, o) \in 1..(n + 1)
         /\ \A i \in 1..n : i < W!First(T, o) => i \notin T
         /\ W!First(T, o) <= n => W!First(T, o) \in T
         /\ \A i \in T : W!First(T, o) <= i
<1>1. CASE T = {}
  BY <1>1 DEF W!First
<1>2. CASE T # {}
  <2>1. T \subseteq Nat
    OBVIOUS
  <2>2. \E i \in T : \A j \in T : i <= j
    BY <1>2, <2>1, Least
  <2>3. W!First(T, o) \in T /\ \A j \in T : W!First(T, o) <= j
    BY <1>2, <2>2, Zenon DEF W!First
  <2>4. W!First(T, o) \in 1..n
    BY <2>3
  <2>5. W!First(T, o) \in 1..(n + 1)
    BY <2>4
  <2>6. \A i \in 1..n : i < W!First(T, o) => i \notin T
    BY <2>3, <2>4
  <2> QED BY <2>3, <2>5, <2>6
<1> QED BY <1>1, <1>2

(* What CutsDoNotMatter reads off the frames, in the terms of this module. *)
LEMMA SameTerms ==
  ASSUME frames \in Seq(W!Frame)
  PROVE  /\ \A i \in 1..Len(frames) : W!Bad(i) <=> BadOf(frames, i)
         /\ \A k \in 0..Len(frames) : W!Delivered(k) = BytesOf(frames, 1, LastEnd(frames, k))
<1> DEFINE n == Len(frames)
           ps == Payloads(frames)
<1>1. n \in Nat /\ ps \in Seq(Seq(Int)) /\ Len(ps) = n
  BY Fragments
<1>2. ASSUME NEW a \in 1..(n + 1), NEW b \in (a - 1)..n PROVE W!Bytes(a, b) = BytesOf(frames, a, b)
  <2> DEFINE f == [i \in 1..(b - a + 1) |-> IF W!Data(a + i - 1) THEN frames[a + i - 1].data ELSE <<>>]
  <2>1. \A i \in 1..(b - a + 1) : a + i - 1 \in 1..n
    BY <1>1
  <2>2. f = [i \in 1..(b - a + 1) |-> ps[a + i - 1]]
    BY <2>1 DEF Payloads, W!Data, DataOf
  <2>3. a \in 1..(Len(ps) + 1) /\ b \in (a - 1)..Len(ps)
    BY <1>1
  <2>4. W!Bytes(a, b) = W!FlattenSeq(f)
    BY DEF W!Bytes
  <2> HIDE DEF f, ps
  <2>5. W!FlattenSeq(f) = Joined(ps, a, b)
    BY <1>1, <2>2, <2>3, FunSlice
  <2> QED BY <2>4, <2>5 DEF BytesOf, ps
<1> HIDE DEF ps
<1>3. ASSUME NEW k \in 0..n PROVE W!Delivered(k) = BytesOf(frames, 1, LastEnd(frames, k))
  <2> DEFINE l == LastEnd(frames, k)
  <2>1. l \in 0..k
    BY <1>1, LastStep
  <2>2. W!Delivered(k) = W!Bytes(1, l)
    BY DEF W!Delivered, LastEnd, W!Ends, EndsOf, W!Data, DataOf
  <2> HIDE DEF l
  <2>3. 1 \in 1..(n + 1) /\ l \in (1 - 1)..n
    BY <1>1, <2>1
  <2> QED BY <1>2, <2>2, <2>3 DEF l
<1>4. ASSUME NEW i \in 1..n PROVE W!Bad(i) <=> BadOf(frames, i)
  <2> DEFINE l == LastEnd(frames, i - 1)
  <2>1. i - 1 \in Nat
    BY <1>1
  <2>2. l \in 0..(i - 1)
    BY <2>1, LastStep
  <2>3. l = W!Latest({j \in 1..(i - 1) : W!Ends(j)}) /\ (W!Open(i) <=> OpenOf(frames, i - 1))
    BY DEF LastEnd, W!Ends, EndsOf, W!Data, DataOf, W!Open, OpenOf, LastData
  <2> HIDE DEF l
  <2>4. l + 1 \in 1..(n + 1) /\ i \in ((l + 1) - 1)..n
    BY <1>1, <2>1, <2>2
  <2>5. W!Message(i) = BytesOf(frames, l + 1, i)
    BY <1>2, <2>3, <2>4 DEF W!Message
  <2>6. W!Open(i) \in BOOLEAN /\ OpenOf(frames, i - 1) \in BOOLEAN
    BY DEF W!Open, OpenOf
  <2> QED BY <2>3, <2>5, <2>6 DEF W!Bad, BadOf, W!Data, DataOf, Size, l
<1> QED BY <1>3, <1>4

(* The first bad frame and the first Close before it.                     *)
LEMMA FirstsAre ==
  ASSUME frames \in Seq(W!Frame)
  PROVE  /\ Len(frames) \in Nat
         /\ W!FirstBad \in 1..(Len(frames) + 1)
         /\ \A i \in 1..(W!FirstBad - 1) : ~BadOf(frames, i)
         /\ W!FirstBad <= Len(frames) => BadOf(frames, W!FirstBad)
         /\ W!FirstClose \in 1..W!FirstBad
         /\ W!FirstClose < W!FirstBad => frames[W!FirstClose].op = W!CLOSE
         /\ \A i \in 1..(W!FirstBad - 1) : frames[i].op = W!CLOSE => W!FirstClose <= i
<1> DEFINE n == Len(frames)
           T == {i \in DOMAIN frames : W!Bad(i)}
           U == {i \in 1..(W!FirstBad - 1) : frames[i].op = W!CLOSE}
<1>1. n \in Nat /\ DOMAIN frames = 1..n /\ n + 1 \in Nat
  BY LenProperties
<1>2. /\ W!FirstBad \in 1..(n + 1)
      /\ \A i \in 1..n : i < W!FirstBad => i \notin T
      /\ W!FirstBad <= n => W!FirstBad \in T
  <2>1. T \subseteq 1..n /\ W!FirstBad = W!First(T, n + 1)
    BY <1>1 DEF W!FirstBad
  <2> HIDE DEF T, n
  <2> QED BY <1>1, <2>1, FirstIs
<1>3. \A i \in 1..(W!FirstBad - 1) : ~BadOf(frames, i)
  <2> SUFFICES ASSUME NEW i \in 1..(W!FirstBad - 1) PROVE ~BadOf(frames, i)
    OBVIOUS
  <2>1. i \in 1..n /\ i < W!FirstBad
    BY <1>1, <1>2
  <2>2. i \in DOMAIN frames /\ i \notin T
    BY <1>1, <1>2, <2>1
  <2> QED BY <2>1, <2>2, SameTerms
<1>4. W!FirstBad <= n => BadOf(frames, W!FirstBad)
  <2>1. W!FirstBad <= n => W!FirstBad \in 1..n /\ W!Bad(W!FirstBad)
    BY <1>1, <1>2
  <2> QED BY <2>1, SameTerms
<1> DEFINE m == W!FirstBad - 1
<1>5. m \in Nat /\ m + 1 = W!FirstBad
  BY <1>1, <1>2
<1>6. /\ W!FirstClose \in 1..(m + 1)
      /\ W!FirstClose <= m => W!FirstClose \in U
      /\ \A i \in U : W!FirstClose <= i
  <2>1. U \subseteq 1..m /\ W!FirstClose = W!First(U, W!FirstBad) /\ W!FirstBad \in Nat
    BY <1>5 DEF W!FirstClose
  <2> HIDE DEF U, m
  <2> QED BY <1>5, <2>1, FirstIs
<1>7. W!FirstClose < W!FirstBad => W!FirstClose <= m
  BY <1>2, <1>5, <1>6
<1> QED BY <1>1, <1>2, <1>3, <1>4, <1>5, <1>6, <1>7

(* The answers as the runs state them.                                    *)
LEMMA SameAnswers ==
  ASSUME frames \in Seq(W!Frame)
  PROVE  W!Answered(W!FirstBad - 1) = Answers(frames, W!FirstBad - 1)
<1> DEFINE n == Len(frames)
           m == W!FirstBad - 1
           rs == Replies(frames)
           f == [i \in 1..m |-> CASE frames[i].op = W!PING -> <<[op |-> W!PONG, data |-> frames[i].data]>>
                                  [] i = W!FirstClose    -> <<[op |-> W!CLOSE, data |-> frames[i].data]>>
                                  [] OTHER             -> <<>>]
<1>1. n \in Nat /\ m \in 0..n /\ rs \in Seq(Seq(Answer)) /\ Len(rs) = n
  BY FirstsAre, Fragments
<1>2. \A i \in 1..m : f[i] = rs[i]
  <2> SUFFICES ASSUME NEW i \in 1..m PROVE f[i] = rs[i]
    OBVIOUS
  <2>1. i \in 1..n /\ i < W!FirstBad /\ \A j \in 1..(i - 1) : j \in 1..m
    <3>1. W!FirstBad \in 1..(n + 1) /\ n \in Nat
      BY FirstsAre
    <3> QED BY <3>1
  <2>2. i = W!FirstClose => frames[i].op = W!CLOSE
    BY <2>1, FirstsAre
  <2>3. i = W!FirstClose <=> frames[i].op = W!CLOSE /\ \A j \in 1..(i - 1) : frames[j].op # W!CLOSE
    <3>1. W!FirstClose \in 1..W!FirstBad
      BY FirstsAre
    <3>2. i = W!FirstClose => \A j \in 1..(i - 1) : frames[j].op # W!CLOSE
      <4> SUFFICES ASSUME i = W!FirstClose, NEW j \in 1..(i - 1), frames[j].op = W!CLOSE PROVE FALSE
        OBVIOUS
      <4>1. W!FirstClose <= j
        BY <2>1, FirstsAre
      <4> QED BY <1>1, <2>1, <4>1
    <3>3. frames[i].op = W!CLOSE /\ (\A j \in 1..(i - 1) : frames[j].op # W!CLOSE) => i = W!FirstClose
      <4> SUFFICES ASSUME frames[i].op = W!CLOSE, \A j \in 1..(i - 1) : frames[j].op # W!CLOSE, i # W!FirstClose
                   PROVE  FALSE
        OBVIOUS
      <4>1. W!FirstClose <= i
        BY FirstsAre
      <4>2. i \in Nat /\ W!FirstClose \in Nat /\ W!FirstClose >= 1
        BY <2>1, <3>1
      <4>3. W!FirstClose < i
        BY <4>1, <4>2
      <4>4. W!FirstClose \in 1..(i - 1)
        BY <4>2, <4>3
      <4>5. W!FirstClose < W!FirstBad
        <5>1. W!FirstBad \in Nat
          BY FirstsAre
        <5> QED BY <2>1, <4>2, <4>3, <5>1
      <4> QED BY <4>4, <4>5, FirstsAre
    <3> QED BY <2>2, <3>2, <3>3
  <2>4. rs[i] = Reply(frames, i)
    BY <2>1 DEF Replies
  <2>5. W!PING # W!CLOSE
    BY DEF W!PING, W!CLOSE
  <2> QED BY <2>2, <2>3, <2>4, <2>5 DEF Reply
<1>3. W!Answered(m) = W!FlattenSeq(f)
  BY DEF W!Answered
<1> HIDE DEF f
<1>4. f = [i \in 1..(m - 1 + 1) |-> rs[1 + i - 1]]
  <2>1. m - 1 + 1 = m /\ \A i \in 1..m : 1 + i - 1 = i
    BY <1>1
  <2>2. f = [i \in 1..m |-> f[i]]
    BY DEF f
  <2> QED BY <1>2, <2>1, <2>2
<1>5. W!FlattenSeq(f) = Joined(rs, 1, m)
  <2>1. 1 \in 1..(Len(rs) + 1) /\ m \in (1 - 1)..Len(rs)
    BY <1>1
  <2> HIDE DEF rs, m
  <2> QED BY <1>1, <1>4, <2>1, FunSlice
<1> QED BY <1>3, <1>5 DEF Answers

(* More frames do not take a message back.                                *)
LEMMA LastEndGrows ==
  ASSUME NEW fs, NEW k \in Nat, NEW m \in Nat, k <= m
  PROVE  LastEnd(fs, k) \in 0..k /\ LastEnd(fs, m) \in 0..m /\ LastEnd(fs, k) <= LastEnd(fs, m)
<1> DEFINE E(n) == {j \in 1..n : EndsOf(fs, j)}
<1>1. E(k) \subseteq E(m) /\ E(k) \subseteq 1..k /\ E(m) \subseteq 1..m
  OBVIOUS
<1>2. LastEnd(fs, k) = W!Latest(E(k)) /\ LastEnd(fs, m) = W!Latest(E(m))
  BY DEF LastEnd
<1> HIDE DEF E
<1>3. LastEnd(fs, k) \in 0..k /\ LastEnd(fs, m) \in 0..m
  BY <1>1, <1>2, LatestIs
<1>4. CASE E(k) = {}
  <2>1. LastEnd(fs, k) = 0
    BY <1>1, <1>2, <1>4, LatestIs
  <2> QED BY <1>3, <2>1
<1>5. CASE E(k) # {}
  <2>1. LastEnd(fs, k) \in E(k) /\ E(m) # {}
    BY <1>1, <1>2, <1>5, LatestIs
  <2>2. LastEnd(fs, m) >= LastEnd(fs, k)
    BY <1>1, <1>2, <2>1, LatestIs
  <2> QED BY <1>3, <2>2
<1> QED BY <1>4, <1>5

(* Fewer frames deliver and answer a prefix.                              *)
LEMMA LessIsPrefix ==
  ASSUME NEW fs \in Seq(W!Frame), NEW k \in 0..Len(fs), NEW m \in 0..Len(fs), k <= m
  PROVE  /\ W!IsPrefix(BytesOf(fs, 1, LastEnd(fs, k)), BytesOf(fs, 1, LastEnd(fs, m)))
         /\ W!IsPrefix(Answers(fs, k), Answers(fs, m))
<1> DEFINE n == Len(fs)
           a == LastEnd(fs, k)
           b == LastEnd(fs, m)
           rs == Replies(fs)
<1>1. n \in Nat
  BY LenProperties
<1>2. a \in 0..n /\ b \in 0..n /\ a <= b
  BY <1>1, LastEndGrows
<1> HIDE DEF a, b
<1>3. /\ 1 \in 1..(n + 1) /\ a \in (1 - 1)..n /\ b \in a..n
      /\ a + 1 \in 1..(n + 1) /\ b \in ((a + 1) - 1)..n
  BY <1>1, <1>2
<1>4. BytesOf(fs, 1, b) = BytesOf(fs, 1, a) \o BytesOf(fs, a + 1, b)
  BY <1>3, BytesSplit
<1>5. BytesOf(fs, 1, a) \in Seq(Int) /\ BytesOf(fs, a + 1, b) \in Seq(Int)
  BY <1>3, BytesType
<1>6. W!IsPrefix(BytesOf(fs, 1, a), BytesOf(fs, 1, b))
  BY <1>4, <1>5, PrefixOf
<1>7. rs \in Seq(Seq(Answer)) /\ Len(rs) = n
  BY Fragments
<1>8. /\ 1 \in 1..(Len(rs) + 1) /\ k \in (1 - 1)..Len(rs) /\ m \in k..Len(rs)
      /\ k + 1 \in 1..(Len(rs) + 1) /\ m \in ((k + 1) - 1)..Len(rs)
  BY <1>1, <1>7
<1> HIDE DEF rs
<1>9. Joined(rs, 1, m) = Joined(rs, 1, k) \o Joined(rs, k + 1, m)
  BY <1>7, <1>8, JoinedSplit
<1>10. Joined(rs, 1, k) \in Seq(Answer) /\ Joined(rs, k + 1, m) \in Seq(Answer)
  BY <1>7, <1>8, JoinedType
<1>11. W!IsPrefix(Joined(rs, 1, k), Joined(rs, 1, m))
  BY <1>9, <1>10, PrefixOf
<1> QED BY <1>6, <1>11 DEF Answers, a, b, rs

(* Nothing is left of the wire: the adapter went as far as it could.       *)
LEMMA AllHeard ==
  ASSUME WsInv, NEW k \in 0..Len(frames), Told(k), attached, piece = <<>>, ~ws.closed
  PROVE  k = Len(frames)
<1>1. frames \in Seq(W!Frame) /\ piece \in Seq(Int) /\ ws \in State /\ Quiet(ws)
  BY DEF WsInv, WsTypeOK
<1>2. ~ws.failed /\ Good(frames, ws, k, piece)
  BY DEF Told, Good, Heard
<1>3. W!Round(ws) = ws
  BY <1>1, <1>2 DEF Quiet
<1> QED BY <1>1, <1>2, <1>3, OneRound

LEMMA WsInvCuts == WsInv => W!CutsDoNotMatter
<1> SUFFICES ASSUME WsInv PROVE W!CutsDoNotMatter
  OBVIOUS
<1> DEFINE last == W!FirstBad - 1
           n == Len(frames)
<1>1. frames \in Seq(W!Frame) /\ piece \in Seq(Int) /\ ws \in State
  BY DEF WsInv, WsTypeOK
<1>2. PICK k \in 0..n : Told(k)
  BY DEF WsInv
<1>3. /\ \A i \in 1..k : ~BadOf(frames, i)
      /\ ws.out = BytesOf(frames, 1, LastEnd(frames, k)) /\ ws.answers = Answers(frames, k)
      /\ ws.close_sent <=> \E i \in 1..k : frames[i].op = W!CLOSE
      /\ ws.closed <=> ws.failed \/ ws.close_sent
      /\ ws.failed => k < n /\ BadOf(frames, k + 1)
  BY <1>2 DEF Told, Heard
<1>4. n \in Nat /\ W!FirstBad \in 1..(n + 1) /\ W!FirstClose \in 1..W!FirstBad /\ k \in Nat
  BY <1>1, FirstsAre
<1>5. k <= last
  <2> SUFFICES ASSUME W!FirstBad <= k PROVE FALSE
    BY <1>4
  <2>1. W!FirstBad <= n /\ W!FirstBad \in 1..k
    BY <1>4
  <2> QED BY <1>1, <1>3, <2>1, FirstsAre
<1>6. ws.failed => k = last
  <2> SUFFICES ASSUME ws.failed, k < last PROVE FALSE
    BY <1>4, <1>5
  <2>1. k + 1 \in 1..(W!FirstBad - 1)
    BY <1>4
  <2> QED BY <1>1, <1>3, <2>1, FirstsAre
<1>7. last \in 0..n
  BY <1>4
<1>8. W!Delivered(last) = BytesOf(frames, 1, LastEnd(frames, last)) /\ W!Answered(last) = Answers(frames, last)
  BY <1>1, <1>7, SameTerms, SameAnswers
<1>9. W!IsPrefix(ws.out, W!Delivered(last)) /\ W!IsPrefix(ws.answers, W!Answered(last))
  BY <1>1, <1>3, <1>5, <1>7, <1>8, LessIsPrefix
<1>10. ws.failed => W!FirstBad <= n
  BY <1>3, <1>4, <1>6
<1>11. ASSUME attached, piece = <<>>, ~ws.closed PROVE k = n /\ k = last
  <2>1. k = n
    BY <1>2, <1>11, AllHeard
  <2> QED BY <1>4, <1>5, <2>1
<1>12. ASSUME ws.close_sent PROVE W!FirstClose <= k /\ W!FirstClose <= last
  <2>1. PICK i \in 1..k : frames[i].op = W!CLOSE
    BY <1>3, <1>12
  <2>2. i \in 1..(W!FirstBad - 1)
    BY <1>4, <1>5
  <2>3. W!FirstClose <= i
    BY <1>1, <2>1, <2>2, FirstsAre
  <2> QED BY <1>4, <1>5, <2>3
<1>13. ASSUME attached, piece = <<>>
       PROVE W!IsPrefix(W!Delivered(IF W!FirstClose <= last THEN W!FirstClose ELSE last), ws.out)
  <2> DEFINE e == IF W!FirstClose <= last THEN W!FirstClose ELSE last
  <2>1. e \in 0..n /\ e <= last
    BY <1>4, <1>7
  <2>2. e <= k
    <3>1. CASE ws.failed \/ ~ws.closed
      BY <1>6, <1>11, <1>13, <2>1, <3>1
    <3>2. CASE ws.close_sent
      BY <1>12, <3>2
    <3> QED BY <1>3, <3>1, <3>2
  <2>3. W!Delivered(e) = BytesOf(frames, 1, LastEnd(frames, e))
    BY <1>1, <2>1, SameTerms
  <2> HIDE DEF e
  <2>4. W!IsPrefix(BytesOf(frames, 1, LastEnd(frames, e)), BytesOf(frames, 1, LastEnd(frames, k)))
    BY <1>1, <1>2, <2>1, <2>2, LessIsPrefix
  <2>5. W!IsPrefix(W!Delivered(e), ws.out)
    BY <1>3, <2>3, <2>4
  <2> QED BY <2>5 DEF e
<1>14. ASSUME attached, piece = <<>>, W!FirstClose > last
       PROVE ws.answers = W!Answered(last) /\ (ws.failed <=> W!FirstBad <= n)
  <2>1. ~ws.close_sent
    BY <1>4, <1>12, <1>14
  <2>2. k = last
    BY <1>3, <1>6, <1>11, <1>14, <2>1
  <2>3. ~ws.failed => W!FirstBad > n
    BY <1>3, <1>4, <1>11, <1>14, <2>1
  <2> QED BY <1>3, <1>4, <1>8, <1>10, <2>2, <2>3
<1> HIDE DEF last, n
<1>15. W!CutsDoNotMatter
  BY <1>9, <1>10, <1>13, <1>14 DEF W!CutsDoNotMatter, last, n
<1> QED BY <1>15

(* The buffer, the header, the message and the flags of WebSocketStream   *)
(* keep their types (websocket.py).                                       *)
THEOREM WsTypeCorrect == W!Spec => []WsTypeOK
<1>1. WsInv => WsTypeOK
  BY DEF WsInv
<1> QED BY <1>1, WsInitInv, WsStepInv, PTL DEF W!Spec

(* For any frames of the peer, good and bad, and any way in which their   *)
(* bytes are cut into pieces, before attach() and after it: feed_data()   *)
(* delivers the complete messages in order until the first frame that is  *)
(* not allowed, answers every ping and the first Close only, and fails if *)
(* and only if such a frame is there (websocket.py, feed_data).           *)
THEOREM CutsNeverMatter == W!Spec => []CutsDoNotMatter
<1>1. WsInv => CutsDoNotMatter
  BY WsInvCuts DEF CutsDoNotMatter
<1> QED BY <1>1, WsInitInv, WsStepInv, PTL DEF W!Spec

-----------------------------------------------------------------------------
(***************************************************************************)
(* Framing: sequences cut in two.                                          *)
(***************************************************************************)
(* The two parts of a sequence cut at m.                                   *)
LEMMA Cut ==
  ASSUME NEW S, NEW b \in Seq(S), NEW m \in 0..Len(b)
  PROVE  /\ L!After(b, m) \in Seq(S) /\ Len(L!After(b, m)) = Len(b) - m
         /\ SubSeq(b, 1, m) \in Seq(S) /\ Len(SubSeq(b, 1, m)) = m
         /\ SubSeq(b, 1, m) \o L!After(b, m) = b
<1>1. Len(b) \in Nat
  BY LenProperties
<1>2. L!After(b, m) \in Seq(S) /\ Len(L!After(b, m)) = Len(b) - m
      /\ SubSeq(b, 1, m) \in Seq(S) /\ Len(SubSeq(b, 1, m)) = m
  BY <1>1 DEF L!After
<1>3. SubSeq(b, 1, m) \o L!After(b, m) = b
  <2>1. 1 \in 1..(Len(b) + 1) /\ m \in (1 - 1)..Len(b) /\ Len(b) \in m..Len(b)
    BY <1>1
  <2>2. SubSeq(b, 1, m) \o SubSeq(b, m + 1, Len(b)) = SubSeq(b, 1, Len(b))
    BY <2>1, ConcatAdjacentSubSeq
  <2> QED BY <2>2, SubSeqFull DEF L!After
<1> QED BY <1>2, <1>3

(* Two ways to cut: where the heads have one length they are one.          *)
LEMMA Halves ==
  ASSUME NEW S, NEW a \in Seq(S), NEW x \in Seq(S), NEW b \in Seq(S), NEW y \in Seq(S),
         a \o x = b \o y, Len(a) = Len(b)
  PROVE  a = b /\ x = y
<1>1. Len(a) \in Nat /\ Len(x) \in Nat /\ Len(b) \in Nat /\ Len(y) \in Nat
  BY LenProperties
<1>2. \A i \in 1..Len(a) : (a \o x)[i] = a[i] /\ (b \o y)[i] = b[i]
  BY <1>1, ConcatProperties
<1>3. a = b
  BY <1>2, SeqEqual
<1>4. a \o x = a \o y
  BY <1>3
<1> QED BY <1>3, <1>4, ConcatSimplifications

(* What was appended, and what it was appended to.                         *)
LEMMA Parts ==
  ASSUME NEW S, NEW a \in Seq(S), NEW b \in Seq(S)
  PROVE  SubSeq(a \o b, 1, Len(a)) = a /\ L!After(a \o b, Len(a)) = b
<1>1. a \o b \in Seq(S) /\ Len(a) \in 0..Len(a \o b)
  BY ConcatProperties, LenProperties
<1> DEFINE h == SubSeq(a \o b, 1, Len(a))
           t == L!After(a \o b, Len(a))
<1>2. h \in Seq(S) /\ t \in Seq(S) /\ Len(h) = Len(a) /\ h \o t = a \o b
  BY <1>1, Cut
<1> HIDE DEF h, t
<1>3. h = a /\ t = b
  BY <1>2, Halves
<1> QED BY <1>3 DEF h, t

(* What is under way: numbers.                                             *)
Word == Nat

(* The same for words: the general lemmas need the set they are about.     *)
(* Concatenation of words may be regrouped.                                *)
LEMMA WordAssoc ==
  ASSUME NEW a \in Seq(Word), NEW b \in Seq(Word), NEW c \in Seq(Word)
  PROVE  (a \o b) \o c = a \o (b \o c) /\ a \o b \in Seq(Word) /\ b \o c \in Seq(Word)
         /\ a \o (b \o c) \in Seq(Word)
BY ConcatAssociative, ConcatProperties

(* Where the first head is the longer one, it starts with the other.       *)
LEMMA WordOverlap ==
  ASSUME NEW a \in Seq(Word), NEW x \in Seq(Word), NEW b \in Seq(Word), NEW y \in Seq(Word),
         a \o x = b \o y, Len(a) >= Len(b)
  PROVE  LET t == L!After(a, Len(b))
         IN t \in Seq(Word) /\ b \o t = a /\ t \o x = y /\ SubSeq(a, 1, Len(b)) = b
<1> DEFINE h == SubSeq(a, 1, Len(b))
           t == L!After(a, Len(b))
<1>1. Len(b) \in 0..Len(a)
  BY LenProperties
<1>2. h \in Seq(Word) /\ t \in Seq(Word) /\ Len(h) = Len(b) /\ h \o t = a
  BY <1>1, Cut
<1> HIDE DEF h, t
<1>4. t \o x \in Seq(Word) /\ h \o (t \o x) = b \o y
  <2>1. (h \o t) \o x = h \o (t \o x)
    <3>1. h \in Seq(Word) /\ t \in Seq(Word)
      BY <1>2
    <3> QED BY <3>1, WordAssoc, SMTT(30)
  <2>2. t \o x \in Seq(Word)
    BY <1>2, ConcatProperties
  <2> QED BY <1>2, <2>1, <2>2
<1>5. h = b /\ t \o x = y
  BY <1>2, <1>4, Halves
<1> QED BY <1>2, <1>5 DEF h, t

(* The same of sequences of words, with what concatenation gives them.     *)
LEMMA WordParts ==
  ASSUME NEW a \in Seq(Word), NEW b \in Seq(Word)
  PROVE  SubSeq(a \o b, 1, Len(a)) = a /\ L!After(a \o b, Len(a)) = b /\ Len(a \o b) = Len(a) + Len(b)
         /\ a \o b \in Seq(Word) /\ a \o <<>> = a /\ <<>> \o a = a /\ (a \o b = <<>> => a = <<>> /\ b = <<>>)
<1>1. SubSeq(a \o b, 1, Len(a)) = a /\ L!After(a \o b, Len(a)) = b
  BY Parts
<1>2. a \o b \in Seq(Word) /\ Len(a \o b) = Len(a) + Len(b)
  BY ConcatProperties
<1>3. a \o <<>> = a /\ <<>> \o a = a
  BY ConcatEmptySeq
<1>4. a \o b = <<>> => a = <<>> /\ b = <<>>
  BY ConcatEqualIffEmpty
<1> QED BY <1>1, <1>2, <1>3, <1>4

(* Framing and WebSocket flatten sequences in the same way.                *)
LEMMA SameFlatten == \A ss : L!FlattenSeq(ss) = W!FlattenSeq(ss)
BY DEF L!FlattenSeq, W!FlattenSeq

(* The first of several.                                                   *)
LEMMA FlattenFirst ==
  ASSUME NEW S, NEW ss \in Seq(Seq(S)), ss # <<>>
  PROVE  /\ ss[1] \in Seq(S) /\ Tail(ss) \in Seq(Seq(S))
         /\ L!FlattenSeq(ss) = ss[1] \o L!FlattenSeq(Tail(ss))
<1>1. ss[1] \in Seq(S) /\ Tail(ss) \in Seq(Seq(S)) /\ ss = <<ss[1]>> \o Tail(ss)
  <2>1. Len(ss) \in Nat \ {0}
    BY EmptySeq
  <2>2. 1 \in 1..Len(ss) /\ Len(ss) \in 1..Len(ss)
    BY <2>1
  <2>3. ss[1] \in Seq(S) /\ Tail(ss) \in Seq(Seq(S)) /\ Tail(ss) = SubSeq(ss, 2, Len(ss))
    BY <2>2, ElementOfSeq, HeadTailProperties, TailIsSubSeq
  <2>4. SubSeq(ss, 1, Len(ss)) = <<ss[1]>> \o SubSeq(ss, 1 + 1, Len(ss))
    BY <2>2, SubSeqRecursiveFirst
  <2>5. SubSeq(ss, 1, Len(ss)) = ss
    BY SubSeqFull
  <2> QED BY <2>3, <2>4, <2>5
<1>2. <<ss[1]>> \in Seq(Seq(S))
  BY <1>1
<1>3. W!FlattenSeq(<<ss[1]>>) = ss[1]
  BY <1>1, FlattenOne
<1>4. W!FlattenSeq(<<ss[1]>> \o Tail(ss)) = W!FlattenSeq(<<ss[1]>>) \o W!FlattenSeq(Tail(ss))
  BY <1>1, <1>2, FlattenConcat
<1> QED BY <1>1, <1>3, <1>4, SameFlatten

-----------------------------------------------------------------------------
(***************************************************************************)
(* Frames under way: b holds the frames of a layer, whole and in order,    *)
(* that carry p; the counter of the layer is n before them and e after.    *)
(***************************************************************************)
Byte   == 0..(L!Modulus - 1)
Framer == {"ticket", "aead", "simple", "deflate", "ota"}

(* The ticket plugin takes a frame before it is whole.                     *)
TakenTorn(k, n, b) ==
  k = "ticket" /\ L!Size(k, n, b) \in Nat /\ L!Size(k, n, b) > Len(b) /\ L!Sound(k, n, b)

(* f is a frame that carries c: the decoder takes it whole whatever        *)
(* follows it, finds it sound, and takes nothing of it when it is torn.    *)
Sits(k, n, f, c) ==
  /\ f \in Seq(Word) /\ f # <<>> /\ c \in Seq(Byte)
  /\ L!Sound(k, n, f) /\ L!Carried(k, n, f) = c
  /\ \A t \in Seq(Word) : L!Size(k, n, f \o t) = Len(f)
  /\ \A b, t \in Seq(Word) : b \o t = f /\ t # <<>> => L!Size(k, n, b) = 0 \/ TakenTorn(k, n, b)

FramedBy(k, n, e, b, p, fs, cs) ==
  /\ Len(cs) = Len(fs) /\ e = n + (L!Advance(k) * Len(fs))
  /\ b = L!FlattenSeq(fs) /\ p = L!FlattenSeq(cs)
  /\ \A i \in 1..Len(fs) : Sits(k, n + (L!Advance(k) * (i - 1)), fs[i], cs[i])
Framed(k, n, e, b, p) ==
  \E fs \in Seq(Seq(Word)), cs \in Seq(Seq(Byte)) : FramedBy(k, n, e, b, p, fs, cs)

(* A frame moves the counter of its layer on by at most two.               *)
LEMMA AdvanceIs == \A k : L!Advance(k) = 0 \/ L!Advance(k) = 1 \/ L!Advance(k) = 2
BY DEF L!Advance

(* Multiplication distributes over sums and differences.                   *)
LEMMA Distributes ==
  ASSUME NEW a \in Int, NEW x \in Int, NEW y \in Int
  PROVE  a * x \in Int /\ a * (x + y) = (a * x) + (a * y) /\ a * (x - y) = (a * x) - (a * y)
OBVIOUS

(* Bytes are words.                                                        *)
LEMMA BytesAreWords == Seq(Byte) \subseteq Seq(Word)
<1>1. Byte \subseteq Word
  BY DEF Byte, L!Modulus, Word
<1> QED BY <1>1, SeqMonotonic

(* Bytes after bytes are bytes.                                            *)
LEMMA ByteConcat ==
  ASSUME NEW a \in Seq(Byte), NEW b \in Seq(Byte)
  PROVE  a \o b \in Seq(Byte)
BY ConcatProperties

(* What is delivered next goes to the end of what was delivered.           *)
Extends(o, c, q) == o \o c \in Seq(Byte) /\ (o \o c) \o q = o \o (c \o q)
LEMMA DeliveredNext ==
  ASSUME NEW o \in Seq(Byte), NEW c \in Seq(Byte), NEW q \in Seq(Byte)
  PROVE  Extends(o, c, q)
<1>1. o \o c \in Seq(Byte)
  BY ByteConcat
<1>2. (o \o c) \o q = o \o (c \o q)
  BY ConcatAssociative, SMTT(20)
<1> QED BY <1>1, <1>2 DEF Extends

(* What a layer of frames carries and is carried by.                       *)
LEMMA FramedType ==
  ASSUME NEW k, NEW n \in Nat, NEW e, NEW b, NEW p, Framed(k, n, e, b, p)
  PROVE  b \in Seq(Word) /\ p \in Seq(Byte) /\ e \in Nat
<1>1. PICK fs \in Seq(Seq(Word)), cs \in Seq(Seq(Byte)) : FramedBy(k, n, e, b, p, fs, cs)
  BY DEF Framed
<1>2. b \in Seq(Word) /\ p \in Seq(Byte)
  BY <1>1, FlattenType, SameFlatten DEF FramedBy
<1>3. e \in Nat
  <2>1. Len(fs) \in Nat /\ e = n + (L!Advance(k) * Len(fs))
    BY <1>1 DEF FramedBy
  <2> QED BY <2>1, AdvanceIs
<1> QED BY <1>2, <1>3

(* No frames carry nothing.                                                *)
LEMMA FramedNone ==
  ASSUME NEW k, NEW n \in Nat
  PROVE  Framed(k, n, n, <<>>, <<>>)
<1>1. <<>> \in Seq(Seq(Word)) /\ <<>> \in Seq(Seq(Byte)) /\ Len(<<>>) = 0
  BY EmptySeq
<1>2. L!FlattenSeq(<<>>) = <<>>
  BY FlattenEmpty, SameFlatten
<1>3. n = n + (L!Advance(k) * 0) /\ 1..0 = {}
  BY AdvanceIs
<1>4. FramedBy(k, n, n, <<>>, <<>>, <<>>, <<>>)
  BY <1>1, <1>2, <1>3 DEF FramedBy
<1> QED BY <1>1, <1>4 DEF Framed

(* The first frame, and the others.                                        *)
LEMMA FramedFirst ==
  ASSUME NEW k, NEW n \in Nat, NEW e, NEW b, NEW p, Framed(k, n, e, b, p), b # <<>>
  PROVE  \E f \in Seq(Word), c \in Seq(Byte), b2 \in Seq(Word), p2 \in Seq(Byte) :
           /\ Sits(k, n, f, c) /\ f \o b2 = b /\ c \o p2 = p
           /\ Framed(k, n + L!Advance(k), e, b2, p2)
<1>1. PICK fs \in Seq(Seq(Word)), cs \in Seq(Seq(Byte)) : FramedBy(k, n, e, b, p, fs, cs)
  BY DEF Framed
<1> DEFINE a == L!Advance(k)
<1>2. a = 0 \/ a = 1 \/ a = 2
  BY AdvanceIs
<1> HIDE DEF a
<1>3. fs # <<>>
  <2>1. L!FlattenSeq(<<>>) = <<>>
    BY FlattenEmpty, SameFlatten
  <2> QED BY <1>1, <2>1 DEF FramedBy
<1>4. Len(fs) \in Nat /\ Len(fs) # 0 /\ Len(cs) = Len(fs) /\ cs # <<>>
  BY <1>1, <1>3, EmptySeq DEF FramedBy
<1>5. /\ fs[1] \in Seq(Word) /\ Tail(fs) \in Seq(Seq(Word)) /\ b = fs[1] \o L!FlattenSeq(Tail(fs))
      /\ cs[1] \in Seq(Byte) /\ Tail(cs) \in Seq(Seq(Byte)) /\ p = cs[1] \o L!FlattenSeq(Tail(cs))
  BY <1>1, <1>3, <1>4, FlattenFirst DEF FramedBy
<1>6. L!FlattenSeq(Tail(fs)) \in Seq(Word) /\ L!FlattenSeq(Tail(cs)) \in Seq(Byte)
  BY <1>5, FlattenType, SameFlatten
<1>7. Sits(k, n, fs[1], cs[1])
  <2>1. 1 \in 1..Len(fs) /\ n + (a * (1 - 1)) = n
    BY <1>2, <1>4
  <2> QED BY <1>1, <2>1 DEF FramedBy, a
<1>8. FramedBy(k, n + a, e, L!FlattenSeq(Tail(fs)), L!FlattenSeq(Tail(cs)), Tail(fs), Tail(cs))
  <2>1. /\ Len(Tail(fs)) = Len(fs) - 1 /\ Len(Tail(cs)) = Len(cs) - 1
        /\ \A i \in 1..Len(Tail(fs)) : Tail(fs)[i] = fs[i + 1] /\ Tail(cs)[i] = cs[i + 1]
    BY <1>3, <1>4, HeadTailProperties
  <2>2. e = (n + a) + (a * (Len(fs) - 1))
    <3>1. e = n + (a * Len(fs))
      BY <1>1 DEF FramedBy, a
    <3>2. a \in Int /\ a * (Len(fs) - 1) = (a * Len(fs)) - (a * 1) /\ a * Len(fs) \in Int
      <4>1. a \in Int /\ Len(fs) \in Int /\ 1 \in Int
        BY <1>2, <1>4
      <4> QED BY <4>1, Distributes
    <3> DEFINE x == a * Len(fs)
               y == a * (Len(fs) - 1)
    <3>3. e = n + x /\ y = x - (a * 1) /\ x \in Int
      BY <3>1, <3>2
    <3> HIDE DEF x, y
    <3>4. e = (n + a) + y
      BY <3>2, <3>3
    <3> QED BY <3>4 DEF y
  <2>3. ASSUME NEW i \in 1..Len(Tail(fs))
        PROVE  Sits(k, (n + a) + (a * (i - 1)), Tail(fs)[i], Tail(cs)[i])
    <3>1. i + 1 \in 1..Len(fs) /\ n + (a * ((i + 1) - 1)) = (n + a) + (a * (i - 1))
      BY <1>2, <1>4, <2>1
    <3>2. Sits(k, n + (a * ((i + 1) - 1)), fs[i + 1], cs[i + 1])
      BY <1>1, <3>1, Zenon DEF FramedBy, a
    <3> QED BY <2>1, <3>1, <3>2
  <2> QED BY <1>4, <2>1, <2>2, <2>3 DEF FramedBy, a
<1>9. Framed(k, n + a, e, L!FlattenSeq(Tail(fs)), L!FlattenSeq(Tail(cs)))
  BY <1>5, <1>8, Zenon DEF Framed
<1> QED BY <1>5, <1>6, <1>7, <1>9, Zenon DEF a

(* Frames, and more of them.                                               *)
LEMMA FramedJoin ==
  ASSUME NEW k, NEW n \in Nat, NEW m, NEW e, NEW b, NEW p, NEW b2, NEW p2,
         Framed(k, n, m, b, p), Framed(k, m, e, b2, p2)
  PROVE  Framed(k, n, e, b \o b2, p \o p2)
<1>1. PICK fs \in Seq(Seq(Word)), cs \in Seq(Seq(Byte)) : FramedBy(k, n, m, b, p, fs, cs)
  BY DEF Framed
<1>2. PICK gs \in Seq(Seq(Word)), ds \in Seq(Seq(Byte)) : FramedBy(k, m, e, b2, p2, gs, ds)
  BY DEF Framed
<1> DEFINE a == L!Advance(k)
           hs == fs \o gs
           es == cs \o ds
<1>3. a = 0 \/ a = 1 \/ a = 2
  BY AdvanceIs
<1> HIDE DEF a
<1>4. /\ Len(fs) \in Nat /\ Len(gs) \in Nat /\ Len(cs) = Len(fs) /\ Len(ds) = Len(gs)
      /\ m = n + (a * Len(fs)) /\ e = m + (a * Len(gs))
  BY <1>1, <1>2 DEF FramedBy, a
<1>5. /\ hs \in Seq(Seq(Word)) /\ Len(hs) = Len(fs) + Len(gs)
      /\ \A i \in 1..(Len(fs) + Len(gs)) : hs[i] = IF i <= Len(fs) THEN fs[i] ELSE gs[i - Len(fs)]
  BY ConcatProperties
<1>6. /\ es \in Seq(Seq(Byte)) /\ Len(es) = Len(cs) + Len(ds)
      /\ \A i \in 1..(Len(cs) + Len(ds)) : es[i] = IF i <= Len(cs) THEN cs[i] ELSE ds[i - Len(cs)]
  BY ConcatProperties
<1>7. L!FlattenSeq(hs) = b \o b2 /\ L!FlattenSeq(es) = p \o p2
  BY <1>1, <1>2, FlattenConcat, SameFlatten DEF FramedBy
<1> HIDE DEF hs, es
<1>8. e = n + (a * Len(hs))
  <2>1. a \in Int
    BY <1>3
  <2> DEFINE x == a * Len(fs)
             y == a * Len(gs)
  <2>2. a * Len(hs) = x + y /\ x \in Int /\ y \in Int
    BY <1>4, <1>5, <2>1, Distributes
  <2>3. m = n + x /\ e = m + y
    BY <1>4
  <2> HIDE DEF x, y
  <2> QED BY <2>2, <2>3
<1>9. ASSUME NEW i \in 1..Len(hs)
      PROVE  Sits(k, n + (a * (i - 1)), hs[i], es[i])
  <2>1. CASE i <= Len(fs)
    <3>1. i \in 1..Len(fs) /\ hs[i] = fs[i] /\ es[i] = cs[i]
      BY <1>4, <1>5, <1>6, <2>1
    <3> QED BY <1>1, <3>1 DEF FramedBy, a
  <2>2. CASE ~(i <= Len(fs))
    <3> DEFINE j == i - Len(fs)
    <3>1. j \in 1..Len(gs) /\ hs[i] = gs[j] /\ es[i] = ds[j]
      <4>1. i \in 1..(Len(fs) + Len(gs)) /\ i \in 1..(Len(cs) + Len(ds)) /\ ~(i <= Len(cs))
        BY <1>4, <1>5, <2>2
      <4>2. hs[i] = gs[i - Len(fs)] /\ es[i] = ds[i - Len(cs)]
        BY <1>5, <1>6, <2>2, <4>1, Zenon
      <4> QED BY <1>4, <2>2, <4>1, <4>2
    <3>2. n + (a * (i - 1)) = m + (a * (j - 1))
      <4>1. a \in Int /\ i - 1 \in Int /\ j - 1 = (i - 1) - Len(fs)
        BY <1>3, <1>4, <1>5
      <4> DEFINE x == a * Len(fs)
                 y == a * (i - 1)
                 z == a * (j - 1)
      <4>2. z = y - x /\ x \in Int /\ y \in Int /\ m = n + x
        BY <1>4, <4>1, Distributes
      <4> HIDE DEF x, y, z
      <4>3. n + y = m + z
        BY <4>2
      <4> QED BY <4>3 DEF y, z
    <3> HIDE DEF j
    <3>3. Sits(k, m + (a * (j - 1)), gs[j], ds[j])
      BY <1>2, <3>1 DEF FramedBy, a
    <3> QED BY <3>1, <3>2, <3>3
  <2> QED BY <2>1, <2>2
<1>10. FramedBy(k, n, e, b \o b2, p \o p2, hs, es)
  BY <1>4, <1>5, <1>6, <1>7, <1>8, <1>9 DEF FramedBy, a
<1> QED BY <1>5, <1>6, <1>10, Zenon DEF Framed

-----------------------------------------------------------------------------
(***************************************************************************)
(* A decoder of frames: where it stands, and its loop.                     *)
(***************************************************************************)
Shape(s) == [buf |-> s.buf, n |-> s.n, out |-> s.out, ok |-> s.ok, torn |-> s.torn] = s

(* s has delivered the start of p, and what is buffered and under way      *)
(* carries the rest of it.                                                 *)
Tells(k, s, e, rest, p) ==
  /\ s.torn = FALSE /\ s.ok = TRUE /\ s.buf \in Seq(Word) /\ s.n \in Nat /\ s.out \in Seq(Byte)
  /\ \E p2 \in Seq(Byte) : Framed(k, s.n, e, s.buf \o rest, p2) /\ s.out \o p2 = p

(* No decoder takes a frame from an empty buffer.                          *)
LEMMA SizeEmpty == \A k, n : L!Size(k, n, <<>>) = 0
BY DEF L!Size

(* A decoder whose verdict alone changes.                                  *)
LEMMA ShapeExcept ==
  ASSUME NEW s, Shape(s), NEW x
  PROVE  [s EXCEPT !.ok = x] = [buf |-> s.buf, n |-> s.n, out |-> s.out, ok |-> x, torn |-> s.torn]
BY DEF Shape

(* A decoder that took a torn frame stays torn.                            *)
LEMMA StepTorn ==
  ASSUME NEW k, NEW s, Shape(s), s.torn = TRUE
  PROVE  Shape(L!Step(k, s)) /\ L!Step(k, s).torn = TRUE
<1> DEFINE size == L!Size(k, s.n, s.buf)
           f    == SubSeq(s.buf, 1, L!Upper(size, Len(s.buf)))
<1>1. L!Step(k, s) = IF ~s.ok \/ size = 0 THEN s
                     ELSE IF ~L!Sound(k, s.n, f) THEN [s EXCEPT !.ok = FALSE]
                     ELSE [buf |-> L!After(s.buf, Len(f)), n |-> s.n + L!Advance(k),
                           out |-> s.out \o L!Carried(k, s.n, f), ok |-> TRUE,
                           torn |-> s.torn \/ (k = "ticket" /\ Len(f) < size)]
  BY DEF L!Step
<1> HIDE DEF f, size
<1>2. Shape([s EXCEPT !.ok = FALSE]) /\ [s EXCEPT !.ok = FALSE].torn = TRUE
  <2>1. [s EXCEPT !.ok = FALSE] = [buf |-> s.buf, n |-> s.n, out |-> s.out, ok |-> FALSE, torn |-> s.torn]
    BY ShapeExcept
  <2> QED BY <2>1 DEF Shape
<1> DEFINE v == s.torn \/ (k = "ticket" /\ Len(f) < size)
           z == [buf |-> L!After(s.buf, Len(f)), n |-> s.n + L!Advance(k), out |-> s.out \o L!Carried(k, s.n, f),
                 ok |-> TRUE, torn |-> v]
<1>3. L!Step(k, s) = s \/ L!Step(k, s) = [s EXCEPT !.ok = FALSE] \/ L!Step(k, s) = z
  BY <1>1, Zenon
<1>4. v = TRUE
  OBVIOUS
<1> HIDE DEF v
<1>5. Shape(z) /\ z.torn = v
  BY DEF Shape
<1> HIDE DEF z
<1> QED BY <1>2, <1>3, <1>4, <1>5

(* A step of the decoder takes one whole frame of those under way, or a    *)
(* torn one.                                                               *)
LEMMA StepTells ==
  ASSUME NEW k, NEW s, Shape(s), NEW e, NEW rest \in Seq(Word), NEW p, Tells(k, s, e, rest, p),
         L!Size(k, s.n, s.buf) # 0
  PROVE  LET z == L!Step(k, s)
         IN Shape(z) /\ (z.torn = TRUE \/ (Tells(k, z, e, rest, p) /\ Len(z.buf) < Len(s.buf)))
<1> DEFINE size == L!Size(k, s.n, s.buf)
           a    == L!Advance(k)
<1>1. PICK p1 \in Seq(Byte) : Framed(k, s.n, e, s.buf \o rest, p1) /\ s.out \o p1 = p
  BY DEF Tells
<1>2. s.torn = FALSE /\ s.ok = TRUE /\ s.buf \in Seq(Word) /\ s.n \in Nat /\ s.out \in Seq(Byte)
  BY DEF Tells
<1>3. s.buf # <<>> /\ s.buf \o rest # <<>>
  <2>1. s.buf # <<>>
    BY SizeEmpty
  <2> QED BY <1>2, <2>1, ConcatEqualIffEmpty
<1>4. PICK f \in Seq(Word), c \in Seq(Byte), b2 \in Seq(Word), p2 \in Seq(Byte) :
        /\ Sits(k, s.n, f, c) /\ s.buf \o rest = f \o b2 /\ c \o p2 = p1
        /\ Framed(k, s.n + a, e, b2, p2)
  <2> DEFINE b == s.buf \o rest
             m == s.n
  <2>1. m \in Nat /\ b # <<>> /\ Framed(k, m, e, b, p1)
    BY <1>1, <1>2, <1>3
  <2> HIDE DEF b, m, a
  <2>2. \E f \in Seq(Word), c \in Seq(Byte), b2 \in Seq(Word), p2 \in Seq(Byte) :
           /\ Sits(k, m, f, c) /\ f \o b2 = b /\ c \o p2 = p1
           /\ Framed(k, m + L!Advance(k), e, b2, p2)
    <3>1. m \in Nat
      BY <2>1
    <3> QED BY <2>1, <3>1, FramedFirst
  <2> QED BY <2>2 DEF b, m, a
<1>5. Len(s.buf) \in Nat /\ Len(f) \in Nat
  BY <1>2, LenProperties
<1>6. CASE Len(s.buf) >= Len(f)
  <2>1. PICK t \in Seq(Word) : /\ f \o t = s.buf /\ t \o rest = b2
                              /\ L!After(s.buf, Len(f)) = t /\ SubSeq(s.buf, 1, Len(f)) = f
    <3> DEFINE b == s.buf
    <3>1. b \in Seq(Word) /\ b \o rest = f \o b2 /\ Len(b) >= Len(f)
      BY <1>2, <1>4, <1>6
    <3> HIDE DEF b
    <3> DEFINE t == L!After(b, Len(f))
    <3>2. t \in Seq(Word) /\ f \o t = b /\ t \o rest = b2 /\ SubSeq(b, 1, Len(f)) = f
      BY <1>4, <3>1, WordOverlap, Zenon
    <3> QED BY <3>2, Zenon DEF b
  <2>2. size = Len(f) /\ L!Sound(k, s.n, f) /\ L!Carried(k, s.n, f) = c
    <3>1. L!Size(k, s.n, f \o t) = Len(f)
      BY <1>4 DEF Sits
    <3> QED BY <1>4, <2>1, <3>1, Zenon DEF Sits
  <2>3. L!Upper(size, Len(s.buf)) = Len(f)
    BY <1>5, <1>6, <2>2 DEF L!Upper
  <2> DEFINE z == [buf |-> t, n |-> s.n + a, out |-> s.out \o c, ok |-> TRUE, torn |-> FALSE]
  <2>4. L!Step(k, s) = z
    <3>1. size # 0 /\ L!Upper(size, Len(s.buf)) = Len(f) /\ ~(Len(f) < size)
      BY <1>5, <2>2, <2>3
    <3>2. L!Step(k, s) = [buf |-> t, n |-> s.n + a, out |-> s.out \o c, ok |-> TRUE,
                          torn |-> s.torn \/ (k = "ticket" /\ Len(f) < size)]
      BY <1>2, <2>1, <2>2, <3>1 DEF L!Step
    <3>3. (s.torn \/ (k = "ticket" /\ Len(f) < size)) = FALSE
      BY <1>2, <3>1
    <3> HIDE DEF size, a
    <3> QED BY <3>2, <3>3, Zenon
  <2>5. Tells(k, z, e, rest, p)
    <3>1. a \in Nat
      <4>1. a = 0 \/ a = 1 \/ a = 2
        BY AdvanceIs, Zenon
      <4> HIDE DEF a
      <4> QED BY <4>1
    <3>2. s.out \o c \in Seq(Byte) /\ (s.out \o c) \o p2 = p
      <4> DEFINE o == s.out
      <4>1. o \in Seq(Byte) /\ o \o p1 = p /\ c \o p2 = p1
        BY <1>1, <1>2, <1>4
      <4> HIDE DEF o
      <4>2. Extends(o, c, p2)
        BY <4>1, DeliveredNext, Zenon
      <4> QED BY <4>1, <4>2 DEF o, Extends
    <3>3. z.n = s.n + a /\ z.n \in Nat /\ z.buf \o rest = b2
      <4> HIDE DEF a
      <4>1. z.n = s.n + a /\ z.buf = t
        OBVIOUS
      <4>2. s.n \in Nat /\ t \o rest = b2
        BY <1>2, <2>1
      <4> HIDE DEF z
      <4> QED BY <3>1, <4>1, <4>2
    <3>4. z.torn = FALSE /\ z.ok = TRUE /\ z.buf \in Seq(Word) /\ z.out = s.out \o c
      OBVIOUS
    <3> HIDE DEF z, a
    <3>5. Framed(k, z.n, e, z.buf \o rest, p2) /\ z.out \o p2 = p /\ z.out \in Seq(Byte)
      BY <1>4, <3>2, <3>3, <3>4
    <3> QED BY <1>4, <3>3, <3>4, <3>5 DEF Tells
  <2>6. Len(t) < Len(s.buf)
    <3>1. Len(s.buf) = Len(f) + Len(t) /\ Len(t) \in Nat
      BY <2>1, ConcatProperties, LenProperties
    <3>2. Len(f) # 0
      BY <1>4, EmptySeq DEF Sits
    <3> QED BY <1>5, <3>1, <3>2
  <2>7. Shape(z) /\ z.buf = t
    BY DEF Shape
  <2> HIDE DEF z
  <2> QED BY <2>4, <2>5, <2>6, <2>7
<1>7. CASE ~(Len(s.buf) >= Len(f))
  <2>1. PICK t \in Seq(Word) : s.buf \o t = f
    <3> DEFINE b == s.buf
    <3>1. b \in Seq(Word) /\ Len(f) >= Len(b) /\ f \o b2 = b \o rest
      BY <1>2, <1>4, <1>5, <1>7
    <3> HIDE DEF b
    <3> DEFINE t == L!After(f, Len(b))
    <3>2. t \in Seq(Word) /\ b \o t = f
      BY <1>4, <3>1, WordOverlap
    <3> QED BY <3>2 DEF b
  <2>2. t # <<>>
    <3>1. t = <<>> => f = s.buf
      BY <1>2, <2>1, ConcatEmptySeq
    <3> QED BY <1>5, <1>7, <3>1
  <2>3. TakenTorn(k, s.n, s.buf)
    BY <1>2, <1>4, <2>1, <2>2 DEF Sits
  <2>4. L!Upper(size, Len(s.buf)) = Len(s.buf) /\ SubSeq(s.buf, 1, Len(s.buf)) = s.buf
    BY <1>2, <1>5, <2>3, SubSeqFull DEF L!Upper, TakenTorn
  <2>5. L!Step(k, s) = [buf |-> L!After(s.buf, Len(s.buf)), n |-> s.n + a,
                        out |-> s.out \o L!Carried(k, s.n, s.buf), ok |-> TRUE, torn |-> TRUE]
    BY <1>2, <1>5, <2>3, <2>4 DEF L!Step, TakenTorn
  <2>6. Shape(L!Step(k, s)) /\ L!Step(k, s).torn = TRUE
    BY <2>5 DEF Shape
  <2> QED BY <2>6
<1> QED BY <1>6, <1>7

(* The function that the loop defines by its own values.                   *)
IsLoop(g, k, x, n) == g = [i \in 0..n |-> IF i = 0 THEN x ELSE L!Step(k, g[i - 1])]

(* The loop of the decoder is a function of the number of its steps.       *)
LEMMA LoopExists ==
  ASSUME NEW k, NEW x, NEW n \in Nat
  PROVE  \E g : IsLoop(g, k, x, n)
<1> DEFINE T == {m \in Nat : \E g : IsLoop(g, k, x, m)}
<1>1. 0 \in T
  <2> DEFINE g == [i \in 0..0 |-> x]
  <2>1. g = [i \in 0..0 |-> IF i = 0 THEN x ELSE L!Step(k, g[i - 1])]
    <3>1. \A i \in 0..0 : i = 0
      OBVIOUS
    <3> QED BY <3>1
  <2> HIDE DEF g
  <2> QED BY <2>1 DEF IsLoop
<1>2. ASSUME NEW m \in T PROVE m + 1 \in T
  <2>1. m \in Nat /\ m + 1 \in Nat
    OBVIOUS
  <2>2. PICK g : IsLoop(g, k, x, m)
    BY Zenon
  <2> DEFINE h == [i \in 0..(m + 1) |-> IF i <= m THEN g[i] ELSE L!Step(k, g[m])]
  <2>3. \A i \in 0..m : g[i] = IF i = 0 THEN x ELSE L!Step(k, g[i - 1])
    BY <2>2 DEF IsLoop
  <2>4. ASSUME NEW i \in 0..(m + 1) PROVE h[i] = IF i = 0 THEN x ELSE L!Step(k, h[i - 1])
    <3>1. CASE i \in 0..m
      <4>1. i # 0 => i - 1 \in 0..m /\ i - 1 <= m /\ i - 1 \in 0..(m + 1)
        BY <2>1, <3>1
      <4>2. h[i] = g[i] /\ (i # 0 => h[i - 1] = g[i - 1])
        BY <2>1, <3>1, <4>1
      <4> HIDE DEF h
      <4> QED BY <2>3, <3>1, <4>2
    <3>2. CASE i = m + 1
      <4>1. i # 0 /\ i - 1 = m /\ m \in 0..(m + 1) /\ ~(i <= m)
        BY <2>1, <3>2
      <4>2. h[i] = L!Step(k, g[m]) /\ h[m] = g[m]
        BY <2>1, <4>1
      <4> HIDE DEF h
      <4> QED BY <4>1, <4>2
    <3> QED BY <2>1, <3>1, <3>2
  <2>5. h = [i \in 0..(m + 1) |-> h[i]]
    OBVIOUS
  <2> HIDE DEF h
  <2>6. IsLoop(h, k, x, m + 1)
    BY <2>4, <2>5 DEF IsLoop
  <2> QED BY <2>1, <2>6
<1> HIDE DEF T
<1>3. T = Nat
  <2>1. T \subseteq Nat
    BY DEF T
  <2> QED BY <1>1, <1>2, <2>1, Induction
<1> QED BY <1>3 DEF T

(* The loop ends where another round would change nothing.                 *)
LEMMA LoopTells ==
  ASSUME NEW k, NEW x, Shape(x), NEW e, NEW rest \in Seq(Word), NEW p, Tells(k, x, e, rest, p),
         NEW run, IsLoop(run, k, x, Len(x.buf))
  PROVE  LET z == run[Len(x.buf)]
         IN z.torn = TRUE \/ (Tells(k, z, e, rest, p) /\ L!Size(k, z.n, z.buf) = 0)
<1> DEFINE n == Len(x.buf)
           Quick(z) == L!Size(k, z.n, z.buf) = 0
           Holds(m, z) == Shape(z) /\ (z.torn = TRUE \/ (Tells(k, z, e, rest, p) /\ (Quick(z) \/ Len(z.buf) <= n - m)))
           T == {m \in Nat : m <= n => Holds(m, run[m])}
<1>1. n \in Nat
  BY LenProperties DEF Tells
<1>2. \A i \in 0..n : run[i] = IF i = 0 THEN x ELSE L!Step(k, run[i - 1])
  BY DEF IsLoop
<1> HIDE DEF Quick
<1>3. 0 \in T
  <2>1. run[0] = x /\ Len(x.buf) <= n - 0
    BY <1>1, <1>2
  <2> HIDE DEF n
  <2> QED BY <2>1
<1> HIDE DEF n
<1>4. ASSUME NEW m \in T PROVE m + 1 \in T
  <2>1. m \in Nat /\ m + 1 \in Nat
    OBVIOUS
  <2> SUFFICES ASSUME m + 1 <= n PROVE Holds(m + 1, run[m + 1])
    BY <2>1
  <2>2. Holds(m, run[m])
    BY <1>1, <2>1
  <2>3. run[m + 1] = L!Step(k, run[m])
    <3>1. m + 1 \in 0..n /\ m + 1 # 0 /\ (m + 1) - 1 = m
      BY <1>1, <2>1
    <3> QED BY <1>2, <3>1
  <2> DEFINE y == run[m]
             z == L!Step(k, y)
  <2>4. CASE y.torn = TRUE
    BY <2>2, <2>3, <2>4, StepTorn
  <2>5. CASE y.torn # TRUE /\ Quick(y)
    <3>1. z = y
      BY <2>5 DEF L!Step, Quick
    <3> QED BY <2>2, <2>3, <2>5, <3>1
  <2>6. CASE y.torn # TRUE /\ ~Quick(y)
    <3>1. Tells(k, y, e, rest, p) /\ Len(y.buf) <= n - m /\ Shape(y)
      BY <2>2, <2>6
    <3>2. L!Size(k, y.n, y.buf) # 0
      BY <2>6 DEF Quick
    <3> HIDE DEF y
    <3>3. Shape(z) /\ (z.torn = TRUE \/ (Tells(k, z, e, rest, p) /\ Len(z.buf) < Len(y.buf)))
      BY <3>1, <3>2, StepTells
    <3> HIDE DEF z
    <3>4. CASE z.torn = TRUE
      BY <2>3, <3>3, <3>4 DEF z, y
    <3>5. CASE Tells(k, z, e, rest, p) /\ Len(z.buf) < Len(y.buf)
      <4>1. Len(z.buf) \in Nat /\ Len(y.buf) \in Nat
        BY <3>1, <3>5, LenProperties DEF Tells
      <4>2. Len(z.buf) <= n - (m + 1)
        BY <1>1, <2>1, <3>1, <3>5, <4>1
      <4> QED BY <2>3, <3>3, <3>5, <4>2 DEF z, y
    <3> QED BY <3>3, <3>4, <3>5
  <2> QED BY <2>4, <2>5, <2>6
<1> HIDE DEF T
<1>5. T = Nat
  <2>1. T \subseteq Nat
    BY DEF T
  <2> QED BY <1>3, <1>4, <2>1, Induction
<1>6. Holds(n, run[n])
  BY <1>1, <1>5 DEF T
<1> DEFINE z == run[n]
<1>7. CASE Tells(k, z, e, rest, p) /\ Len(z.buf) <= n - n
  <2>1. z.buf \in Seq(Word)
    BY <1>7 DEF Tells
  <2>2. Len(z.buf) \in Nat
    BY <2>1, LenProperties
  <2>3. z.buf = <<>>
    BY <1>1, <1>7, <2>1, <2>2, EmptySeq
  <2> QED BY <1>7, <2>3, SizeEmpty DEF n
<1> QED BY <1>6, <1>7 DEF Quick, n

(* The decoder takes every whole frame that has arrived, and none after    *)
(* it.                                                                     *)
LEMMA DecodeFramed ==
  ASSUME NEW k \in Framer, NEW d, d.buf \in Seq(Word), d.n \in Nat, NEW data \in Seq(Word), NEW rest \in Seq(Word),
         NEW e, NEW p \in Seq(Byte), Framed(k, d.n, e, d.buf \o (data \o rest), p)
  PROVE  LET z == L!Decode(k, d, data)
         IN z.torn = TRUE \/ (Tells(k, z, e, rest, p) /\ L!Size(k, z.n, z.buf) = 0)
<1> DEFINE all == d.buf \o data
           x   == L!Read(all, d.n, <<>>)
           run == CHOOSE g : g = [i \in 0..Len(all) |-> IF i = 0 THEN x ELSE L!Step(k, g[i - 1])]
<1>1. all \in Seq(Word) /\ Len(all) \in Nat /\ d.buf \o (data \o rest) = all \o rest
  <2> DEFINE b == d.buf
  <2>1. b \in Seq(Word)
    OBVIOUS
  <2> HIDE DEF b
  <2>2. (b \o data) \o rest = b \o (data \o rest) /\ b \o data \in Seq(Word)
    BY <2>1, WordAssoc
  <2> QED BY <2>2, LenProperties DEF b
<1>2. L!Decode(k, d, data) = run[Len(all)]
  <2>1. k \notin {"stream", "rc4"} /\ k # "iv"
    BY DEF Framer
  <2> QED BY <2>1 DEF L!Decode
<1>3. IsLoop(run, k, x, Len(all))
  <2> HIDE DEF x, all
  <2>1. \E g : IsLoop(g, k, x, Len(all))
    BY <1>1, LoopExists
  <2> QED BY <2>1 DEF IsLoop
<1>4. x = [buf |-> all, n |-> d.n, out |-> <<>>, ok |-> TRUE, torn |-> FALSE] /\ Shape(x) /\ x.buf = all
  BY DEF Shape, L!Read
<1>5. Tells(k, x, e, rest, p)
  <2>1. <<>> \o p = p /\ <<>> \in Seq(Byte)
    BY ConcatEmptySeq, EmptySeq
  <2> HIDE DEF all, x
  <2> QED BY <1>1, <1>4, <2>1 DEF Tells
<1> HIDE DEF run, x, all
<1> QED BY <1>2, <1>3, <1>4, <1>5, LoopTells

-----------------------------------------------------------------------------
(***************************************************************************)
(* The primitives: bytes stay bytes, and decrypting undoes encrypting.     *)
(***************************************************************************)
(* What was encrypted is decrypted to what it was.                         *)
LEMMA Decrypts ==
  ASSUME NEW x \in Byte, NEW m \in Int
  PROVE  (x + m) % L!Modulus \in Byte /\ (((x + m) % L!Modulus) - m) % L!Modulus = x
<1>1. x \in 0..198
  BY DEF Byte, L!Modulus
<1>2. (x + m) % 199 \in 0..198 /\ (((x + m) % 199) - m) % 199 = x
  BY <1>1
<1>3. Byte = 0..198 /\ L!Modulus = 199
  BY DEF Byte, L!Modulus
<1> QED BY <1>2, <1>3

(* A sum of numbers is a number.                                           *)
IsSum(g, s, m) == g = [i \in 0..m |-> IF i = 0 THEN 0 ELSE g[i - 1] + s[i]]

(* The checksum of bytes is a number.                                      *)
LEMMA TotalType ==
  ASSUME NEW s \in Seq(Byte)
  PROVE  L!Total(s) \in Int
<1> DEFINE T == {m \in Nat : m <= Len(s) => \E g \in [0..m -> Int] : IsSum(g, s, m)}
<1>0. Len(s) \in Nat /\ \A i \in 1..Len(s) : s[i] \in Int
  <2>1. Len(s) \in Nat /\ \A i \in 1..Len(s) : s[i] \in Byte
    BY ElementOfSeq, LenProperties
  <2> QED BY <2>1 DEF Byte
<1>1. 0 \in T
  <2> DEFINE g == [i \in 0..0 |-> 0]
  <2>1. g = [i \in 0..0 |-> IF i = 0 THEN 0 ELSE g[i - 1] + s[i]] /\ g \in [0..0 -> Int]
    <3>1. \A i \in 0..0 : i = 0
      OBVIOUS
    <3> QED BY <3>1
  <2> HIDE DEF g
  <2> QED BY <2>1 DEF IsSum
<1>2. ASSUME NEW m \in T PROVE m + 1 \in T
  <2>1. m \in Nat /\ m + 1 \in Nat
    OBVIOUS
  <2> SUFFICES ASSUME m + 1 <= Len(s) PROVE \E g \in [0..(m + 1) -> Int] : IsSum(g, s, m + 1)
    BY <2>1
  <2>2. PICK g \in [0..m -> Int] : IsSum(g, s, m)
    BY <1>0, <2>1
  <2> DEFINE h == [i \in 0..(m + 1) |-> IF i <= m THEN g[i] ELSE g[m] + s[m + 1]]
  <2>3. \A i \in 0..m : g[i] = IF i = 0 THEN 0 ELSE g[i - 1] + s[i]
    BY <2>2 DEF IsSum
  <2>4. ASSUME NEW i \in 0..(m + 1) PROVE h[i] = IF i = 0 THEN 0 ELSE h[i - 1] + s[i]
    <3>1. CASE i \in 0..m
      <4>1. i # 0 => i - 1 \in 0..m /\ i - 1 <= m /\ i - 1 \in 0..(m + 1)
        BY <2>1, <3>1
      <4>2. h[i] = g[i] /\ (i # 0 => h[i - 1] = g[i - 1])
        BY <2>1, <3>1, <4>1
      <4> HIDE DEF h
      <4> QED BY <2>3, <3>1, <4>2
    <3>2. CASE i = m + 1
      <4>1. i # 0 /\ i - 1 = m /\ m \in 0..(m + 1) /\ ~(i <= m)
        BY <2>1, <3>2
      <4>2. h[i] = g[m] + s[m + 1] /\ h[m] = g[m]
        BY <2>1, <4>1
      <4> HIDE DEF h
      <4> QED BY <3>2, <4>1, <4>2
    <3> QED BY <2>1, <3>1, <3>2
  <2>5. h = [i \in 0..(m + 1) |-> h[i]] /\ h \in [0..(m + 1) -> Int]
    <3>1. g[m] + s[m + 1] \in Int
      BY <1>0, <2>1, <2>2
    <3> QED BY <2>1, <2>2, <3>1
  <2> HIDE DEF h
  <2>6. IsSum(h, s, m + 1)
    BY <2>4, <2>5 DEF IsSum
  <2> QED BY <2>5, <2>6
<1> HIDE DEF T
<1>3. T = Nat
  <2>1. T \subseteq Nat
    BY DEF T
  <2> QED BY <1>1, <1>2, <2>1, Induction
<1> DEFINE n   == Len(s)
           sum == CHOOSE g : g = [i \in 0..n |-> IF i = 0 THEN 0 ELSE g[i - 1] + s[i]]
<1>4. PICK g \in [0..n -> Int] : IsSum(g, s, n)
  BY <1>0, <1>3 DEF T
<1>5. L!Total(s) = sum[n]
  BY DEF L!Total
<1>6. IsSum(sum, s, n)
  BY <1>4 DEF IsSum
<1> HIDE DEF sum, n
<1> DEFINE U == {m \in Nat : m <= n => sum[m] \in Int}
<1>7. \A i \in 0..n : sum[i] = IF i = 0 THEN 0 ELSE sum[i - 1] + s[i]
  BY <1>6 DEF IsSum
<1>8. 0 \in U
  BY <1>0, <1>7 DEF n
<1>9. ASSUME NEW m \in U PROVE m + 1 \in U
  <2>1. m + 1 <= n => m \in 0..n /\ m + 1 \in 0..n /\ m + 1 # 0 /\ (m + 1) - 1 = m /\ m + 1 \in 1..n
    BY <1>0 DEF n
  <2> QED BY <1>0, <1>7, <2>1 DEF n
<1> HIDE DEF U
<1>10. U = Nat
  <2>1. U \subseteq Nat
    BY DEF U
  <2> QED BY <1>8, <1>9, <2>1, Induction
<1> QED BY <1>0, <1>5, <1>10 DEF U, n

(* The tag of a frame is a byte.                                           *)
LEMMA MacType ==
  ASSUME NEW n \in Nat, NEW s \in Seq(Byte)
  PROVE  L!Mac(n, s) \in Byte
<1>1. L!Total(s) \in Int
  BY TotalType
<1>2. (100 + (17 * n) + L!Total(s)) % 199 \in 0..198
  <2> DEFINE y == 100 + (17 * n) + L!Total(s)
  <2>1. y \in Int
    BY <1>1
  <2> HIDE DEF y
  <2>2. y % 199 \in 0..198
    BY <2>1
  <2> QED BY <2>2 DEF y
<1>3. Byte = 0..198 /\ L!Modulus = 199
  BY DEF Byte, L!Modulus
<1> QED BY <1>2, <1>3 DEF L!Mac

(* The key stream, and where it stands after the first of two pieces.      *)
LEMMA CryptIs ==
  ASSUME NEW n \in Nat, NEW s \in Seq(Byte)
  PROVE  /\ L!Crypt(n, s) \in Seq(Byte) /\ Len(L!Crypt(n, s)) = Len(s)
         /\ L!Decrypt(n, L!Crypt(n, s)) = s
<1> DEFINE m(i) == 7 * (n + i)
           c == L!Crypt(n, s)
           d == L!Decrypt(n, c)
<1>1. Len(s) \in Nat /\ DOMAIN s = 1..Len(s)
  BY LenProperties
<1>2. ASSUME NEW i \in 1..Len(s)
      PROVE  m(i) \in Int /\ s[i] \in Byte /\ (s[i] + m(i)) % L!Modulus \in Byte
             /\ (((s[i] + m(i)) % L!Modulus) - m(i)) % L!Modulus = s[i]
  <2>1. m(i) \in Int
    OBVIOUS
  <2>2. s[i] \in Byte
    BY ElementOfSeq
  <2> HIDE DEF m
  <2> QED BY <2>1, <2>2, Decrypts
<1>3. c = [i \in 1..Len(s) |-> (s[i] + m(i)) % L!Modulus]
  BY <1>1 DEF L!Crypt
<1> HIDE DEF m
<1>4. c \in Seq(Byte) /\ Len(c) = Len(s) /\ DOMAIN c = 1..Len(s)
  <2> HIDE DEF c
  <2> QED BY <1>1, <1>2, <1>3
<1>5. d = [i \in 1..Len(s) |-> (c[i] - m(i)) % L!Modulus]
  <2> HIDE DEF c
  <2> QED BY <1>4 DEF L!Decrypt, m
<1>6. ASSUME NEW i \in 1..Len(s) PROVE d[i] = s[i]
  <2>1. c[i] = (s[i] + m(i)) % L!Modulus
    <3> HIDE DEF c
    <3> QED BY <1>3
  <2>2. d[i] = (c[i] - m(i)) % L!Modulus
    <3> HIDE DEF d, c
    <3> QED BY <1>5
  <2> QED BY <1>2, <2>1, <2>2
<1>7. d = s
  <2>1. s = [i \in 1..Len(s) |-> s[i]]
    BY <1>1, LenProperties
  <2>2. d = [i \in 1..Len(s) |-> d[i]]
    <3> HIDE DEF d, c
    <3> QED BY <1>5
  <2> HIDE DEF d
  <2> QED BY <1>6, <2>1, <2>2
<1> QED BY <1>4, <1>7

(* Encryption goes on where it stopped.                                    *)
LEMMA CryptConcat ==
  ASSUME NEW n \in Nat, NEW s \in Seq(Byte), NEW t \in Seq(Byte)
  PROVE  L!Crypt(n, s \o t) = L!Crypt(n, s) \o L!Crypt(n + Len(s), t)
<1> DEFINE c == L!Crypt(n, s)
           e == L!Crypt(n + Len(s), t)
           b == L!Crypt(n, s \o t)
<1>1. Len(s) \in Nat /\ Len(t) \in Nat /\ n + Len(s) \in Nat /\ DOMAIN s = 1..Len(s) /\ DOMAIN t = 1..Len(t)
  BY LenProperties
<1>2. /\ s \o t \in Seq(Byte) /\ Len(s \o t) = Len(s) + Len(t)
      /\ \A i \in 1..(Len(s) + Len(t)) : (s \o t)[i] = IF i <= Len(s) THEN s[i] ELSE t[i - Len(s)]
  BY ConcatProperties
<1>3. /\ c \in Seq(Byte) /\ Len(c) = Len(s) /\ e \in Seq(Byte) /\ Len(e) = Len(t)
      /\ b \in Seq(Byte) /\ Len(b) = Len(s) + Len(t)
  BY <1>1, <1>2, CryptIs
<1>4. /\ \A i \in 1..Len(s) : c[i] = (s[i] + (7 * (n + i))) % L!Modulus
      /\ \A i \in 1..Len(t) : e[i] = (t[i] + (7 * ((n + Len(s)) + i))) % L!Modulus
  BY <1>1 DEF L!Crypt
<1>5. \A i \in 1..(Len(s) + Len(t)) : b[i] = ((s \o t)[i] + (7 * (n + i))) % L!Modulus
  <2>1. DOMAIN (s \o t) = 1..(Len(s) + Len(t))
    BY <1>2, LenProperties
  <2> QED BY <2>1 DEF L!Crypt
<1> HIDE DEF b, c, e
<1>6. /\ c \o e \in Seq(Byte) /\ Len(c \o e) = Len(s) + Len(t)
      /\ \A i \in 1..(Len(s) + Len(t)) : (c \o e)[i] = IF i <= Len(s) THEN c[i] ELSE e[i - Len(s)]
  BY <1>3, ConcatProperties
<1>7. ASSUME NEW i \in 1..(Len(s) + Len(t)) PROVE b[i] = (c \o e)[i]
  <2>1. CASE i <= Len(s)
    <3>1. i \in 1..Len(s)
      BY <1>1, <2>1
    <3> QED BY <1>2, <1>4, <1>5, <1>6, <2>1, <3>1
  <2>2. CASE ~(i <= Len(s))
    <3> DEFINE j == i - Len(s)
    <3>1. j \in 1..Len(t) /\ (n + Len(s)) + j = n + i
      BY <1>1, <2>2
    <3>2. (s \o t)[i] = t[j] /\ (c \o e)[i] = e[j]
      BY <1>2, <1>6, <2>2
    <3> HIDE DEF j
    <3>3. e[j] = (t[j] + (7 * ((n + Len(s)) + j))) % L!Modulus /\ b[i] = ((s \o t)[i] + (7 * (n + i))) % L!Modulus
      BY <1>4, <1>5, <3>1
    <3> QED BY <3>1, <3>2, <3>3
  <2> QED BY <2>1, <2>2
<1>8. b = c \o e
  BY <1>3, <1>6, <1>7, SeqEqual
<1> QED BY <1>8 DEF b, c, e

(* A sealed chunk.                                                         *)
LEMMA SealIs ==
  ASSUME NEW n \in Nat, NEW s \in Seq(Byte), NonceLimit \in Nat \ {0}
  PROVE  LET f == L!Seal(n, s)
         IN f \in Seq(Byte) /\ Len(f) = Len(s) + 1 /\ L!Unseal(n, f) = s /\ L!Sealed(n, f)
            /\ \A i \in 1..Len(s) : (f[i] - (11 * L!nonce(n))) % L!Modulus = s[i]
<1> DEFINE m == 11 * L!nonce(n)
           c == [i \in DOMAIN s |-> (s[i] + m) % L!Modulus]
           y == L!Mac(L!nonce(n), s)
           f == L!Seal(n, s)
           u == L!Unseal(n, f)
<1>1. Len(s) \in Nat /\ DOMAIN s = 1..Len(s)
  BY LenProperties
<1>2. L!nonce(n) \in Nat
  BY DEF L!nonce
<1>3. m \in Int /\ y \in Byte
  BY <1>2, MacType
<1>4. f = Append(c, y)
  BY DEF L!Seal
<1> HIDE DEF m, y
<1>5. ASSUME NEW i \in 1..Len(s)
      PROVE  (s[i] + m) % L!Modulus \in Byte /\ (((s[i] + m) % L!Modulus) - m) % L!Modulus = s[i]
  <2>1. s[i] \in Byte
    BY ElementOfSeq
  <2> QED BY <1>3, <2>1, Decrypts
<1>6. c \in Seq(Byte) /\ Len(c) = Len(s) /\ \A i \in 1..Len(s) : c[i] = (s[i] + m) % L!Modulus
  BY <1>1, <1>5
<1> HIDE DEF c, f
<1>7. /\ f \in Seq(Byte) /\ Len(f) = Len(s) + 1 /\ f[Len(s) + 1] = y
      /\ \A i \in 1..Len(s) : f[i] = (s[i] + m) % L!Modulus
  BY <1>3, <1>4, <1>6, AppendProperties
<1>8. \A i \in 1..Len(s) : (f[i] - m) % L!Modulus = s[i]
  BY <1>5, <1>7
<1>9. u = s
  <2>1. Len(f) - 1 = Len(s)
    BY <1>1, <1>7
  <2>2. u = [i \in 1..Len(s) |-> (f[i] - m) % L!Modulus]
    BY <2>1 DEF L!Unseal, m
  <2>3. s = [i \in 1..Len(s) |-> s[i]]
    BY <1>1, LenProperties
  <2> HIDE DEF u
  <2> QED BY <1>8, <2>2, <2>3
<1>10. L!Sealed(n, f)
  <2>1. L!Last(f) = y
    BY <1>1, <1>7 DEF L!Last
  <2> QED BY <1>9, <2>1 DEF L!Sealed, y, u
<1> QED BY <1>7, <1>8, <1>9, <1>10 DEF u, f, m

(* What a buffer holds while the frame f is at its head.                   *)
LEMMA Heads ==
  ASSUME NEW b \in Seq(Word), NEW t \in Seq(Word)
  PROVE  /\ b \o t \in Seq(Word) /\ Len(b) \in Nat /\ Len(t) \in Nat /\ Len(b \o t) = Len(b) + Len(t)
         /\ (t # <<>> => Len(t) # 0) /\ (Len(b) = 0 => b = <<>>)
         /\ \A i \in 1..Len(b) : (b \o t)[i] = b[i]
<1>1. Len(b) \in Nat /\ Len(t) \in Nat /\ (t # <<>> => Len(t) # 0) /\ (Len(b) = 0 => b = <<>>)
  BY EmptySeq
<1>2. b \o t \in Seq(Word) /\ Len(b \o t) = Len(b) + Len(t)
      /\ \A i \in 1..(Len(b) + Len(t)) : (b \o t)[i] = IF i <= Len(b) THEN b[i] ELSE t[i - Len(b)]
  BY ConcatProperties
<1> QED BY <1>1, <1>2

(* A decoder that reads the size from the first w bytes, and waits for the *)
(* whole.                                                                  *)
LEMMA SizesFromHead ==
  ASSUME NEW k, NEW n, NEW f \in Seq(Word), NEW w \in {1, 2}, w <= Len(f),
         \A b \in Seq(Word) : Len(b) < w => L!Size(k, n, b) = 0,
         \A b \in Seq(Word) : Len(b) >= w /\ (\A i \in 1..w : b[i] = f[i])
                                => L!Size(k, n, b) = IF Len(f) > Len(b) THEN 0 ELSE Len(f)
  PROVE  /\ \A t \in Seq(Word) : L!Size(k, n, f \o t) = Len(f)
         /\ \A b, t \in Seq(Word) : b \o t = f /\ t # <<>> => L!Size(k, n, b) = 0 \/ TakenTorn(k, n, b)
<1>1. ASSUME NEW t \in Seq(Word) PROVE L!Size(k, n, f \o t) = Len(f)
  <2> DEFINE b == f \o t
  <2>1. b \in Seq(Word) /\ Len(b) >= Len(f) /\ Len(f) \in Nat /\ \A i \in 1..w : b[i] = f[i]
    <3>1. /\ b \in Seq(Word) /\ Len(f) \in Nat /\ Len(t) \in Nat /\ Len(b) = Len(f) + Len(t)
          /\ \A i \in 1..Len(f) : b[i] = f[i]
      BY Heads
    <3> HIDE DEF b
    <3> QED BY <3>1
  <2> HIDE DEF b
  <2>2. Len(b) >= w /\ ~(Len(f) > Len(b))
    <3>1. Len(b) \in Nat
      BY <2>1, LenProperties
    <3> QED BY <2>1, <3>1
  <2>3. L!Size(k, n, b) = Len(f)
    BY <2>1, <2>2
  <2> QED BY <2>3 DEF b
<1>2. ASSUME NEW b \in Seq(Word), NEW t \in Seq(Word), b \o t = f, t # <<>> PROVE L!Size(k, n, b) = 0
  <2>1. Len(b) \in Nat /\ Len(t) \in Nat /\ Len(t) # 0 /\ Len(f) = Len(b) + Len(t)
        /\ \A i \in 1..Len(b) : f[i] = b[i]
    BY <1>2, Heads
  <2>2. CASE Len(b) < w
    BY <2>2
  <2>3. CASE ~(Len(b) < w)
    <3>1. Len(b) >= w /\ Len(f) > Len(b) /\ \A i \in 1..w : b[i] = f[i]
      BY <2>1, <2>3
    <3> QED BY <3>1
  <2> QED BY <2>2, <2>3
<1> QED BY <1>1, <1>2

-----------------------------------------------------------------------------
(***************************************************************************)
(* The frames of every layer: the decoder takes them as they were made.    *)
(***************************************************************************)
(* A header with data after it.                                            *)
LEMMA Made ==
  ASSUME NEW h \in Seq(Byte), NEW d \in Seq(Byte)
  PROVE  /\ h \o d \in Seq(Byte) /\ h \o d \in Seq(Word) /\ Len(h) \in Nat /\ Len(d) \in Nat
         /\ Len(h \o d) = Len(h) + Len(d)
         /\ SubSeq(h \o d, 1, Len(h)) = h /\ L!After(h \o d, Len(h)) = d
         /\ \A i \in 1..Len(h) : (h \o d)[i] = h[i]
<1>1. h \o d \in Seq(Byte) /\ h \in Seq(Word) /\ d \in Seq(Word)
  BY ByteConcat, BytesAreWords
<1> QED BY <1>1, WordParts, Heads

(* A sequence of words is empty when its length is 0.                      *)
LEMMA NotEmpty ==
  ASSUME NEW b \in Seq(Word)
  PROVE  Len(b) \in Nat /\ (b = <<>> <=> Len(b) = 0)
BY EmptySeq, LenProperties

(* Lengths up to 198 fit one byte of the model.                            *)
LEMMA ByteIs == \A x \in Nat : x <= 198 => x \in Byte
BY DEF Byte, L!Modulus

(* A chunk of one-time authentication. (socks.py)                          *)
LEMMA OtaFrame ==
  ASSUME NEW n \in Nat, NEW d \in Seq(Byte), Len(d) <= 198, NEW pad
  PROVE  LET f == L!Frame("ota", n, d, pad)
         IN f \in Seq(Byte) /\ Sits("ota", n, f, d)
<1> DEFINE m == L!Mac(n, d)
           h == <<Len(d), m>>
           f == h \o d
<1>1. Len(d) \in Nat /\ Len(d) \in Byte /\ m \in Byte
  <2>1. Len(d) \in Nat /\ m \in Byte
    BY MacType, LenProperties
  <2>2. Len(d) \in Byte
    BY <2>1, ByteIs
  <2> QED BY <2>1, <2>2
<1>2. h \in Seq(Byte) /\ Len(h) = 2 /\ h[1] = Len(d) /\ h[2] = m
  <2> HIDE DEF m
  <2> QED BY <1>1
<1>3. L!Frame("ota", n, d, pad) = f
  BY DEF L!Frame
<1> HIDE DEF h
<1>4. /\ f \in Seq(Byte) /\ f \in Seq(Word) /\ Len(f) = 2 + Len(d) /\ L!After(f, 2) = d
      /\ f[1] = Len(d) /\ f[2] = m
  <2>1. /\ f \in Seq(Byte) /\ f \in Seq(Word) /\ Len(f) = Len(h) + Len(d) /\ L!After(f, Len(h)) = d
        /\ \A i \in 1..Len(h) : f[i] = h[i]
    BY <1>2, Made
  <2> HIDE DEF f, m
  <2> QED BY <1>2, <2>1
<1> HIDE DEF f
<1>5. L!Sound("ota", n, f) /\ L!Carried("ota", n, f) = d
  BY <1>4 DEF L!Sound, L!Carried
<1>6. /\ \A t \in Seq(Word) : L!Size("ota", n, f \o t) = Len(f)
      /\ \A b, t \in Seq(Word) : b \o t = f /\ t # <<>> => L!Size("ota", n, b) = 0 \/ TakenTorn("ota", n, b)
  <2>1. ASSUME NEW b \in Seq(Word), Len(b) < 1 PROVE L!Size("ota", n, b) = 0
    BY <2>1, NotEmpty, SizeEmpty
  <2>2. ASSUME NEW b \in Seq(Word), Len(b) >= 1, \A i \in 1..1 : b[i] = f[i]
        PROVE  L!Size("ota", n, b) = IF Len(f) > Len(b) THEN 0 ELSE Len(f)
    <3>1. b # <<>> /\ b[1] = Len(d)
      BY <1>4, <2>2, NotEmpty
    <3>2. L!Size("ota", n, b) = L!Whole(b, 2 + b[1])
      BY <3>1 DEF L!Size
    <3> QED BY <1>4, <3>1, <3>2 DEF L!Whole
  <2>3. 1 \in {1, 2} /\ 1 <= Len(f)
    BY <1>1, <1>4
  <2> QED BY <1>4, <2>1, <2>2, <2>3, SizesFromHead
<1>7. f # <<>>
  BY <1>1, <1>4, NotEmpty
<1> QED BY <1>3, <1>4, <1>5, <1>6, <1>7 DEF Sits

(* A record of the ticket plugin: of its handshake, or of data.            *)
(* (plugin.py)                                                             *)
LEMMA TicketFrame ==
  ASSUME NEW n \in Nat, NEW t \in {20, 22, 23}, NEW d \in Seq(Byte)
  PROVE  LET f == <<t, Len(d)>> \o d
         IN f \in Seq(Word) /\ Sits("ticket", n, f, IF t = 23 THEN d ELSE <<>>)
<1> DEFINE h == <<t, Len(d)>>
           f == h \o d
<1>1. Len(d) \in Nat /\ d \in Seq(Word)
  BY LenProperties, BytesAreWords
<1>2. h \in Seq(Word) /\ Len(h) = 2 /\ h[1] = t /\ h[2] = Len(d)
  BY <1>1 DEF Word
<1> HIDE DEF h
<1>3. f \in Seq(Word) /\ Len(f) = 2 + Len(d) /\ L!After(f, 2) = d /\ f[1] = t /\ f[2] = Len(d)
  <2>1. f \in Seq(Word) /\ Len(f) = Len(h) + Len(d) /\ L!After(f, Len(h)) = d
    BY <1>1, <1>2, WordParts
  <2>2. \A i \in 1..Len(h) : f[i] = h[i]
    BY <1>1, <1>2, Heads
  <2> HIDE DEF f
  <2> QED BY <1>2, <2>1, <2>2
<1> HIDE DEF f
<1>4. L!Sound("ticket", n, f) /\ L!Carried("ticket", n, f) = (IF t = 23 THEN d ELSE <<>>)
  BY <1>3 DEF L!Sound, L!Carried
<1>5. f # <<>> /\ (IF t = 23 THEN d ELSE <<>>) \in Seq(Byte)
  BY <1>1, <1>3, NotEmpty, EmptySeq
<1>6. ASSUME NEW b \in Seq(Word), b # <<>> PROVE L!Size("ticket", n, b) = L!TakeTicket(b)
  BY <1>6 DEF L!Size
<1>7. ASSUME NEW x \in Seq(Word) PROVE L!Size("ticket", n, f \o x) = Len(f)
  <2> DEFINE b == f \o x
  <2>1. /\ b \in Seq(Word) /\ Len(x) \in Nat /\ Len(b) = Len(f) + Len(x)
        /\ \A i \in 1..Len(f) : b[i] = f[i]
    BY <1>3, Heads
  <2> HIDE DEF b
  <2>2. b[2] = Len(d) /\ Len(b) \in Nat /\ ~(Len(b) < 2) /\ ~(Len(b) < Len(d)) /\ b # <<>>
    BY <1>1, <1>3, <2>1, NotEmpty
  <2>3. L!Size("ticket", n, b) = Len(f)
    BY <1>3, <1>6, <2>1, <2>2 DEF L!TakeTicket
  <2> QED BY <2>3 DEF b
<1>8. ASSUME NEW b \in Seq(Word), NEW x \in Seq(Word), b \o x = f, x # <<>>
      PROVE  L!Size("ticket", n, b) = 0 \/ TakenTorn("ticket", n, b)
  <2>1. Len(b) \in Nat /\ Len(x) \in Nat /\ Len(x) # 0 /\ Len(f) = Len(b) + Len(x)
        /\ \A i \in 1..Len(b) : f[i] = b[i]
    BY <1>8, Heads
  <2>2. CASE Len(b) < 2
    <3>1. b # <<>> => L!Size("ticket", n, b) = 0
      BY <1>6, <2>2 DEF L!TakeTicket
    <3> QED BY <3>1, SizeEmpty
  <2>3. CASE ~(Len(b) < 2)
    <3>1. b # <<>> /\ b[1] = t /\ b[2] = Len(d)
      <4>1. b # <<>>
        BY <2>3, NotEmpty
      <4>2. 1 \in 1..Len(b) /\ 2 \in 1..Len(b)
        BY <2>1, <2>3
      <4> QED BY <1>3, <2>1, <4>1, <4>2
    <3>2. L!Size("ticket", n, b) = L!TakeTicket(b)
      BY <1>6, <3>1
    <3>3. L!TakeTicket(b) = 0 \/ L!TakeTicket(b) = Len(f)
      BY <1>1, <1>3, <3>1 DEF L!TakeTicket
    <3>4. Len(f) > Len(b) /\ Len(f) \in Nat
      BY <1>1, <1>3, <2>1
    <3>5. L!Sound("ticket", n, b)
      BY <3>1 DEF L!Sound
    <3> QED BY <3>2, <3>3, <3>4, <3>5 DEF TakenTorn
  <2> QED BY <2>2, <2>3
<1> QED BY <1>3, <1>4, <1>5, <1>7, <1>8 DEF Sits, f, h

(* A chunk of an AEAD cipher, its length under one nonce and its bytes     *)
(* under the next. (cipher.py)                                             *)
LEMMA AeadFrame ==
  ASSUME NEW n \in Nat, NEW d \in Seq(Byte), Len(d) <= 198, NonceLimit \in Nat \ {0}, NEW pad
  PROVE  LET f == L!Frame("aead", n, d, pad)
         IN f \in Seq(Byte) /\ Sits("aead", n, f, d)
<1> DEFINE x == <<Len(d)>>
           h == L!Seal(n, x)
           c == L!Seal(n + 1, d)
           f == h \o c
           m == 11 * L!nonce(n)
<1>1. Len(d) \in Nat /\ Len(d) \in Byte /\ n + 1 \in Nat
  <2>1. Len(d) \in Nat
    BY LenProperties
  <2>2. Len(d) \in Byte
    BY <2>1, ByteIs
  <2> QED BY <2>1, <2>2
<1>2. x \in Seq(Byte) /\ Len(x) = 1 /\ x[1] = Len(d)
  BY <1>1
<1>3. L!Frame("aead", n, d, pad) = f
  BY DEF L!Frame
<1> HIDE DEF x
<1>4. /\ h \in Seq(Byte) /\ Len(h) = 2 /\ L!Unseal(n, h) = x /\ L!Sealed(n, h)
      /\ (h[1] - m) % L!Modulus = Len(d)
  <2>1. /\ h \in Seq(Byte) /\ Len(h) = Len(x) + 1 /\ L!Unseal(n, h) = x /\ L!Sealed(n, h)
        /\ \A i \in 1..Len(x) : (h[i] - m) % L!Modulus = x[i]
    BY <1>2, SealIs
  <2>2. 1 \in 1..Len(x)
    BY <1>2
  <2> HIDE DEF h, m
  <2> QED BY <1>2, <2>1, <2>2
<1>5. c \in Seq(Byte) /\ Len(c) = Len(d) + 1 /\ L!Unseal(n + 1, c) = d /\ L!Sealed(n + 1, c)
  BY <1>1, SealIs
<1> HIDE DEF h, c
<1>6. /\ f \in Seq(Byte) /\ f \in Seq(Word) /\ Len(f) = 3 + Len(d) /\ SubSeq(f, 1, 2) = h /\ L!After(f, 2) = c
      /\ f[1] = h[1] /\ f[2] = h[2]
  <2>1. /\ f \in Seq(Byte) /\ f \in Seq(Word) /\ Len(f) = Len(h) + Len(c)
        /\ SubSeq(f, 1, Len(h)) = h /\ L!After(f, Len(h)) = c /\ \A i \in 1..Len(h) : f[i] = h[i]
    BY <1>4, <1>5, Made
  <2>2. 1 \in 1..Len(h) /\ 2 \in 1..Len(h)
    BY <1>4
  <2> HIDE DEF f
  <2>3. f[1] = h[1] /\ f[2] = h[2]
    BY <2>1, <2>2
  <2>4. Len(f) = 3 + Len(d)
    BY <1>1, <1>4, <1>5, <2>1
  <2> QED BY <1>4, <2>1, <2>3, <2>4
<1> HIDE DEF f
<1>7. L!Sound("aead", n, f) /\ L!Carried("aead", n, f) = d
  BY <1>4, <1>5, <1>6 DEF L!Sound, L!Carried
<1>8. /\ \A t \in Seq(Word) : L!Size("aead", n, f \o t) = Len(f)
      /\ \A b, t \in Seq(Word) : b \o t = f /\ t # <<>> => L!Size("aead", n, b) = 0 \/ TakenTorn("aead", n, b)
  <2>1. ASSUME NEW b \in Seq(Word), Len(b) < 2 PROVE L!Size("aead", n, b) = 0
    <3>1. L!Size("aead", n, b) = 0
      BY <2>1 DEF L!Size
    <3> QED BY <3>1
  <2>2. ASSUME NEW b \in Seq(Word), Len(b) >= 2, \A i \in 1..2 : b[i] = f[i]
        PROVE  L!Size("aead", n, b) = IF Len(f) > Len(b) THEN 0 ELSE Len(f)
    <3> DEFINE s == SubSeq(b, 1, 2)
    <3>1. Len(b) \in Nat /\ b # <<>> /\ ~(Len(b) < 2) /\ b[1] = h[1]
      BY <1>6, <2>2, NotEmpty
    <3>2. L!Size("aead", n, b) = L!Whole(b, 3 + L!Unseal(n, s)[1])
      BY <3>1 DEF L!Size
    <3>3. Len(s) = 2 /\ s[1] = b[1]
      BY <3>1
    <3> HIDE DEF s
    <3>4. L!Unseal(n, s)[1] = Len(d)
      <4>1. L!Unseal(n, s) = [i \in 1..(Len(s) - 1) |-> (s[i] - m) % L!Modulus] /\ 1 \in 1..(Len(s) - 1)
        BY <3>3 DEF L!Unseal
      <4> HIDE DEF m
      <4>2. L!Unseal(n, s)[1] = (s[1] - m) % L!Modulus
        BY <4>1
      <4> QED BY <1>4, <3>1, <3>3, <4>2
    <3> QED BY <1>6, <3>2, <3>4 DEF L!Whole
  <2>3. 2 \in {1, 2} /\ 2 <= Len(f)
    BY <1>1, <1>6
  <2> QED BY <1>6, <2>1, <2>2, <2>3, SizesFromHead
<1>9. f # <<>>
  BY <1>1, <1>6, NotEmpty
<1> QED BY <1>3, <1>6, <1>7, <1>8, <1>9 DEF Sits, f

(* Reversing twice gives what was reversed.                                *)
LEMMA ReverseIs ==
  ASSUME NEW d \in Seq(Byte)
  PROVE  L!Reverse(d) \in Seq(Byte) /\ Len(L!Reverse(d)) = Len(d) /\ L!Reverse(L!Reverse(d)) = d
<1> DEFINE r == L!Reverse(d)
           q == L!Reverse(r)
<1>1. Len(d) \in Nat /\ d = [i \in 1..Len(d) |-> d[i]] /\ \A i \in 1..Len(d) : d[i] \in Byte
  BY LenProperties, ElementOfSeq
<1>2. r = [i \in 1..Len(d) |-> d[(Len(d) - i) + 1]]
  BY DEF L!Reverse
<1>3. \A i \in 1..Len(d) : (Len(d) - i) + 1 \in 1..Len(d) /\ (Len(d) - ((Len(d) - i) + 1)) + 1 = i
  BY <1>1
<1> HIDE DEF r
<1>4. r \in Seq(Byte) /\ Len(r) = Len(d)
  BY <1>1, <1>2, <1>3
<1>5. q = [i \in 1..Len(d) |-> r[(Len(d) - i) + 1]]
  BY <1>4 DEF L!Reverse
<1> HIDE DEF q
<1>6. ASSUME NEW i \in 1..Len(d) PROVE q[i] = d[i]
  BY <1>2, <1>3, <1>5
<1>7. q = [i \in 1..Len(d) |-> q[i]]
  BY <1>5
<1>8. q = d
  BY <1>1, <1>6, <1>7
<1> QED BY <1>4, <1>8 DEF q, r

(* A frame that starts with how long it is.                                *)
LEMMA OwnSize ==
  ASSUME NEW k \in {"simple", "deflate"}, NEW n, NEW f \in Seq(Word), f # <<>>, f[1] = Len(f)
  PROVE  /\ \A t \in Seq(Word) : L!Size(k, n, f \o t) = Len(f)
         /\ \A b, t \in Seq(Word) : b \o t = f /\ t # <<>> => L!Size(k, n, b) = 0 \/ TakenTorn(k, n, b)
<1>1. ASSUME NEW b \in Seq(Word), Len(b) < 1 PROVE L!Size(k, n, b) = 0
  BY <1>1, NotEmpty, SizeEmpty
<1>2. ASSUME NEW b \in Seq(Word), Len(b) >= 1, \A i \in 1..1 : b[i] = f[i]
      PROVE  L!Size(k, n, b) = IF Len(f) > Len(b) THEN 0 ELSE Len(f)
  <2>1. b # <<>> /\ b[1] = Len(f)
    BY <1>2, NotEmpty
  <2>2. L!Size(k, n, b) = L!Whole(b, b[1])
    BY <2>1 DEF L!Size
  <2> QED BY <2>1, <2>2 DEF L!Whole
<1>3. 1 \in {1, 2} /\ 1 <= Len(f)
  BY NotEmpty
<1> QED BY <1>1, <1>2, <1>3, SizesFromHead

(* A frame of the deflate plugin. (plugin.py)                              *)
LEMMA DeflateFrame ==
  ASSUME NEW n \in Nat, NEW d \in Seq(Byte), d # <<>>, Len(d) + 1 <= 198, NEW pad
  PROVE  LET f == L!Frame("deflate", n, d, pad)
         IN f \in Seq(Byte) /\ Sits("deflate", n, f, d)
<1> DEFINE r == L!Reverse(d)
           h == <<Len(d) + 1>>
           f == h \o r
<1>1. Len(d) \in Nat /\ Len(d) # 0 /\ Len(d) + 1 \in Byte /\ r \in Seq(Byte) /\ Len(r) = Len(d) /\ L!Reverse(r) = d
  <2>1. Len(d) \in Nat /\ Len(d) # 0
    BY EmptySeq, LenProperties
  <2>2. Len(d) + 1 \in Byte
    BY <2>1, ByteIs
  <2> QED BY <2>1, <2>2, ReverseIs
<1>2. h \in Seq(Byte) /\ Len(h) = 1 /\ h[1] = Len(d) + 1
  <2> HIDE DEF r
  <2> QED BY <1>1
<1>3. L!Frame("deflate", n, d, pad) = f
  BY DEF L!Frame
<1> HIDE DEF h, r
<1>4. f \in Seq(Byte) /\ f \in Seq(Word) /\ Len(f) = Len(d) + 1 /\ L!After(f, 1) = r /\ f[1] = Len(f)
  <2>1. /\ f \in Seq(Byte) /\ f \in Seq(Word) /\ Len(f) = Len(h) + Len(r)
        /\ L!After(f, Len(h)) = r /\ \A i \in 1..Len(h) : f[i] = h[i]
    BY <1>1, <1>2, Made
  <2> HIDE DEF f
  <2>2. Len(f) = Len(d) + 1 /\ f[1] = h[1]
    BY <1>1, <1>2, <2>1
  <2> QED BY <1>2, <2>1, <2>2
<1> HIDE DEF f
<1>5. f # <<>>
  BY <1>1, <1>4, NotEmpty
<1>6. Tail(f) = r
  <2>1. Tail(f) = SubSeq(f, 2, Len(f))
    BY <1>4, <1>5, TailIsSubSeq
  <2> QED BY <1>4, <2>1 DEF L!After
<1>7. L!Sound("deflate", n, f) /\ L!Carried("deflate", n, f) = d
  <2>1. Len(f) > 1
    BY <1>1, <1>4
  <2> QED BY <1>1, <1>6, <2>1 DEF L!Sound, L!Carried
<1>8. /\ \A t \in Seq(Word) : L!Size("deflate", n, f \o t) = Len(f)
      /\ \A b, t \in Seq(Word) : b \o t = f /\ t # <<>> => L!Size("deflate", n, b) = 0 \/ TakenTorn("deflate", n, b)
  BY <1>4, <1>5, OwnSize
<1> QED BY <1>3, <1>4, <1>5, <1>7, <1>8 DEF Sits, f

(* A frame of the simple plugins, padded or not. (plugin.py)               *)
LEMMA SimpleFrame ==
  ASSUME NEW n \in Nat, NEW d \in Seq(Byte), NEW pad \in {0, 1}, Len(d) + pad + 3 <= 198
  PROVE  LET f == L!Frame("simple", n, d, pad)
         IN f \in Seq(Byte) /\ Sits("simple", n, f, d)
<1> DEFINE z == [i \in 1..pad |-> 0]
           h == <<Len(d) + pad + 3, pad + 1>>
           g == h \o z
           b == g \o d
           y == L!Mac(0, b)
           f == Append(b, y)
<1>1. Len(d) \in Nat /\ Len(d) + pad + 3 \in Byte /\ pad + 1 \in Byte /\ 0 \in Byte
  <2>1. Len(d) \in Nat
    BY LenProperties
  <2> QED BY <2>1, ByteIs
<1>2. h \in Seq(Byte) /\ Len(h) = 2 /\ h[1] = Len(d) + pad + 3 /\ h[2] = pad + 1
  BY <1>1
<1>3. z \in Seq(Byte) /\ Len(z) = pad
  BY <1>1
<1>4. L!Frame("simple", n, d, pad) = f
  BY DEF L!Frame
<1> HIDE DEF h, z
<1>5. g \in Seq(Byte) /\ Len(g) = 2 + pad /\ g[1] = h[1] /\ g[2] = h[2]
  <2>1. g \in Seq(Byte) /\ Len(g) = Len(h) + Len(z) /\ \A i \in 1..Len(h) : g[i] = h[i]
    BY <1>2, <1>3, Made
  <2> HIDE DEF g
  <2>2. 1 \in 1..Len(h) /\ 2 \in 1..Len(h)
    BY <1>2
  <2>3. Len(g) = 2 + pad
    BY <1>2, <1>3, <2>1
  <2> QED BY <2>1, <2>2, <2>3
<1> HIDE DEF g
<1>6. b \in Seq(Byte) /\ Len(b) = (2 + pad) + Len(d) /\ L!After(b, 2 + pad) = d /\ b[1] = h[1] /\ b[2] = h[2]
  <2>1. /\ b \in Seq(Byte) /\ Len(b) = Len(g) + Len(d) /\ L!After(b, Len(g)) = d
        /\ \A i \in 1..Len(g) : b[i] = g[i]
    BY <1>5, Made
  <2> HIDE DEF b
  <2>2. 1 \in 1..Len(g) /\ 2 \in 1..Len(g)
    BY <1>5
  <2> QED BY <1>5, <2>1, <2>2
<1> HIDE DEF b
<1>7. y \in Byte /\ Len(b) \in Nat
  BY <1>6, MacType, LenProperties
<1> HIDE DEF y
<1>8. /\ f \in Seq(Byte) /\ Len(f) = Len(b) + 1 /\ f[Len(b) + 1] = y
      /\ \A i \in 1..Len(b) : f[i] = b[i]
  BY <1>6, <1>7, AppendProperties
<1> HIDE DEF f
<1>9. f \in Seq(Word) /\ Len(f) = Len(d) + pad + 3 /\ f[1] = Len(f) /\ f[2] = pad + 1 /\ f # <<>>
  <2>1. f \in Seq(Word)
    BY <1>8, BytesAreWords
  <2>2. 1 \in 1..Len(b) /\ 2 \in 1..Len(b)
    BY <1>1, <1>6
  <2>3. Len(f) = Len(d) + pad + 3
    BY <1>1, <1>6, <1>8
  <2>4. f # <<>>
    BY <1>1, <2>1, <2>3, NotEmpty
  <2> QED BY <1>2, <1>6, <1>8, <2>1, <2>2, <2>3, <2>4
<1>10. L!Front(f) = b /\ L!Last(f) = y
  <2>1. L!Last(f) = y
    BY <1>7, <1>8 DEF L!Last
  <2>2. L!Front(f) = SubSeq(f, 1, Len(b))
    BY <1>7, <1>8 DEF L!Front
  <2>3. SubSeq(f, 1, Len(b)) \in Seq(Byte) /\ Len(SubSeq(f, 1, Len(b))) = Len(b)
        /\ \A i \in 1..Len(b) : SubSeq(f, 1, Len(b))[i] = f[i]
    BY <1>7, <1>8
  <2>4. SubSeq(f, 1, Len(b)) = b
    BY <1>6, <1>8, <2>3, SeqEqual
  <2> QED BY <2>1, <2>2, <2>4
<1>11. L!Sound("simple", n, f)
  BY <1>10 DEF L!Sound, y
<1>12. L!Carried("simple", n, f) = d
  <2>1. Len(f) - 1 = Len(b) /\ 2 + f[2] = (2 + pad) + 1
    BY <1>7, <1>8, <1>9
  <2>2. L!Carried("simple", n, f) = SubSeq(f, 2 + f[2], Len(f) - 1)
    BY DEF L!Carried
  <2>3. L!Carried("simple", n, f) = SubSeq(f, (2 + pad) + 1, Len(b))
    BY <2>1, <2>2
  <2>4. SubSeq(f, (2 + pad) + 1, Len(b)) = SubSeq(b, (2 + pad) + 1, Len(b))
    <3> DEFINE u == (2 + pad) + 1
               s == SubSeq(f, u, Len(b))
               t == SubSeq(b, u, Len(b))
    <3>1. u \in Nat /\ u >= 1
      OBVIOUS
    <3> HIDE DEF u
    <3>2. s = [i \in 1..(Len(b) - u + 1) |-> f[i + u - 1]] /\ t = [i \in 1..(Len(b) - u + 1) |-> b[i + u - 1]]
      BY <1>6, <1>7, <1>8, <3>1
    <3>3. \A i \in 1..(Len(b) - u + 1) : i + u - 1 \in 1..Len(b)
      BY <1>7, <3>1
    <3>4. \A i \in 1..(Len(b) - u + 1) : f[i + u - 1] = b[i + u - 1]
      BY <1>8, <3>3
    <3> HIDE DEF s, t
    <3>5. s = t
      BY <3>2, <3>4
    <3> QED BY <3>5 DEF s, t, u
  <2> QED BY <1>6, <2>3, <2>4 DEF L!After
<1>13. /\ \A t \in Seq(Word) : L!Size("simple", n, f \o t) = Len(f)
       /\ \A x, t \in Seq(Word) : x \o t = f /\ t # <<>> => L!Size("simple", n, x) = 0 \/ TakenTorn("simple", n, x)
  BY <1>9, OwnSize
<1> QED BY <1>4, <1>8, <1>9, <1>11, <1>12, <1>13 DEF Sits, f, b

-----------------------------------------------------------------------------
(***************************************************************************)
(* What is written, cut into pieces and framed.                            *)
(***************************************************************************)
(* Multiples of a size.                                                    *)
LEMMA Multiples ==
  ASSUME NEW size \in Nat \ {0}, NEW m \in Nat
  PROVE  m * size \in Nat /\ (m + 1) * size = (m * size) + size /\ 0 * size = 0 /\ m * size >= m
<1>1. size >= 1 /\ m * size \in Nat /\ (m + 1) * size = (m * size) + size /\ 0 * size = 0
  OBVIOUS
<1>2. m * (size - 1) \in Nat /\ m * size = m + (m * (size - 1))
  BY <1>1
<1> QED BY <1>1, <1>2

(* The pieces that a write is cut into are not empty, fit the limit, and   *)
(* give it back.                                                           *)
LEMMA SplitIs ==
  ASSUME NEW s \in Seq(Byte), NEW limit \in Nat \ {0}, NEW size \in Nat \ {0}
  PROVE  LET c == L!Split(s, limit, size)
         IN /\ c \in Seq(Seq(Byte)) /\ L!FlattenSeq(c) = s
            /\ \A i \in 1..Len(c) : c[i] # <<>> /\ (Len(c[i]) <= limit \/ Len(c[i]) <= size)
<1> DEFINE T(m) == m * size
           cand == {m \in 0..Len(s) : Len(s) <= T(m) + limit}
           cuts == L!Min(cand)
           rest == IF T(cuts) < Len(s) THEN 1 ELSE 0
           E(i) == IF i > cuts THEN Len(s) ELSE L!Upper(T(i), Len(s))
           c    == L!Split(s, limit, size)
<1>1. Len(s) \in Nat
  BY LenProperties
<1>2. /\ T(0) = 0
      /\ \A m \in Nat : T(m) \in Nat /\ T(m + 1) = T(m) + size /\ T(m) >= m
  BY Multiples
<1>3. c = [i \in 1..(cuts + rest) |-> SubSeq(s, T(i - 1) + 1, E(i))]
  BY DEF L!Split
<1> HIDE DEF T, c
<1>4. /\ cuts \in Nat /\ Len(s) <= T(cuts) + limit
      /\ \A m \in Nat : m < cuts => T(m) + limit < Len(s)
  <2>1. cand \subseteq Nat
    BY <1>1
  <2>2. Len(s) \in cand
    <3>1. Len(s) \in 0..Len(s) /\ Len(s) <= T(Len(s)) + limit
      <4> DEFINE m == T(Len(s))
      <4>1. m \in Nat /\ m >= Len(s)
        BY <1>1, <1>2
      <4> HIDE DEF m
      <4>2. Len(s) <= m + limit
        BY <1>1, <4>1
      <4> QED BY <1>1, <4>2 DEF m
    <3> QED BY <3>1
  <2>3. \E m \in cand : \A x \in cand : m <= x
    BY <2>1, <2>2, Least
  <2>4. cuts \in cand /\ \A x \in cand : cuts <= x
    <3> HIDE DEF cand
    <3> QED BY <2>3 DEF L!Min
  <2> HIDE DEF cuts
  <2>5. ASSUME NEW m \in Nat, m < cuts PROVE T(m) + limit < Len(s)
    <3>1. m \notin cand /\ m \in 0..Len(s)
      BY <1>1, <2>4, <2>5
    <3>2. ~(Len(s) <= T(m) + limit)
      BY <3>1
    <3>3. T(m) \in Nat
      BY <1>2
    <3> QED BY <1>1, <3>2, <3>3
  <2> QED BY <2>4, <2>5
<1> HIDE DEF cand, cuts
<1> DEFINE n == cuts + rest
<1>5. n \in Nat /\ \A i \in 1..n : i - 1 \in Nat /\ T(i - 1) \in Nat /\ T(i - 1) < Len(s)
                                  /\ T(i) \in Nat /\ T(i) = T(i - 1) + size /\ i - 1 <= cuts
  <2>1. n \in Nat
    BY <1>4
  <2>2. ASSUME NEW i \in 1..n
        PROVE  i - 1 \in Nat /\ T(i - 1) \in Nat /\ T(i - 1) < Len(s) /\ T(i) \in Nat /\ T(i) = T(i - 1) + size
               /\ i - 1 <= cuts
    <3>1. i - 1 \in Nat /\ (i - 1) + 1 = i
      BY <2>1
    <3>2. T(i - 1) \in Nat /\ T((i - 1) + 1) = T(i - 1) + size
      BY <1>2, <3>1
    <3>3. i - 1 < cuts \/ (i - 1 = cuts /\ rest = 1)
      BY <1>4, <2>1
    <3>4. CASE i - 1 < cuts
      <4>1. T(i - 1) + limit < Len(s)
        BY <1>4, <3>1, <3>4
      <4> QED BY <1>1, <1>4, <3>1, <3>2, <3>4, <4>1
    <3>5. CASE i - 1 = cuts /\ rest = 1
      <4>1. T(i - 1) < Len(s)
        BY <3>5
      <4> QED BY <1>1, <1>4, <3>1, <3>2, <3>5, <4>1
    <3> QED BY <3>3, <3>4, <3>5
  <2> QED BY <2>1, <2>2
<1>6. ASSUME NEW i \in 1..n
      PROVE  /\ E(i) \in Nat /\ T(i - 1) < E(i) /\ E(i) <= Len(s)
             /\ (E(i) <= T(i - 1) + size \/ E(i) <= T(i - 1) + limit)
             /\ (i > 1 => E(i - 1) = T(i - 1))
  <2>1. i - 1 \in Nat /\ T(i - 1) \in Nat /\ T(i - 1) < Len(s) /\ T(i) \in Nat /\ T(i) = T(i - 1) + size
        /\ i - 1 <= cuts
    BY <1>5
  <2>2. E(i) \in Nat /\ T(i - 1) < E(i) /\ E(i) <= Len(s)
    <3>1. CASE i > cuts
      BY <1>1, <2>1, <3>1
    <3>2. CASE ~(i > cuts)
      BY <1>1, <2>1, <3>2 DEF L!Upper
    <3> QED BY <3>1, <3>2
  <2>3. E(i) <= T(i - 1) + size \/ E(i) <= T(i - 1) + limit
    <3>1. CASE i > cuts
      <4>1. i - 1 = cuts
        BY <1>4, <2>1, <3>1
      <4> QED BY <1>4, <3>1, <4>1
    <3>2. CASE ~(i > cuts)
      BY <1>1, <2>1, <3>2 DEF L!Upper
    <3> QED BY <3>1, <3>2
  <2>4. i > 1 => E(i - 1) = T(i - 1)
    <3>1. ~(i - 1 > cuts)
      BY <1>4, <2>1
    <3> QED BY <1>1, <2>1, <3>1 DEF L!Upper
  <2> QED BY <2>2, <2>3, <2>4
<1>7. Len(s) = 0 \/ n > 0
  BY <1>1, <1>2, <1>4
<1>8. n > 0 => E(n) = Len(s)
  BY <1>1, <1>2, <1>4 DEF L!Upper
<1>9. n = 0 => Len(s) = 0
  BY <1>7
<1> HIDE DEF E
<1>10. c = [i \in 1..n |-> SubSeq(s, T(i - 1) + 1, E(i))]
  BY <1>3
<1> HIDE DEF n
<1>11. ASSUME NEW i \in 1..n
       PROVE  /\ c[i] = SubSeq(s, T(i - 1) + 1, E(i)) /\ c[i] \in Seq(Byte) /\ Len(c[i]) = E(i) - T(i - 1)
  <2> DEFINE a == T(i - 1)
             b == E(i)
  <2>1. a \in Nat /\ b \in Nat /\ a < b /\ b <= Len(s)
    BY <1>5, <1>6
  <2>2. c[i] = SubSeq(s, a + 1, b)
    BY <1>10
  <2> HIDE DEF a, b
  <2>3. SubSeq(s, a + 1, b) \in Seq(Byte) /\ Len(SubSeq(s, a + 1, b)) = b - a
    BY <1>1, <2>1
  <2> QED BY <2>2, <2>3 DEF a, b
<1>12. c \in Seq(Seq(Byte)) /\ Len(c) = n
  BY <1>5, <1>10, <1>11
<1>13. L!FlattenSeq(c) = s
  <2> DEFINE f == [i \in 1..n |-> SubSeq(s, 1, E(i))]
  <2>1. ASSUME NEW i \in 1..n PROVE f[i] = SubSeq(s, 1, E(i)) /\ f[i] \in Seq(Byte)
    <3>1. E(i) \in Nat /\ E(i) <= Len(s)
      BY <1>6
    <3>2. SubSeq(s, 1, E(i)) \in Seq(Byte)
      <4> DEFINE b == E(i)
      <4>1. b \in Nat /\ b <= Len(s)
        BY <3>1
      <4> HIDE DEF b
      <4>2. SubSeq(s, 1, b) \in Seq(Byte)
        BY <1>1, <4>1
      <4> QED BY <4>2 DEF b
    <3> QED BY <3>2
  <2>2. f \in [1..Len(c) -> Seq(Byte)]
    BY <1>12, <2>1
  <2>3. ASSUME NEW i \in 1..Len(c) PROVE f[i] = IF i = 1 THEN c[i] ELSE f[i - 1] \o c[i]
    <3>1. i \in 1..n
      BY <1>12
    <3>2. CASE i = 1
      <4>1. T(i - 1) + 1 = 1
        BY <1>2, <3>2
      <4> HIDE DEF f
      <4> QED BY <1>11, <2>1, <3>1, <3>2, <4>1
    <3>3. CASE i # 1
      <4>1. i - 1 \in 1..n /\ i > 1
        BY <1>5, <3>1, <3>3
      <4> DEFINE a == T(i - 1)
                 b == E(i)
      <4>2. a \in Nat /\ b \in Nat /\ a < b /\ b <= Len(s) /\ E(i - 1) = a
        BY <1>5, <1>6, <3>1, <4>1
      <4>3. f[i - 1] = SubSeq(s, 1, a) /\ f[i] = SubSeq(s, 1, b) /\ c[i] = SubSeq(s, a + 1, b)
        <5> HIDE DEF f
        <5> QED BY <1>11, <2>1, <3>1, <4>1, <4>2
      <4> HIDE DEF a, b, f
      <4>4. SubSeq(s, 1, a) \o SubSeq(s, a + 1, b) = SubSeq(s, 1, b)
        <5>1. 1 \in 1..(Len(s) + 1) /\ a \in (1 - 1)..Len(s) /\ b \in a..Len(s)
          BY <1>1, <4>2
        <5> QED BY <5>1, ConcatAdjacentSubSeq
      <4> QED BY <3>3, <4>3, <4>4
    <3> QED BY <3>2, <3>3
  <2>4. Folds(c, f)
    <3> HIDE DEF f
    <3> QED BY <2>3 DEF Folds
  <2>5. W!FlattenSeq(c) = IF c = <<>> THEN <<>> ELSE f[Len(c)]
    <3> HIDE DEF f
    <3> QED BY <1>12, <2>2, <2>4, FlattenIs
  <2>6. CASE n = 0
    <3>1. c = <<>> /\ s = <<>>
      BY <1>9, <1>12, <2>6, EmptySeq
    <3> QED BY <2>5, <3>1, SameFlatten
  <2>7. CASE n # 0
    <3>1. n \in 1..n /\ c # <<>>
      BY <1>5, <1>12, <2>7
    <3>2. f[n] = SubSeq(s, 1, Len(s))
      BY <1>8, <3>1
    <3>3. SubSeq(s, 1, Len(s)) = s
      BY SubSeqFull
    <3> HIDE DEF f
    <3> QED BY <1>12, <2>5, <3>1, <3>2, <3>3, SameFlatten
  <2> QED BY <2>6, <2>7
<1>14. ASSUME NEW i \in 1..Len(c)
       PROVE  c[i] # <<>> /\ (Len(c[i]) <= limit \/ Len(c[i]) <= size)
  <2> DEFINE a == T(i - 1)
             b == E(i)
  <2>1. /\ a \in Nat /\ b \in Nat /\ a < b /\ (b <= a + size \/ b <= a + limit)
        /\ c[i] \in Seq(Byte) /\ Len(c[i]) = b - a
    BY <1>5, <1>6, <1>11, <1>12
  <2> HIDE DEF a, b
  <2> QED BY <2>1
<1> QED BY <1>12, <1>13, <1>14 DEF c

(* What the writer gives a layer of frames is within its limits.           *)
Fits(k, s, size, pad) ==
  /\ s \in Seq(Byte) /\ size \in Nat \ {0} /\ pad \in {0, 1}
  /\ k = "ota" => Len(s) <= 198

(* The pieces of a write fit the frames of their layer.                    *)
LEMMA ChunksFit ==
  ASSUME L!BoundsOK, NEW k \in Framer, NEW s, NEW size, NEW pad, Fits(k, s, size, pad)
  PROVE  LET c == L!Chunks(k, s, size)
         IN /\ c \in Seq(Seq(Byte)) /\ L!FlattenSeq(c) = s
            /\ \A i \in 1..Len(c) : /\ k \in {"ota", "aead"} => Len(c[i]) <= 198
                                    /\ k \in {"simple", "deflate"} => Len(c[i]) <= 194 /\ c[i] # <<>>
<1> DEFINE c == L!Chunks(k, s, size)
<1>1. s \in Seq(Byte) /\ size \in Nat \ {0} /\ (k = "ota" => Len(s) <= 198)
  BY DEF Fits
<1>2. PACKET_LIMIT \in 1..198 /\ PluginLimit \in 1..194 /\ RecordLimit \in Nat \ {0}
  BY DEF L!BoundsOK, L!Modulus
<1>3. CASE k = "aead"
  <2>1. c = L!Split(s, PACKET_LIMIT, PACKET_LIMIT)
    BY <1>3 DEF L!Chunks
  <2>2. PACKET_LIMIT \in Nat \ {0}
    BY <1>2
  <2> HIDE DEF c
  <2>3. c \in Seq(Seq(Byte)) /\ L!FlattenSeq(c) = s /\ \A i \in 1..Len(c) : Len(c[i]) <= PACKET_LIMIT
    BY <1>1, <2>1, <2>2, SplitIs
  <2>4. ASSUME NEW i \in 1..Len(c) PROVE Len(c[i]) <= 198
    <3>1. c[i] \in Seq(Byte)
      BY <2>3, ElementOfSeq
    <3>2. Len(c[i]) \in Nat /\ Len(c[i]) <= PACKET_LIMIT
      BY <2>3, <3>1, LenProperties
    <3> QED BY <1>2, <3>2
  <2> QED BY <1>3, <2>3, <2>4 DEF c
<1>4. CASE k \in {"simple", "deflate"}
  <2>1. c = L!Split(s, PluginLimit, PluginLimit)
    BY <1>4 DEF L!Chunks
  <2>2. PluginLimit \in Nat \ {0}
    BY <1>2
  <2> HIDE DEF c
  <2>3. c \in Seq(Seq(Byte)) /\ L!FlattenSeq(c) = s /\ \A i \in 1..Len(c) : c[i] # <<>> /\ Len(c[i]) <= PluginLimit
    BY <1>1, <2>1, <2>2, SplitIs
  <2>4. ASSUME NEW i \in 1..Len(c) PROVE Len(c[i]) <= 194
    <3>1. c[i] \in Seq(Byte)
      BY <2>3, ElementOfSeq
    <3>2. Len(c[i]) \in Nat /\ Len(c[i]) <= PluginLimit
      BY <2>3, <3>1, LenProperties
    <3> QED BY <1>2, <3>2
  <2> QED BY <1>4, <2>3, <2>4 DEF c
<1>5. CASE k = "ticket"
  <2>1. c = L!Split(s, RecordLimit, size)
    BY <1>5 DEF L!Chunks
  <2> HIDE DEF c
  <2>3. c \in Seq(Seq(Byte)) /\ L!FlattenSeq(c) = s
    BY <1>1, <1>2, <2>1, SplitIs
  <2> QED BY <1>5, <2>3 DEF c
<1>6. CASE k = "ota"
  <2>1. c = <<s>>
    BY <1>6 DEF L!Chunks
  <2>2. c \in Seq(Seq(Byte)) /\ \A i \in 1..Len(c) : c[i] = s
    BY <1>1, <2>1
  <2>3. L!FlattenSeq(c) = s
    <3>1. W!FlattenSeq(<<s>>) = s
      BY <1>1, FlattenOne
    <3> QED BY <2>1, <3>1, SameFlatten
  <2> HIDE DEF c
  <2> QED BY <1>1, <1>6, <2>2, <2>3 DEF c
<1> QED BY <1>3, <1>4, <1>5, <1>6 DEF Framer

(* Every frame a layer makes is one its decoder takes as it was made.      *)
LEMMA FrameSits ==
  ASSUME L!BoundsOK, NEW k \in Framer, NEW n \in Nat, NEW d \in Seq(Byte), NEW pad \in {0, 1},
         k \in {"ota", "aead"} => Len(d) <= 198, k \in {"simple", "deflate"} => Len(d) <= 194 /\ d # <<>>
  PROVE  LET f == L!Frame(k, n, d, pad)
         IN f \in Seq(Word) /\ (k # "ticket" => f \in Seq(Byte)) /\ Sits(k, n, f, d)
<1> DEFINE f == L!Frame(k, n, d, pad)
<1>1. Len(d) \in Nat
  BY LenProperties
<1>2. CASE k = "ota"
  <2>1. f \in Seq(Byte) /\ Sits("ota", n, f, d)
    BY <1>2, OtaFrame
  <2> HIDE DEF f
  <2> QED BY <1>2, <2>1, BytesAreWords DEF f
<1>3. CASE k = "aead"
  <2>1. NonceLimit \in Nat \ {0}
    BY DEF L!BoundsOK
  <2>2. f \in Seq(Byte) /\ Sits("aead", n, f, d)
    BY <1>3, <2>1, AeadFrame
  <2> HIDE DEF f
  <2> QED BY <1>3, <2>2, BytesAreWords DEF f
<1>4. CASE k = "simple"
  <2>1. Len(d) + pad + 3 <= 198
    BY <1>1, <1>4
  <2>2. f \in Seq(Byte) /\ Sits("simple", n, f, d)
    BY <1>4, <2>1, SimpleFrame
  <2> HIDE DEF f
  <2> QED BY <1>4, <2>2, BytesAreWords DEF f
<1>5. CASE k = "deflate"
  <2>1. Len(d) + 1 <= 198
    BY <1>1, <1>5
  <2>2. f \in Seq(Byte) /\ Sits("deflate", n, f, d)
    BY <1>5, <2>1, DeflateFrame
  <2> HIDE DEF f
  <2> QED BY <1>5, <2>2, BytesAreWords DEF f
<1>6. CASE k = "ticket"
  <2>1. f = <<23, Len(d)>> \o d
    BY <1>6 DEF L!Frame
  <2>2. 23 \in {20, 22, 23}
    OBVIOUS
  <2> HIDE DEF f
  <2>3. f \in Seq(Word) /\ Sits("ticket", n, f, d)
    BY <2>1, <2>2, TicketFrame
  <2> QED BY <1>6, <2>3 DEF f
<1> QED BY <1>2, <1>3, <1>4, <1>5, <1>6 DEF Framer

(* What a layer makes of a write are frames that carry it.                 *)
LEMMA EncodeFrames ==
  ASSUME L!BoundsOK, NEW k \in Framer, NEW n \in Nat, NEW s, NEW size, NEW pad, Fits(k, s, size, pad)
  PROVE  LET o == L!Encode(k, n, s, size, pad)
         IN /\ o.data \in Seq(Word) /\ (k # "ticket" => o.data \in Seq(Byte)) /\ o.n \in Nat
            /\ Framed(k, n, o.n, o.data, s)
<1> DEFINE c == L!Chunks(k, s, size)
           a == L!Advance(k)
           N(i) == n + (a * (i - 1))
           fs == [i \in DOMAIN c |-> L!Frame(k, N(i), c[i], pad)]
           e  == n + (a * Len(c))
           o == L!Encode(k, n, s, size, pad)
<1>1. /\ c \in Seq(Seq(Byte)) /\ L!FlattenSeq(c) = s
      /\ \A i \in 1..Len(c) : /\ k \in {"ota", "aead"} => Len(c[i]) <= 198
                              /\ k \in {"simple", "deflate"} => Len(c[i]) <= 194 /\ c[i] # <<>>
  BY ChunksFit
<1>2. a = 0 \/ a = 1 \/ a = 2
  BY AdvanceIs
<1>3. o = [data |-> L!FlattenSeq(fs), n |-> e]
  <2>1. k \notin {"stream", "rc4"} /\ k # "iv"
    BY DEF Framer
  <2> QED BY <2>1 DEF L!Encode
<1> HIDE DEF a, c
<1>4. Len(c) \in Nat /\ DOMAIN c = 1..Len(c) /\ e \in Nat
  <2>1. Len(c) \in Nat /\ DOMAIN c = 1..Len(c)
    BY <1>1, LenProperties
  <2>2. e \in Nat
    BY <1>2, <2>1
  <2> QED BY <2>1, <2>2
<1>5. \A i \in 1..Len(c) : N(i) \in Nat
  BY <1>2, <1>4
<1> HIDE DEF e, o, N
<1>6. ASSUME NEW i \in 1..Len(c)
      PROVE  /\ fs[i] \in Seq(Word) /\ (k # "ticket" => fs[i] \in Seq(Byte)) /\ Sits(k, N(i), fs[i], c[i])
  <2>1. c[i] \in Seq(Byte) /\ N(i) \in Nat /\ pad \in {0, 1}
    BY <1>1, <1>5, ElementOfSeq DEF Fits
  <2>2. fs[i] = L!Frame(k, N(i), c[i], pad)
    BY <1>4
  <2>3. /\ k \in {"ota", "aead"} => Len(c[i]) <= 198
        /\ k \in {"simple", "deflate"} => Len(c[i]) <= 194 /\ c[i] # <<>>
    BY <1>1
  <2> DEFINE d == c[i]
             m == N(i)
             f == L!Frame(k, m, d, pad)
  <2>4. f \in Seq(Word) /\ (k # "ticket" => f \in Seq(Byte)) /\ Sits(k, m, f, d)
    <3> HIDE DEF d, m
    <3>1. d \in Seq(Byte) /\ m \in Nat /\ pad \in {0, 1}
      BY <2>1 DEF d, m
    <3>2. (k \in {"ota", "aead"} => Len(d) <= 198) /\ (k \in {"simple", "deflate"} => Len(d) <= 194 /\ d # <<>>)
      BY <2>3 DEF d
    <3> QED BY <3>1, <3>2, FrameSits
  <2> HIDE DEF fs
  <2> QED BY <2>2, <2>4
<1>7. Len(fs) = Len(c) /\ fs \in Seq(Seq(Word)) /\ (k # "ticket" => fs \in Seq(Seq(Byte)))
  <2>1. fs = [i \in 1..Len(c) |-> fs[i]]
    BY <1>4
  <2>2. \A i \in 1..Len(c) : fs[i] \in Seq(Word) /\ (k # "ticket" => fs[i] \in Seq(Byte))
    BY <1>6
  <2> HIDE DEF fs
  <2>3. Len(fs) = Len(c) /\ fs \in Seq(Seq(Word))
    BY <1>4, <2>1, <2>2
  <2>4. k # "ticket" => fs \in Seq(Seq(Byte))
    BY <1>4, <2>1, <2>2
  <2> QED BY <2>3, <2>4
<1> HIDE DEF fs
<1>8. /\ L!FlattenSeq(fs) \in Seq(Word) /\ (k # "ticket" => L!FlattenSeq(fs) \in Seq(Byte))
  <2>1. L!FlattenSeq(fs) \in Seq(Word)
    BY <1>7, FlattenType, SameFlatten
  <2>2. k # "ticket" => L!FlattenSeq(fs) \in Seq(Byte)
    BY <1>7, FlattenType, SameFlatten
  <2> QED BY <2>1, <2>2
<1>9. FramedBy(k, n, e, L!FlattenSeq(fs), s, fs, c)
  <2>1. Len(c) = Len(fs) /\ e = n + (a * Len(fs)) /\ s = L!FlattenSeq(c)
    BY <1>1, <1>7 DEF e
  <2>2. \A i \in 1..Len(fs) : Sits(k, n + (a * (i - 1)), fs[i], c[i])
    BY <1>6, <1>7 DEF N
  <2> QED BY <2>1, <2>2 DEF FramedBy, a
<1>10. Framed(k, n, e, L!FlattenSeq(fs), s)
  BY <1>1, <1>7, <1>9 DEF Framed
<1>11. o.data = L!FlattenSeq(fs) /\ o.n = e
  BY <1>3
<1> QED BY <1>4, <1>8, <1>10, <1>11 DEF o

-----------------------------------------------------------------------------
(***************************************************************************)
(* One layer between what is under way below it, fl, and what the layer    *)
(* above is still to get, pl.  The reader stands at d, the writer at e.    *)
(***************************************************************************)
Spans(k, d, e, fl, pl) ==
  /\ fl \in Seq(Word) /\ pl \in Seq(Byte)
  /\ k = "none"   => fl = pl
  /\ k = "stream" => e = d.n + Len(pl) /\ L!Crypt(d.n, pl) = fl
  /\ k = "rc4"    => e = 0 /\ d.n = 0 /\ L!Crypt(0, pl) = fl
  /\ k = "iv"     => \/ e = 0 /\ d.n = 0 /\ d.buf = <<>> /\ fl = <<>> /\ pl = <<>>
                     \/ e = 1 /\ d.n = 1 /\ fl = pl
                     \/ e = 1 /\ d.n = 0 /\ Len(d.buf) < 2 /\ d.buf \o fl = L!Iv \o pl
  /\ k \in Framer => Framed(k, d.n, e, d.buf \o fl, pl) /\ L!Size(k, d.n, d.buf) = 0

Layer == [buf : Seq(Word), n : Nat]

(* Nothing under way carries nothing.                                      *)
LEMMA FramedEmpty ==
  ASSUME NEW k, NEW n \in Nat, NEW e, NEW p, Framed(k, n, e, <<>>, p)
  PROVE  p = <<>>
<1>1. PICK fs \in Seq(Seq(Word)), cs \in Seq(Seq(Byte)) : FramedBy(k, n, e, <<>>, p, fs, cs)
  BY DEF Framed
<1>2. Len(cs) = Len(fs) /\ L!FlattenSeq(fs) = <<>> /\ L!FlattenSeq(cs) = p
  BY <1>1 DEF FramedBy
<1>3. fs = <<>>
  <2> SUFFICES ASSUME fs # <<>> PROVE FALSE
    OBVIOUS
  <2>1. fs[1] \in Seq(Word) /\ Tail(fs) \in Seq(Seq(Word)) /\ L!FlattenSeq(fs) = fs[1] \o L!FlattenSeq(Tail(fs))
    BY FlattenFirst
  <2>2. L!FlattenSeq(Tail(fs)) \in Seq(Word)
    BY <2>1, FlattenType, SameFlatten
  <2>3. fs[1] = <<>>
    <3> DEFINE a == fs[1]
               x == L!FlattenSeq(Tail(fs))
    <3>1. a \in Seq(Word) /\ x \in Seq(Word) /\ a \o x = <<>>
      BY <1>2, <2>1, <2>2
    <3> HIDE DEF a, x
    <3>2. a = <<>>
      BY <3>1, WordParts
    <3> QED BY <3>2 DEF a
  <2>4. 1 \in 1..Len(fs)
    <3>1. Len(fs) \in Nat /\ Len(fs) # 0
      BY EmptySeq
    <3> QED BY <3>1
  <2>5. Sits(k, n + (L!Advance(k) * (1 - 1)), fs[1], cs[1])
    BY <1>1, <2>4 DEF FramedBy
  <2> QED BY <2>3, <2>5 DEF Sits
<1>4. cs = <<>>
  BY <1>2, <1>3, EmptySeq
<1>5. L!FlattenSeq(<<>>) = <<>>
  BY FlattenEmpty, SameFlatten
<1> QED BY <1>2, <1>4, <1>5

(* What the decoder could take, it has taken.                              *)
LEMMA FramedTaken ==
  ASSUME NEW k, NEW n \in Nat, NEW e, NEW b \in Seq(Word), NEW p, Framed(k, n, e, b, p), L!Size(k, n, b) = 0
  PROVE  b = <<>> /\ p = <<>>
<1>1. b = <<>>
  <2> SUFFICES ASSUME b # <<>> PROVE FALSE
    OBVIOUS
  <2>1. PICK f \in Seq(Word), c \in Seq(Byte), b2 \in Seq(Word), p2 \in Seq(Byte) :
           /\ Sits(k, n, f, c) /\ f \o b2 = b /\ c \o p2 = p
           /\ Framed(k, n + L!Advance(k), e, b2, p2)
    BY FramedFirst
  <2>2. L!Size(k, n, f \o b2) = Len(f)
    BY <2>1 DEF Sits
  <2>3. Len(f) # 0
    BY <2>1, NotEmpty DEF Sits
  <2> QED BY <2>1, <2>2, <2>3
<1> QED BY <1>1, FramedEmpty

(* The initial vector is two bytes.                                        *)
LEMMA IvIs == L!Iv \in Seq(Byte) /\ L!Iv \in Seq(Word) /\ Len(L!Iv) = 2
<1>1. 90 \in Byte /\ 91 \in Byte
  BY ByteIs
<1>2. L!Iv \in Seq(Byte) /\ Len(L!Iv) = 2
  BY <1>1 DEF L!Iv
<1> QED BY <1>2, BytesAreWords

(* What is left when the initial vector is taken from the start.           *)
LEMMA IvTaken ==
  ASSUME NEW a \in Seq(Word), NEW x \in Seq(Word), NEW y \in Seq(Word), a \o x = L!Iv \o y, Len(a) >= 2
  PROVE  L!After(a, 2) \in Seq(Word) /\ L!After(a, 2) \o x = y
<1> DEFINE v == L!Iv
<1>1. v \in Seq(Word) /\ Len(v) = 2 /\ a \o x = v \o y /\ Len(a) >= Len(v)
  BY IvIs
<1> HIDE DEF v
<1> DEFINE t == L!After(a, Len(v))
<1>2. v \in Seq(Word) /\ a \o x = v \o y /\ Len(a) >= Len(v)
  BY <1>1
<1>3. t \in Seq(Word) /\ v \o t = a /\ t \o x = y /\ SubSeq(a, 1, Len(v)) = v
  BY <1>2, WordOverlap
<1> QED BY <1>1, <1>3

(* Where nothing is under way below, nothing is left above.                *)
LEMMA Nothing ==
  ASSUME NEW k \in L!Kind \union {"none"}, NEW d, k # "none" => d \in Layer, NEW e, NEW pl, Spans(k, d, e, <<>>, pl)
  PROVE  pl = <<>>
<1>0. pl \in Seq(Byte) /\ pl \in Seq(Word)
  BY BytesAreWords DEF Spans
<1>1. CASE k = "none"
  BY <1>1 DEF Spans
<1>2. CASE k \in {"stream", "rc4"}
  <2>1. \E n \in Nat : L!Crypt(n, pl) = <<>>
    <3>1. d.n \in Nat /\ L!Crypt(d.n, pl) = <<>>
      BY <1>2 DEF Spans, Layer
    <3> QED BY <3>1
  <2>2. PICK n \in Nat : L!Crypt(n, pl) = <<>>
    BY <2>1
  <2>3. Len(L!Crypt(n, pl)) = Len(pl)
    BY <1>0, CryptIs
  <2>4. Len(pl) = 0
    BY <2>2, <2>3
  <2> QED BY <1>0, <2>4, NotEmpty
<1>3. CASE k = "iv"
  <2>1. ASSUME Len(d.buf) < 2, d.buf \o <<>> = L!Iv \o pl PROVE FALSE
    <3> DEFINE b == d.buf
    <3>1. b \in Seq(Word) /\ b \o <<>> = L!Iv \o pl /\ Len(b) < 2
      BY <1>3, <2>1 DEF Layer
    <3> HIDE DEF b
    <3>2. b \o <<>> = b
      BY <3>1, ConcatEmptySeq
    <3>3. Len(L!Iv \o pl) = 2 + Len(pl) /\ Len(pl) \in Nat
      <4> DEFINE v == L!Iv
      <4>1. v \in Seq(Word) /\ Len(v) = 2
        BY IvIs
      <4> HIDE DEF v
      <4>2. Len(v \o pl) = Len(v) + Len(pl)
        BY <1>0, <4>1, WordParts
      <4>3. Len(pl) \in Nat
        BY <1>0, NotEmpty
      <4> QED BY <4>1, <4>2, <4>3 DEF v
    <3> QED BY <3>1, <3>2, <3>3
  <2> QED BY <1>3, <2>1 DEF Spans
<1>4. CASE k \in Framer
  <2> DEFINE b == d.buf
             n == d.n
  <2>1. b \in Seq(Word) /\ n \in Nat /\ Framed(k, n, e, b \o <<>>, pl) /\ L!Size(k, n, b) = 0
    BY <1>4 DEF Spans, Layer, Framer
  <2> HIDE DEF b, n
  <2>2. b \o <<>> = b
    BY <2>1, ConcatEmptySeq
  <2> QED BY <2>1, <2>2, FramedTaken
<1> QED BY <1>1, <1>2, <1>3, <1>4 DEF L!Kind, Framer

(* Decryption of the start of what is under way.                           *)
LEMMA CryptPart ==
  ASSUME NEW n \in Nat, NEW pl \in Seq(Byte), NEW data \in Seq(Word), NEW rest \in Seq(Word),
         L!Crypt(n, pl) = data \o rest
  PROVE  LET p == L!Decrypt(n, data)
             q == L!After(pl, Len(data))
         IN /\ p \in Seq(Byte) /\ q \in Seq(Byte) /\ p \o q = pl /\ L!Crypt(n + Len(data), q) = rest
            /\ Len(data) \in Nat /\ Len(q) \in Nat /\ Len(pl) = Len(data) + Len(q)
<1> DEFINE p == SubSeq(pl, 1, Len(data))
           q == L!After(pl, Len(data))
           c == L!Crypt(n, p)
           f == L!Crypt(n + Len(data), q)
<1>1. Len(data) \in Nat /\ Len(pl) = Len(data) + Len(rest) /\ Len(rest) \in Nat
  <2>1. Len(L!Crypt(n, pl)) = Len(pl)
    BY CryptIs
  <2>2. Len(data \o rest) = Len(data) + Len(rest) /\ Len(data) \in Nat /\ Len(rest) \in Nat
    BY Heads
  <2> QED BY <2>1, <2>2
<1>2. /\ p \in Seq(Byte) /\ q \in Seq(Byte) /\ p \o q = pl /\ Len(p) = Len(data)
      /\ Len(q) \in Nat /\ Len(pl) = Len(data) + Len(q)
  <2>1. Len(data) \in 0..Len(pl)
    BY <1>1
  <2>2. p \in Seq(Byte) /\ q \in Seq(Byte) /\ p \o q = pl /\ Len(p) = Len(data) /\ Len(q) = Len(pl) - Len(data)
    BY <2>1, Cut
  <2> HIDE DEF p, q
  <2> QED BY <1>1, <2>2
<1> HIDE DEF p, q
<1>3. n + Len(data) \in Nat
  BY <1>1
<1>4. L!Crypt(n, p \o q) = c \o f
  <2>1. L!Crypt(n, p \o q) = L!Crypt(n, p) \o L!Crypt(n + Len(p), q)
    BY <1>2, CryptConcat
  <2> QED BY <1>2, <2>1
<1>5. c \in Seq(Byte) /\ f \in Seq(Byte) /\ Len(c) = Len(data) /\ L!Decrypt(n, c) = p
  BY <1>2, <1>3, CryptIs
<1> HIDE DEF c, f
<1>6. c \in Seq(Word) /\ f \in Seq(Word) /\ data \o rest = c \o f
  BY <1>2, <1>4, <1>5, BytesAreWords
<1>7. data = c /\ rest = f
  BY <1>5, <1>6, Halves
<1> QED BY <1>1, <1>2, <1>5, <1>7 DEF f, q

(* One layer of the reader takes data, the rest follows.                   *)
Taken(k, o, e, rest, pl) ==
  /\ o.torn = FALSE /\ o.ok = TRUE /\ o.out \in Seq(Byte) /\ o.buf \in Seq(Word) /\ o.n \in Nat
  /\ \E q \in Seq(Byte) : o.out \o q = pl /\ Spans(k, [buf |-> o.buf, n |-> o.n], e, rest, q)

(* A layer takes data: it delivers the start of what is to come above it,  *)
(* and stands before the rest.                                             *)
LEMMA DecodeLayer ==
  ASSUME NEW k \in L!Kind, NEW d \in Layer, NEW e, NEW data \in Seq(Word), NEW rest \in Seq(Word), NEW pl,
         Spans(k, d, e, data \o rest, pl), k = "rc4" => rest = <<>>
  PROVE  LET o == L!Decode(k, d, data)
         IN o.torn = TRUE \/ Taken(k, o, e, rest, pl)
<1> DEFINE o == L!Decode(k, d, data)
           b == d.buf
           n == d.n
           q == L!After(pl, Len(data))
<1>1. b \in Seq(Word) /\ n \in Nat /\ pl \in Seq(Byte) /\ pl \in Seq(Word)
  BY BytesAreWords DEF Layer, Spans
<1>2. CASE k = "stream"
  <2>1. e = n + Len(pl) /\ L!Crypt(n, pl) = data \o rest
    BY <1>2 DEF Spans
  <2> DEFINE x == L!Decrypt(n, data)
  <2>2. /\ x \in Seq(Byte) /\ q \in Seq(Byte) /\ x \o q = pl /\ L!Crypt(n + Len(data), q) = rest
        /\ Len(data) \in Nat /\ Len(q) \in Nat /\ Len(pl) = Len(data) + Len(q)
    <3> HIDE DEF n, o, b
    <3>1. n \in Nat /\ pl \in Seq(Byte) /\ L!Crypt(n, pl) = data \o rest
      BY <1>1, <2>1
    <3> QED BY <3>1, CryptPart, Zenon
  <2>3. o = L!Read(<<>>, n + Len(data), x)
    BY <1>2 DEF L!Decode
  <2> HIDE DEF o, n, x, q
  <2>4. o.buf = <<>> /\ o.n = n + Len(data) /\ o.out = x /\ o.ok = TRUE /\ o.torn = FALSE
    BY <2>3 DEF L!Read
  <2>5. e = (n + Len(data)) + Len(q)
    BY <1>1, <2>1, <2>2
  <2>6. Spans(k, [buf |-> o.buf, n |-> o.n], e, rest, q)
    BY <1>2, <2>2, <2>4, <2>5 DEF Spans, Framer
  <2>7. o.buf \in Seq(Word) /\ o.n \in Nat
    BY <1>1, <2>2, <2>4, EmptySeq
  <2>8. Taken(k, o, e, rest, pl)
    BY <2>2, <2>4, <2>6, <2>7 DEF Taken
  <2> QED BY <2>8 DEF o
<1>3. CASE k = "rc4"
  <2>1. e = 0 /\ n = 0 /\ L!Crypt(0, pl) = data \o rest /\ rest = <<>>
    BY <1>3 DEF Spans
  <2> DEFINE x == L!Decrypt(n, data)
  <2>2. /\ x \in Seq(Byte) /\ q \in Seq(Byte) /\ x \o q = pl /\ L!Crypt(n + Len(data), q) = rest
        /\ Len(data) \in Nat /\ Len(q) \in Nat /\ Len(pl) = Len(data) + Len(q)
    <3> HIDE DEF n, o, b
    <3>1. n \in Nat /\ pl \in Seq(Byte) /\ L!Crypt(n, pl) = data \o rest
      BY <1>1, <2>1
    <3> QED BY <3>1, CryptPart, Zenon
  <2>3. o = L!Read(<<>>, 0, x)
    BY <1>3 DEF L!Decode
  <2> HIDE DEF o, n, x, q
  <2>4. o.buf = <<>> /\ o.n = 0 /\ o.out = x /\ o.ok = TRUE /\ o.torn = FALSE
    BY <2>3 DEF L!Read
  <2>5. q = <<>>
    <3>1. Len(L!Crypt(n + Len(data), q)) = Len(q)
      <4>1. n + Len(data) \in Nat
        BY <1>1, <2>2
      <4> QED BY <2>2, <4>1, CryptIs
    <3>2. Len(q) = 0
      BY <2>1, <2>2, <3>1
    <3> QED BY <2>2, <3>2, EmptySeq
  <2>6. L!Crypt(0, <<>>) = <<>>
    <3>1. <<>> \in Seq(Byte) /\ 0 \in Nat /\ Len(<<>>) = 0
      BY EmptySeq
    <3>2. L!Crypt(0, <<>>) \in Seq(Byte) /\ Len(L!Crypt(0, <<>>)) = 0
      BY <3>1, CryptIs
    <3> QED BY <3>2, EmptySeq
  <2>7. Spans(k, [buf |-> o.buf, n |-> o.n], e, rest, q)
    BY <1>3, <2>1, <2>2, <2>4, <2>5, <2>6 DEF Spans, Framer
  <2>8. o.buf \in Seq(Word) /\ o.n \in Nat
    BY <2>4, EmptySeq
  <2>9. Taken(k, o, e, rest, pl)
    BY <2>2, <2>4, <2>7, <2>8 DEF Taken
  <2> QED BY <2>9 DEF o
<1>4. CASE k \in Framer
  <2>1. Framed(k, n, e, b \o (data \o rest), pl)
    BY <1>4 DEF Spans
  <2>2. o.torn = TRUE \/ (Tells(k, o, e, rest, pl) /\ L!Size(k, o.n, o.buf) = 0)
    BY <1>1, <1>4, <2>1, DecodeFramed
  <2> HIDE DEF o
  <2>3. ASSUME Tells(k, o, e, rest, pl), L!Size(k, o.n, o.buf) = 0 PROVE Taken(k, o, e, rest, pl)
    <3>1. PICK y \in Seq(Byte) : Framed(k, o.n, e, o.buf \o rest, y) /\ o.out \o y = pl
      BY <2>3 DEF Tells
    <3>2. Spans(k, [buf |-> o.buf, n |-> o.n], e, rest, y)
      BY <1>4, <2>3, <3>1 DEF Spans, Framer
    <3> QED BY <2>3, <3>1, <3>2 DEF Taken, Tells
  <2> QED BY <2>2, <2>3 DEF o
<1>5. CASE k = "iv"
  <2>1. \/ e = 0 /\ n = 0 /\ b = <<>> /\ data \o rest = <<>> /\ pl = <<>>
        \/ e = 1 /\ n = 1 /\ data \o rest = pl
        \/ e = 1 /\ n = 0 /\ Len(b) < 2 /\ b \o (data \o rest) = L!Iv \o pl
    BY <1>5 DEF Spans
  <2> DEFINE all == b \o data
  <2>2. o = IF n = 1 THEN L!Read(<<>>, 1, data)
            ELSE IF Len(all) < Len(L!Iv) THEN L!Read(all, n, <<>>)
            ELSE L!Read(<<>>, 1, L!After(all, Len(L!Iv)))
    BY <1>5 DEF L!Decode
  <2>3. all \in Seq(Word) /\ Len(all) \in Nat /\ b \o (data \o rest) = all \o rest
    <3> HIDE DEF b
    <3>1. (b \o data) \o rest = b \o (data \o rest) /\ b \o data \in Seq(Word)
      <4>1. b \in Seq(Word)
        BY <1>1
      <4> HIDE DEF n, o, q
      <4> QED BY <4>1, WordAssoc
    <3> QED BY <3>1, LenProperties
  <2> HIDE DEF o, b, n
  <2>4. <<>> \in Seq(Byte) /\ <<>> \in Seq(Word) /\ <<>> \o <<>> = <<>>
    <3>1. <<>> \in Seq(Byte) /\ <<>> \in Seq(Word)
      BY EmptySeq
    <3> QED BY <3>1, WordParts
  <2>5. CASE e = 0 /\ n = 0 /\ b = <<>> /\ data \o rest = <<>> /\ pl = <<>>
    <3>1. data = <<>> /\ rest = <<>>
      BY <2>5, WordParts
    <3>2. all = <<>> /\ Len(all) = 0
      BY <2>4, <2>5, <3>1, EmptySeq
    <3>3. o = L!Read(<<>>, 0, <<>>)
      BY <2>2, <2>5, <3>2, IvIs
    <3>4. o.buf = <<>> /\ o.n = 0 /\ o.out = <<>> /\ o.ok = TRUE /\ o.torn = FALSE
      BY <3>3 DEF L!Read
    <3>5. Spans(k, [buf |-> o.buf, n |-> o.n], e, rest, <<>>)
      BY <1>5, <2>4, <2>5, <3>1, <3>4 DEF Spans, Framer
    <3>6. o.out \o <<>> = pl
      BY <2>4, <2>5, <3>4
    <3>7. o.out \in Seq(Byte) /\ o.buf \in Seq(Word) /\ o.n \in Nat
      BY <2>4, <3>4
    <3>8. Taken(k, o, e, rest, pl)
      BY <2>4, <3>4, <3>5, <3>6, <3>7 DEF Taken
    <3> QED BY <3>8 DEF o
  <2>6. CASE e = 1 /\ n = 1 /\ data \o rest = pl
    <3>1. o = L!Read(<<>>, 1, data)
      BY <2>2, <2>6
    <3>2. o.buf = <<>> /\ o.n = 1 /\ o.out = data /\ o.ok = TRUE /\ o.torn = FALSE
      BY <3>1 DEF L!Read
    <3>3. data \in Seq(Byte) /\ rest \in Seq(Byte)
      <4>1. Len(data) \in 0..Len(pl)
        <5>1. Len(data) \in Nat /\ Len(rest) \in Nat /\ Len(data \o rest) = Len(data) + Len(rest)
          BY Heads
        <5> QED BY <2>6, <5>1
      <4>2. SubSeq(pl, 1, Len(data)) \in Seq(Byte) /\ L!After(pl, Len(data)) \in Seq(Byte)
        BY <1>1, <4>1, Cut
      <4>3. SubSeq(data \o rest, 1, Len(data)) = data /\ L!After(data \o rest, Len(data)) = rest
        BY WordParts
      <4> QED BY <2>6, <4>2, <4>3
    <3>4. Spans(k, [buf |-> o.buf, n |-> o.n], e, rest, rest)
      BY <1>5, <2>6, <3>2, <3>3 DEF Spans, Framer
    <3>5. Taken(k, o, e, rest, pl)
      BY <2>4, <2>6, <3>2, <3>3, <3>4 DEF Taken
    <3> QED BY <3>5 DEF o
  <2>7. CASE e = 1 /\ n = 0 /\ Len(b) < 2 /\ b \o (data \o rest) = L!Iv \o pl
    <3>1. all \o rest = L!Iv \o pl /\ Len(L!Iv) = 2 /\ L!Iv \in Seq(Word)
      BY <2>3, <2>7, IvIs
    <3> HIDE DEF all
    <3>2. CASE Len(all) < 2
      <4>1. o = L!Read(all, 0, <<>>)
        BY <2>2, <2>7, <3>1, <3>2
      <4>2. o.buf = all /\ o.n = 0 /\ o.out = <<>> /\ o.ok = TRUE /\ o.torn = FALSE
        BY <4>1 DEF L!Read
      <4>3. Spans(k, [buf |-> o.buf, n |-> o.n], e, rest, pl)
        BY <1>1, <1>5, <2>7, <3>1, <3>2, <4>2 DEF Spans, Framer
      <4>4. o.out \o pl = pl
        BY <1>1, <4>2, WordParts
      <4>5. Taken(k, o, e, rest, pl)
        BY <1>1, <2>3, <2>4, <4>2, <4>3, <4>4 DEF Taken
      <4> QED BY <4>5 DEF o
    <3>3. CASE ~(Len(all) < 2)
      <4> DEFINE t == L!After(all, 2)
      <4>1. o = L!Read(<<>>, 1, t)
        BY <2>2, <2>7, <3>1, <3>3
      <4>2. o.buf = <<>> /\ o.n = 1 /\ o.out = t /\ o.ok = TRUE /\ o.torn = FALSE
        BY <4>1 DEF L!Read
      <4>3. t \in Seq(Word) /\ t \o rest = pl
        <5>1. all \in Seq(Word) /\ pl \in Seq(Word) /\ all \o rest = L!Iv \o pl /\ Len(all) >= 2
          BY <1>1, <2>3, <3>1, <3>3
        <5> QED BY <5>1, IvTaken
      <4> HIDE DEF t
      <4>4. t \in Seq(Byte) /\ rest \in Seq(Byte)
        <5>1. Len(t) \in 0..Len(pl)
          <6>1. Len(t) \in Nat /\ Len(rest) \in Nat /\ Len(t \o rest) = Len(t) + Len(rest)
            BY <4>3, Heads
          <6> QED BY <4>3, <6>1
        <5>2. SubSeq(pl, 1, Len(t)) \in Seq(Byte) /\ L!After(pl, Len(t)) \in Seq(Byte)
          BY <1>1, <5>1, Cut
        <5>3. SubSeq(t \o rest, 1, Len(t)) = t /\ L!After(t \o rest, Len(t)) = rest
          BY <4>3, WordParts
        <5> QED BY <4>3, <5>2, <5>3
      <4>5. Spans(k, [buf |-> o.buf, n |-> o.n], e, rest, rest)
        BY <1>5, <2>7, <4>2, <4>4 DEF Spans, Framer
      <4>6. Taken(k, o, e, rest, pl)
        BY <2>4, <4>2, <4>3, <4>4, <4>5 DEF Taken
      <4> QED BY <4>6 DEF o
    <3> QED BY <3>2, <3>3
  <2> QED BY <2>1, <2>5, <2>6, <2>7
<1> QED BY <1>2, <1>3, <1>4, <1>5 DEF L!Kind, Framer

-----------------------------------------------------------------------------
(***************************************************************************)
(* The readers and the writers of a layer.                                 *)
(***************************************************************************)
Reader(r) == r.dec \in [L!Kind -> Layer] /\ r.data \in Seq(Word) /\ r.ok = TRUE /\ r.torn = FALSE

(* A layer of the reader has taken data, and stands at d2.                 *)
Passed(k, d2, e, data, rest, pl) ==
  \E q \in Seq(Byte) : data \o q = pl /\ Spans(k, d2, e, rest, q)

(* The parts of a sequence of bytes are bytes.                             *)
LEMMA ByteParts ==
  ASSUME NEW a \in Seq(Word), NEW b \in Seq(Word), a \o b \in Seq(Byte)
  PROVE  a \in Seq(Byte) /\ b \in Seq(Byte)
<1> DEFINE p == a \o b
<1>1. Len(a) \in 0..Len(p)
  <2>1. Len(a) \in Nat /\ Len(b) \in Nat /\ Len(a \o b) = Len(a) + Len(b)
    BY Heads
  <2> QED BY <2>1
<1>2. SubSeq(p, 1, Len(a)) = a /\ L!After(p, Len(a)) = b
  BY WordParts
<1>3. p \in Seq(Byte)
  OBVIOUS
<1> HIDE DEF p
<1>4. SubSeq(p, 1, Len(a)) \in Seq(Byte) /\ L!After(p, Len(a)) \in Seq(Byte)
  BY <1>1, <1>3, Cut
<1> QED BY <1>2, <1>4

(* A torn reader stays torn.                                               *)
LEMMA TakeTorn ==
  ASSUME NEW k, NEW r, r.torn = TRUE
  PROVE  L!Take(k, r).torn = TRUE
BY DEF L!Take

(* A layer of the reader takes what the layer below delivered, or is torn. *)
LEMMA TakeLayer ==
  ASSUME NEW k \in L!Kind \union {"none"}, NEW r, Reader(r), NEW e, NEW rest \in Seq(Word), NEW pl,
         Spans(k, r.dec[k], e, r.data \o rest, pl), k = "rc4" => rest = <<>>
  PROVE  LET z == L!Take(k, r)
         IN \/ z.torn = TRUE
            \/ /\ Reader(z) /\ (\A j \in L!Kind : j # k => z.dec[j] = r.dec[j])
               /\ z.data \in Seq(Byte) /\ Passed(k, z.dec[k], e, z.data, rest, pl)
<1> DEFINE z == L!Take(k, r)
           d == r.dec[k]
           data == r.data
           o == L!Decode(k, d, data)
           u == [buf |-> o.buf, n |-> o.n]
<1>0. data \in Seq(Word) /\ r.ok = TRUE /\ r.torn = FALSE /\ r.dec \in [L!Kind -> Layer]
  BY DEF Reader
<1>1. CASE k = "none"
  <2>1. z = r
    BY <1>1 DEF L!Take
  <2>2. data \o rest = pl /\ pl \in Seq(Byte)
    BY <1>1 DEF Spans
  <2> HIDE DEF data
  <2>3. data \in Seq(Byte) /\ rest \in Seq(Byte)
    BY <1>0, <2>2, ByteParts
  <2>4. Spans(k, r.dec[k], e, rest, rest)
    BY <1>1, <2>3 DEF Spans, Framer
  <2>5. Passed(k, r.dec[k], e, data, rest, pl)
    BY <2>2, <2>3, <2>4 DEF Passed
  <2> HIDE DEF z
  <2> QED BY <2>1, <2>3, <2>5 DEF z, data
<1>2. CASE k # "none"
  <2>1. k \in L!Kind /\ d \in Layer
    BY <1>0, <1>2
  <2>2. o.torn = TRUE \/ Taken(k, o, e, rest, pl)
    <3>1. Spans(k, d, e, data \o rest, pl)
      OBVIOUS
    <3> HIDE DEF d, data
    <3> QED BY <1>0, <2>1, <3>1, DecodeLayer
  <2>3. z = [dec |-> [r.dec EXCEPT ![k] = u], data |-> o.out, ok |-> o.ok, torn |-> r.torn \/ o.torn]
    BY <1>0, <1>2 DEF L!Take
  <2> HIDE DEF o
  <2>4. z.dec = [r.dec EXCEPT ![k] = u] /\ z.data = o.out /\ z.ok = o.ok /\ z.torn = (r.torn \/ o.torn)
    <3> HIDE DEF z, u
    <3> QED BY <2>3
  <2> HIDE DEF z
  <2>5. CASE o.torn = TRUE
    <3>1. z.torn = TRUE
      BY <2>4, <2>5
    <3> QED BY <3>1 DEF z
  <2>6. CASE Taken(k, o, e, rest, pl)
    <3>1. PICK q \in Seq(Byte) : o.out \o q = pl /\ Spans(k, u, e, rest, q)
      BY <2>6 DEF Taken
    <3>2. u \in Layer /\ o.torn = FALSE /\ o.ok = TRUE /\ o.out \in Seq(Byte)
      BY <2>6 DEF Taken, Layer
    <3> HIDE DEF u
    <3>3. /\ z.dec \in [L!Kind -> Layer] /\ z.dec[k] = u
          /\ \A j \in L!Kind : j # k => z.dec[j] = r.dec[j]
      BY <1>0, <2>1, <2>4, <3>2
    <3>4. z.torn = FALSE
      BY <1>0, <2>4, <3>2
    <3>5. Reader(z) /\ z.data \in Seq(Byte)
      BY <2>4, <3>2, <3>3, <3>4, BytesAreWords DEF Reader
    <3>6. Passed(k, z.dec[k], e, z.data, rest, pl)
      BY <2>4, <3>1, <3>3 DEF Passed
    <3> QED BY <3>3, <3>5, <3>6 DEF z
  <2> QED BY <2>2, <2>5, <2>6
<1> QED BY <1>1, <1>2

(* A layer of the writer appends to what is under way below it what it was *)
(* given above.                                                            *)
LEMMA EncodeLayer ==
  ASSUME L!BoundsOK, NEW k \in L!Kind, NEW n \in Nat, NEW s, NEW size, NEW pad, Fits(k, s, size, pad),
         k = "iv" => n = 1, NEW d \in Layer, NEW fl, NEW pl, Spans(k, d, n, fl, pl), k = "rc4" => fl = <<>>
  PROVE  LET o == L!Encode(k, n, s, size, pad)
         IN /\ o.n \in Nat /\ o.data \in Seq(Word) /\ (k # "ticket" => o.data \in Seq(Byte))
            /\ Spans(k, d, o.n, fl \o o.data, pl \o s)
<1> DEFINE o == L!Encode(k, n, s, size, pad)
           b == d.buf
           m == d.n
           g == fl \o o.data
           p == pl \o s
<1>0. /\ s \in Seq(Byte) /\ s \in Seq(Word) /\ fl \in Seq(Word) /\ pl \in Seq(Byte) /\ pl \in Seq(Word)
      /\ b \in Seq(Word) /\ m \in Nat /\ Len(s) \in Nat /\ Len(pl) \in Nat /\ Len(p) = Len(pl) + Len(s)
      /\ p \in Seq(Byte)
  <2>1. s \in Seq(Byte) /\ fl \in Seq(Word) /\ pl \in Seq(Byte) /\ b \in Seq(Word) /\ m \in Nat
    BY DEF Fits, Spans, Layer
  <2>2. p \in Seq(Byte) /\ Len(p) = Len(pl) + Len(s) /\ Len(s) \in Nat /\ Len(pl) \in Nat
    BY <2>1, Made
  <2> HIDE DEF b, m, p
  <2> QED BY <2>1, <2>2, BytesAreWords
<1>1. CASE k = "stream"
  <2>1. n = m + Len(pl) /\ L!Crypt(m, pl) = fl
    BY <1>1 DEF Spans
  <2> DEFINE c == L!Crypt(n, s)
  <2>2. o = [data |-> c, n |-> n + Len(s)]
    BY <1>1 DEF L!Encode
  <2> HIDE DEF o
  <2>3. o.data = c /\ o.n = n + Len(s)
    <3> HIDE DEF c
    <3> QED BY <2>2
  <2>4. L!Crypt(m, p) = L!Crypt(m, pl) \o L!Crypt(m + Len(pl), s)
    <3> HIDE DEF m
    <3> QED BY <1>0, CryptConcat
  <2>5. c \in Seq(Byte) /\ c \in Seq(Word)
    BY <1>0, CryptIs, BytesAreWords
  <2>6. L!Crypt(m, p) = g /\ g \in Seq(Word)
    <3>1. L!Crypt(m, p) = fl \o c
      BY <2>1, <2>4
    <3>2. fl \o c \in Seq(Word)
      BY <1>0, <2>5, WordParts
    <3> HIDE DEF c, p
    <3> QED BY <2>3, <3>1, <3>2
  <2>7. n + Len(s) = m + Len(p) /\ n + Len(s) \in Nat
    <3> HIDE DEF m, p
    <3> QED BY <1>0, <2>1
  <2> HIDE DEF c, g, p
  <2>8. Spans(k, d, o.n, g, p)
    BY <1>0, <1>1, <2>3, <2>6, <2>7 DEF Spans, Framer
  <2> QED BY <2>3, <2>5, <2>7, <2>8 DEF o, g, p
<1>2. CASE k = "rc4"
  <2>1. n = 0 /\ m = 0 /\ fl = <<>>
    BY <1>2 DEF Spans
  <2>2. pl = <<>>
    BY <1>2, <2>1, Nothing
  <2> DEFINE c == L!Crypt(0, s)
  <2>3. o = [data |-> c, n |-> 0]
    BY <1>2, <2>1 DEF L!Encode
  <2> HIDE DEF o
  <2>4. o.data = c /\ o.n = 0
    <3> HIDE DEF c
    <3> QED BY <2>3
  <2>5. c \in Seq(Byte) /\ c \in Seq(Word)
    <3>1. 0 \in Nat
      OBVIOUS
    <3> QED BY <1>0, <3>1, CryptIs, BytesAreWords
  <2>6. p = s /\ g = c
    <3>1. <<>> \o s = s /\ <<>> \o c = c
      BY <1>0, <2>5, WordParts
    <3> HIDE DEF c
    <3> QED BY <2>1, <2>2, <2>4, <3>1
  <2>7. L!Crypt(0, p) = g
    BY <2>6
  <2> HIDE DEF c, g, p
  <2>8. Spans(k, d, o.n, g, p)
    BY <1>0, <1>2, <2>1, <2>4, <2>5, <2>6, <2>7 DEF Spans, Framer
  <2> QED BY <2>4, <2>5, <2>8 DEF o, g, p
<1>3. CASE k = "iv"
  <2>1. o = [data |-> s, n |-> 1]
    BY <1>3 DEF L!Encode
  <2> HIDE DEF o
  <2>2. o.data = s /\ o.n = 1 /\ g = fl \o s
    BY <2>1
  <2>3. \/ m = 1 /\ fl = pl
        \/ m = 0 /\ Len(b) < 2 /\ b \o fl = L!Iv \o pl
    BY <1>3 DEF Spans
  <2>4. g \in Seq(Word)
    <3>1. fl \o s \in Seq(Word)
      BY <1>0, WordParts
    <3> HIDE DEF g
    <3> QED BY <2>2, <3>1
  <2>5. \/ m = 1 /\ g = p
        \/ m = 0 /\ Len(b) < 2 /\ b \o g = L!Iv \o p
    <3>1. CASE m = 1 /\ fl = pl
      BY <2>2, <3>1
    <3>2. CASE m = 0 /\ Len(b) < 2 /\ b \o fl = L!Iv \o pl
      <4> DEFINE v == L!Iv
      <4>1. v \in Seq(Word) /\ b \o fl = v \o pl
        BY <3>2, IvIs
      <4> HIDE DEF v, b
      <4>2. (b \o fl) \o s = b \o (fl \o s)
        BY <1>0, WordAssoc
      <4>3. (v \o pl) \o s = v \o (pl \o s)
        BY <1>0, <4>1, WordAssoc
      <4>4. b \o (fl \o s) = v \o (pl \o s)
        BY <4>1, <4>2, <4>3
      <4> HIDE DEF g
      <4>5. b \o g = v \o (pl \o s)
        BY <2>2, <4>4
      <4> QED BY <3>2, <4>5 DEF v
    <3> QED BY <2>3, <3>1, <3>2
  <2> HIDE DEF g, p
  <2>6. Spans(k, d, o.n, g, p)
    BY <1>0, <1>3, <2>2, <2>4, <2>5 DEF Spans, Framer
  <2> QED BY <1>0, <2>2, <2>6 DEF o, g, p
<1>4. CASE k \in Framer
  <2>1. Framed(k, m, n, b \o fl, pl) /\ L!Size(k, m, b) = 0
    BY <1>4 DEF Spans
  <2>2. /\ o.data \in Seq(Word) /\ (k # "ticket" => o.data \in Seq(Byte)) /\ o.n \in Nat
        /\ Framed(k, n, o.n, o.data, s)
    BY <1>4, EncodeFrames
  <2> DEFINE x == o.data
             e == o.n
             h == b \o fl
  <2>3. x \in Seq(Word) /\ Framed(k, n, e, x, s) /\ Framed(k, m, n, h, pl)
    BY <2>1, <2>2
  <2> HIDE DEF o, x, e, h
  <2>4. Framed(k, m, e, h \o x, pl \o s)
    <3>1. m \in Nat
      BY <1>0
    <3> HIDE DEF m
    <3> QED BY <2>3, <3>1, FramedJoin
  <2>5. h \o x = b \o g /\ g \in Seq(Word)
    <3> HIDE DEF b
    <3>1. (b \o fl) \o x = b \o (fl \o x) /\ fl \o x \in Seq(Word)
      <4>1. b \in Seq(Word) /\ fl \in Seq(Word) /\ x \in Seq(Word)
        BY <1>0, <2>3
      <4> HIDE DEF g, p, m
      <4> QED BY <4>1, WordAssoc
    <3> QED BY <3>1 DEF h, x
  <2> HIDE DEF g, p
  <2>6. Framed(k, m, e, b \o g, p)
    BY <2>4, <2>5 DEF p
  <2>7. Spans(k, d, o.n, g, p)
    BY <1>0, <1>4, <2>1, <2>5, <2>6 DEF Spans, Framer, e
  <2> QED BY <2>2, <2>7 DEF o, g, p
<1> QED BY <1>1, <1>2, <1>3, <1>4 DEF L!Kind, Framer

(* The same of the writer as a whole: its other layers do not move.        *)
LEMMA PassLayer ==
  ASSUME L!BoundsOK, NEW k \in L!Kind \union {"none"}, NEW w, w.n \in [L!Kind -> Nat], NEW size, NEW pad,
         Fits(k, w.data, size, pad), k = "iv" => w.n[k] = 1, NEW d, k # "none" => d \in Layer,
         NEW fl, NEW pl, Spans(k, d, w.n[k], fl, pl), k = "rc4" => fl = <<>>
  PROVE  LET z == L!Pass(k, w, size, pad)
         IN /\ z.n \in [L!Kind -> Nat] /\ (\A j \in L!Kind : j # k => z.n[j] = w.n[j])
            /\ z.data \in Seq(Word) /\ (k # "ticket" => z.data \in Seq(Byte)) /\ (k = "none" => z.data = w.data)
            /\ Spans(k, d, z.n[k], fl \o z.data, pl \o w.data)
<1> DEFINE z == L!Pass(k, w, size, pad)
           s == w.data
           n == w.n[k]
           o == L!Encode(k, n, s, size, pad)
<1>1. CASE k = "none"
  <2>1. z = w
    BY <1>1 DEF L!Pass
  <2>2. fl = pl /\ pl \in Seq(Byte) /\ fl \in Seq(Word) /\ s \in Seq(Byte)
    BY <1>1 DEF Spans, Fits
  <2> HIDE DEF s
  <2>3. fl \o s = pl \o s /\ pl \o s \in Seq(Byte) /\ fl \o s \in Seq(Word) /\ s \in Seq(Word)
    BY <2>2, ByteConcat, BytesAreWords
  <2>4. Spans(k, d, w.n[k], fl \o s, pl \o s)
    BY <1>1, <2>3 DEF Spans, Framer
  <2> HIDE DEF z
  <2> QED BY <1>1, <2>1, <2>2, <2>3, <2>4 DEF z, s
<1>2. CASE k # "none"
  <2>1. k \in L!Kind /\ d \in Layer /\ n \in Nat
    BY <1>2
  <2>2. /\ o.n \in Nat /\ o.data \in Seq(Word) /\ (k # "ticket" => o.data \in Seq(Byte))
        /\ Spans(k, d, o.n, fl \o o.data, pl \o s)
    <3>1. Fits(k, s, size, pad) /\ (k = "iv" => n = 1) /\ Spans(k, d, n, fl, pl)
      OBVIOUS
    <3> HIDE DEF n, s
    <3> QED BY <2>1, <3>1, EncodeLayer
  <2>3. z = [n |-> [w.n EXCEPT ![k] = o.n], data |-> o.data]
    BY <1>2 DEF L!Pass
  <2> HIDE DEF o, s, n, z
  <2>4. z.n = [w.n EXCEPT ![k] = o.n] /\ z.data = o.data
    BY <2>3
  <2>5. z.n \in [L!Kind -> Nat] /\ z.n[k] = o.n /\ \A j \in L!Kind : j # k => z.n[j] = w.n[j]
    BY <2>1, <2>2, <2>4
  <2> QED BY <1>2, <2>2, <2>4, <2>5 DEF z, s
<1> QED BY <1>1, <1>2

(* The initialization vector goes before the first write.                  *)
Opened(w, z, d, fl, pl) ==
  /\ z.n \in [L!Kind -> Nat] /\ (\A j \in L!Kind : j # "iv" => z.n[j] = w.n[j])
  /\ z.n["iv"] = 1 /\ z.data = w.data
  /\ Spans("iv", d, 1, (fl \o L!Iv) \o w.data, pl \o w.data)

(* The first write makes the initial vector.                               *)
LEMMA PassFirst ==
  ASSUME NEW w, w.n \in [L!Kind -> Nat], NEW size, NEW pad, w.data \in Seq(Byte), w.n["iv"] = 0,
         NEW d \in Layer, NEW fl, NEW pl, Spans("iv", d, 0, fl, pl)
  PROVE  Opened(w, L!Pass("iv", w, size, pad), d, fl, pl)
<1> DEFINE z == L!Pass("iv", w, size, pad)
           s == w.data
           b == d.buf
           v == L!Iv
<1>1. z = [n |-> [w.n EXCEPT !["iv"] = 1], data |-> s]
  BY DEF L!Pass, L!Encode
<1>2. "iv" \in L!Kind
  BY DEF L!Kind
<1> HIDE DEF z
<1>3. z.n = [w.n EXCEPT !["iv"] = 1] /\ z.data = s
  BY <1>1
<1>4. z.n \in [L!Kind -> Nat] /\ z.n["iv"] = 1 /\ \A j \in L!Kind : j # "iv" => z.n[j] = w.n[j]
  BY <1>2, <1>3
<1>5. d.n = 0 /\ b = <<>> /\ fl = <<>> /\ pl = <<>>
  BY DEF Spans
<1>6. s \in Seq(Byte) /\ s \in Seq(Word) /\ v \in Seq(Word) /\ Len(b) < 2
  BY <1>5, IvIs, BytesAreWords, EmptySeq
<1> HIDE DEF s, v, b
<1>7. v \o s \in Seq(Word) /\ <<>> \o v = v /\ <<>> \o s = s /\ <<>> \o (v \o s) = v \o s
  <2>1. v \o s \in Seq(Word)
    BY <1>6, WordParts
  <2> QED BY <1>6, <2>1, WordParts
<1>8. (fl \o v) \o s = v \o s /\ pl \o s = s
  BY <1>5, <1>7
<1>9. b \o (v \o s) = v \o s
  BY <1>5, <1>7
<1> DEFINE g == v \o s
<1>10. g \in Seq(Word) /\ b \o g = v \o s
  BY <1>7, <1>9
<1> HIDE DEF g
<1>11. Spans("iv", d, 1, g, s)
  BY <1>5, <1>6, <1>10 DEF Spans, Framer, b, v
<1>12. Opened(w, z, d, fl, pl)
  BY <1>3, <1>4, <1>8, <1>11 DEF Opened, s, v, g
<1> QED BY <1>12 DEF z

-----------------------------------------------------------------------------
(***************************************************************************)
(* All layers of one side.                                                 *)
(***************************************************************************)
(* The writer passes its data down layer by layer.                         *)
LEMMA DownIs ==
  ASSUME NEW l, Len(l) = 5, NEW w, NEW size, NEW pad
  PROVE  \E w1, w2, w3, w4 :
           /\ L!Pass(l[5], w, size, pad) = w1 /\ L!Pass(l[4], w1, size, pad) = w2
           /\ L!Pass(l[3], w2, size, pad) = w3 /\ L!Pass(l[2], w3, size, pad) = w4
           /\ L!Down(l, w, size, pad) = L!Pass(l[1], w4, size, pad)
<1> DEFINE Is(g) == g = [i \in 0..5 |-> IF i = 0 THEN w ELSE L!Pass(l[6 - i], g[i - 1], size, pad)]
           at == CHOOSE g : Is(g)
<1>1. \E g : Is(g)
  <2>1. PICK w1 : L!Pass(l[5], w, size, pad) = w1
    OBVIOUS
  <2>2. PICK w2 : L!Pass(l[4], w1, size, pad) = w2
    OBVIOUS
  <2>3. PICK w3 : L!Pass(l[3], w2, size, pad) = w3
    OBVIOUS
  <2>4. PICK w4 : L!Pass(l[2], w3, size, pad) = w4
    OBVIOUS
  <2>5. PICK w5 : L!Pass(l[1], w4, size, pad) = w5
    OBVIOUS
  <2> DEFINE h == <<w1, w2, w3, w4, w5>>
             g == [i \in 0..5 |-> IF i = 0 THEN w ELSE h[i]]
  <2>6. g[0] = w /\ g[1] = w1 /\ g[2] = w2 /\ g[3] = w3 /\ g[4] = w4 /\ g[5] = w5
    OBVIOUS
  <2>7. g = [i \in 0..5 |-> g[i]]
    OBVIOUS
  <2> HIDE DEF g
  <2>8. ASSUME NEW i \in 0..5 PROVE g[i] = IF i = 0 THEN w ELSE L!Pass(l[6 - i], g[i - 1], size, pad)
    <3>1. i = 0 \/ i = 1 \/ i = 2 \/ i = 3 \/ i = 4 \/ i = 5
      OBVIOUS
    <3> QED BY <2>1, <2>2, <2>3, <2>4, <2>5, <2>6, <3>1
  <2> QED BY <2>7, <2>8
<1>2. L!Down(l, w, size, pad) = at[5]
  <2>1. 5 + 1 = 6
    OBVIOUS
  <2> QED BY <2>1 DEF L!Down
<1>3. Is(at)
  <2> HIDE DEF Is
  <2> QED BY <1>1
<1> HIDE DEF at
<1>4. \A i \in 0..5 : at[i] = IF i = 0 THEN w ELSE L!Pass(l[6 - i], at[i - 1], size, pad)
  BY <1>3
<1>5. /\ at[0] = w /\ L!Pass(l[5], at[0], size, pad) = at[1] /\ L!Pass(l[4], at[1], size, pad) = at[2]
      /\ L!Pass(l[3], at[2], size, pad) = at[3] /\ L!Pass(l[2], at[3], size, pad) = at[4]
      /\ at[5] = L!Pass(l[1], at[4], size, pad)
  BY <1>4
<1> QED BY <1>2, <1>5

(* The reader takes layer by layer.                                        *)
LEMMA ThroughIs ==
  ASSUME NEW l, Len(l) = 5, NEW r
  PROVE  \E r1, r2, r3, r4 :
           /\ L!Take(l[1], r) = r1 /\ L!Take(l[2], r1) = r2 /\ L!Take(l[3], r2) = r3 /\ L!Take(l[4], r3) = r4
           /\ L!Through(l, r) = L!Take(l[5], r4)
<1> DEFINE Is(g) == g = [i \in 0..5 |-> IF i = 0 THEN r ELSE L!Take(l[i], g[i - 1])]
           at == CHOOSE g : Is(g)
<1>1. \E g : Is(g)
  <2>1. PICK r1 : L!Take(l[1], r) = r1
    OBVIOUS
  <2>2. PICK r2 : L!Take(l[2], r1) = r2
    OBVIOUS
  <2>3. PICK r3 : L!Take(l[3], r2) = r3
    OBVIOUS
  <2>4. PICK r4 : L!Take(l[4], r3) = r4
    OBVIOUS
  <2>5. PICK r5 : L!Take(l[5], r4) = r5
    OBVIOUS
  <2> DEFINE h == <<r1, r2, r3, r4, r5>>
             g == [i \in 0..5 |-> IF i = 0 THEN r ELSE h[i]]
  <2>6. g[0] = r /\ g[1] = r1 /\ g[2] = r2 /\ g[3] = r3 /\ g[4] = r4 /\ g[5] = r5
    OBVIOUS
  <2>7. g = [i \in 0..5 |-> g[i]]
    OBVIOUS
  <2> HIDE DEF g
  <2>8. ASSUME NEW i \in 0..5 PROVE g[i] = IF i = 0 THEN r ELSE L!Take(l[i], g[i - 1])
    <3>1. i = 0 \/ i = 1 \/ i = 2 \/ i = 3 \/ i = 4 \/ i = 5
      OBVIOUS
    <3> QED BY <2>1, <2>2, <2>3, <2>4, <2>5, <2>6, <3>1
  <2> QED BY <2>7, <2>8
<1>2. L!Through(l, r) = at[5]
  BY DEF L!Through
<1>3. Is(at)
  <2> HIDE DEF Is
  <2> QED BY <1>1
<1> HIDE DEF at
<1>4. \A i \in 0..5 : at[i] = IF i = 0 THEN r ELSE L!Take(l[i], at[i - 1])
  BY <1>3
<1>5. /\ at[0] = r /\ L!Take(l[1], at[0]) = at[1] /\ L!Take(l[2], at[1]) = at[2]
      /\ L!Take(l[3], at[2]) = at[3] /\ L!Take(l[4], at[3]) = at[4] /\ at[5] = L!Take(l[5], at[4])
  BY <1>4
<1> QED BY <1>2, <1>5

-----------------------------------------------------------------------------
(***************************************************************************)
(* The stack: four layers, one on top of the other, and the chunks of      *)
(* one-time authentication above them.                                     *)
(***************************************************************************)
Slots(l) ==
  /\ Len(l) = 5 /\ l[1] \in {"none", "ticket"} /\ l[2] \in {"none", "iv"} /\ l[3] \in {"stream", "aead", "rc4"}
  /\ l[4] \in {"none", "simple", "deflate"} /\ l[5] \in {"none", "ota"} /\ (l[2] = "none" <=> l[3] = "rc4")

(* Spans the wire and what the four layers under the chunks deliver.     *)
Links(l, dc, ec, a, b, c, p, q) ==
  /\ Spans(l[1], dc[l[1]], ec[l[1]], a, b) /\ Spans(l[2], dc[l[2]], ec[l[2]], b, c)
  /\ Spans(l[3], dc[l[3]], ec[l[3]], c, p) /\ Spans(l[4], dc[l[4]], ec[l[4]], p, q)
Chain(l, dc, ec, a, q) == \E b, c, p \in Seq(Byte) : Links(l, dc, ec, a, b, c, p, q)

(* Every stack has its layers in the same five places.                     *)
LEMMA LayersSlots ==
  ASSUME NEW s \in L!StackType, NEW ota \in BOOLEAN
  PROVE  LET l == L!Layers(s, ota)
             m == L!Layers(s, FALSE)
         IN /\ Slots(l) /\ l[5] = (IF ota THEN "ota" ELSE "none")
            /\ l[1] = m[1] /\ l[2] = m[2] /\ l[3] = m[3] /\ l[4] = m[4]
            /\ l[3] = s.cipher /\ (l[1] = "ticket" <=> s.opening = "ticket")
BY DEF L!Layers, Slots, L!StackType

(* A layer depends on its own reader and writer alone.                     *)
LEMMA SameLayer ==
  ASSUME NEW k, NEW d, NEW d2, NEW e, NEW e2, NEW f, NEW p, Spans(k, d, e, f, p),
         k # "none" => d = d2 /\ e = e2
  PROVE  Spans(k, d2, e2, f, p)
<1>1. CASE k = "none"
  BY <1>1 DEF Spans, Framer
<1>2. CASE k # "none"
  BY <1>2
<1> QED BY <1>1, <1>2

(* No layer occurs twice in a stack.                                       *)
LEMMA SlotKinds ==
  ASSUME NEW l, Slots(l)
  PROVE  /\ \A i \in 1..5 : l[i] \in L!Kind \union {"none"} /\ (l[i] # "none" => l[i] \in L!Kind)
         /\ \A i, j \in 1..5 : i # j /\ l[i] # "none" => l[i] # l[j]
         /\ l[1] # "rc4" /\ l[2] # "rc4" /\ l[4] # "rc4" /\ l[5] # "rc4"
         /\ l[1] # "iv" /\ l[3] # "iv" /\ l[4] # "iv" /\ l[5] # "iv"
         /\ l[1] # "ota" /\ l[2] # "ota" /\ l[3] # "ota" /\ l[4] # "ota"
         /\ l[2] # "ticket" /\ l[3] # "ticket" /\ l[4] # "ticket" /\ l[5] # "ticket" /\ l[3] # "none"
<1>1. \A i \in 1..5 : i = 1 \/ i = 2 \/ i = 3 \/ i = 4 \/ i = 5
  OBVIOUS
<1>2. \A i \in 1..5 : l[i] \in L!Kind \union {"none"} /\ (l[i] # "none" => l[i] \in L!Kind)
  BY <1>1 DEF Slots, L!Kind
<1>3. \A i, j \in 1..5 : i # j /\ l[i] # "none" => l[i] # l[j]
  BY <1>1 DEF Slots
<1> QED BY <1>2, <1>3 DEF Slots

(* What a layer of the reader, at r, has before it takes r.data, and what  *)
(* it has made of that at z.                                               *)
Before(k, r, e, rest, pl) == Spans(k, r.dec[k], e, r.data \o rest, pl) /\ rest \in Seq(Word) /\ (k = "rc4" => rest = <<>>)
Behind(k, r, z, e, rest, pl) ==
  /\ Reader(z) /\ (\A j \in L!Kind : j # k => z.dec[j] = r.dec[j]) /\ z.data \in Seq(Byte)
  /\ \E y \in Seq(Byte) : z.data \o y = pl /\ Spans(k, z.dec[k], e, rest, y)
Goes(k, r, z) == k \in L!Kind \union {"none"} /\ L!Take(k, r) = z /\ z.torn # TRUE

(* TakeLayer, as the layers of a chain use it.                             *)
LEMMA TakeWhole ==
  ASSUME NEW k, NEW r, Reader(r), NEW z, Goes(k, r, z), NEW e, NEW rest, NEW pl, Before(k, r, e, rest, pl)
  PROVE  Behind(k, r, z, e, rest, pl)
<1>0. /\ k \in L!Kind \union {"none"} /\ L!Take(k, r) = z /\ z.torn # TRUE
      /\ Spans(k, r.dec[k], e, r.data \o rest, pl) /\ rest \in Seq(Word) /\ (k = "rc4" => rest = <<>>)
  BY DEF Goes, Before
<1> DEFINE t == L!Take(k, r)
<1>1. \/ t.torn = TRUE
      \/ /\ Reader(t) /\ (\A j \in L!Kind : j # k => t.dec[j] = r.dec[j])
         /\ t.data \in Seq(Byte) /\ Passed(k, t.dec[k], e, t.data, rest, pl)
  BY <1>0, TakeLayer
<1>2. t = z
  BY <1>0
<1> HIDE DEF t
<1>3. /\ Reader(t) /\ (\A j \in L!Kind : j # k => t.dec[j] = r.dec[j])
      /\ t.data \in Seq(Byte) /\ Passed(k, t.dec[k], e, t.data, rest, pl)
  BY <1>0, <1>1, <1>2
<1> QED BY <1>2, <1>3 DEF Passed, Behind

(* Up through four layers.                                                 *)
Ups(l, r, r1, r2, r3, r4) ==
  L!Take(l[1], r) = r1 /\ L!Take(l[2], r1) = r2 /\ L!Take(l[3], r2) = r3 /\ L!Take(l[4], r3) = r4

(* What the reader delivers of q, of which the rest is still under way.    *)
Delivered(l, r, z, ec, rest, q) ==
  /\ Reader(z) /\ z.data \in Seq(Byte) /\ z.dec["ota"] = r.dec["ota"]
  /\ \E y \in Seq(Byte) : z.data \o y = q /\ Chain(l, z.dec, ec, rest, y)
Unread(l, r, ec, rest, q) == Chain(l, r.dec, ec, r.data \o rest, q) /\ rest \in Seq(Word) /\ (l[3] = "rc4" => rest = <<>>)

(* The four layers under the chunks take data: the chain is shorter by     *)
(* what they deliver.                                                      *)
LEMMA ThroughChain ==
  ASSUME NEW l, Slots(l), NEW r, Reader(r), NEW ec, NEW rest, NEW q, Unread(l, r, ec, rest, q),
         NEW r1, NEW r2, NEW r3, NEW r4, Ups(l, r, r1, r2, r3, r4)
  PROVE  r4.torn = TRUE \/ Delivered(l, r, r4, ec, rest, q)
<1> SUFFICES ASSUME r4.torn # TRUE
    PROVE  /\ Reader(r4) /\ r4.data \in Seq(Byte) /\ r4.dec["ota"] = r.dec["ota"]
           /\ \E y \in Seq(Byte) : r4.data \o y = q /\ Chain(l, r4.dec, ec, rest, y)
  BY DEF Delivered
<1>0. /\ Chain(l, r.dec, ec, r.data \o rest, q) /\ rest \in Seq(Word) /\ (l[3] = "rc4" => rest = <<>>)
      /\ L!Take(l[1], r) = r1 /\ L!Take(l[2], r1) = r2 /\ L!Take(l[3], r2) = r3 /\ L!Take(l[4], r3) = r4
  BY DEF Unread, Ups
<1>1. r3.torn # TRUE /\ r2.torn # TRUE /\ r1.torn # TRUE
  BY <1>0, TakeTorn
<1> DEFINE k1 == l[1]
           k2 == l[2]
           k3 == l[3]
           k4 == l[4]
<1>2. /\ k1 \in L!Kind \union {"none"} /\ k2 \in L!Kind \union {"none"}
      /\ k3 \in L!Kind \union {"none"} /\ k4 \in L!Kind \union {"none"}
      /\ k1 # "rc4" /\ k2 # "rc4" /\ k4 # "rc4" /\ k3 # "none"
      /\ (k2 # "none" => k2 \in L!Kind /\ k2 # k1) /\ k3 \in L!Kind /\ k3 # k1 /\ k3 # k2
      /\ (k1 # "none" => k1 \in L!Kind /\ k1 # k2 /\ k1 # k3 /\ k1 # k4)
      /\ (k2 # "none" => k2 # k3 /\ k2 # k4) /\ k3 # k4
      /\ (k4 # "none" => k4 \in L!Kind /\ k4 # k1 /\ k4 # k2 /\ k4 # k3)
      /\ k1 # "ota" /\ k2 # "ota" /\ k3 # "ota" /\ k4 # "ota" /\ "ota" \in L!Kind
  <2>1. "ota" \in L!Kind /\ 1 \in 1..5 /\ 2 \in 1..5 /\ 3 \in 1..5 /\ 4 \in 1..5
    BY DEF L!Kind
  <2> QED BY <2>1, SlotKinds
<1>3. PICK b \in Seq(Byte), c \in Seq(Byte), p \in Seq(Byte) :
        /\ Spans(k1, r.dec[k1], ec[k1], r.data \o rest, b) /\ Spans(k2, r.dec[k2], ec[k2], b, c)
        /\ Spans(k3, r.dec[k3], ec[k3], c, p) /\ Spans(k4, r.dec[k4], ec[k4], p, q)
  BY <1>0 DEF Chain, Links
<1>4. k3 = "rc4" => rest = <<>>
  BY <1>0
<1>5. L!Take(k1, r) = r1 /\ L!Take(k2, r1) = r2 /\ L!Take(k3, r2) = r3 /\ L!Take(k4, r3) = r4
  BY <1>0
<1> HIDE DEF k1, k2, k3, k4
<1>6. /\ Reader(r1) /\ (\A j \in L!Kind : j # k1 => r1.dec[j] = r.dec[j]) /\ r1.data \in Seq(Byte)
      /\ \E b2 \in Seq(Byte) : r1.data \o b2 = b /\ Spans(k1, r1.dec[k1], ec[k1], rest, b2)
  <2>1. Goes(k1, r, r1)
    BY <1>1, <1>2, <1>5 DEF Goes
  <2>2. Before(k1, r, ec[k1], rest, b)
    BY <1>0, <1>2, <1>3 DEF Before
  <2>3. Behind(k1, r, r1, ec[k1], rest, b)
    BY <2>1, <2>2, TakeWhole
  <2> QED BY <2>3 DEF Behind
<1>7. PICK b2 \in Seq(Byte) : r1.data \o b2 = b /\ Spans(k1, r1.dec[k1], ec[k1], rest, b2)
  BY <1>6
<1>8. Spans(k2, r1.dec[k2], ec[k2], r1.data \o b2, c)
  <2>1. Spans(k2, r1.dec[k2], ec[k2], b, c)
    BY <1>2, <1>3, <1>6, SameLayer
  <2> QED BY <1>7, <2>1
<1>9. /\ Reader(r2) /\ (\A j \in L!Kind : j # k2 => r2.dec[j] = r1.dec[j]) /\ r2.data \in Seq(Byte)
      /\ \E y \in Seq(Byte) : r2.data \o y = c /\ Spans(k2, r2.dec[k2], ec[k2], b2, y)
  <2>1. b2 \in Seq(Word)
    BY <1>7, BytesAreWords
  <2>2. Reader(r1) /\ Goes(k2, r1, r2)
    BY <1>1, <1>2, <1>5, <1>6 DEF Goes
  <2>3. Before(k2, r1, ec[k2], b2, c)
    BY <1>2, <1>8, <2>1 DEF Before
  <2>4. Behind(k2, r1, r2, ec[k2], b2, c)
    BY <2>2, <2>3, TakeWhole
  <2> QED BY <2>4 DEF Behind
<1>10. PICK c2 \in Seq(Byte) : r2.data \o c2 = c /\ Spans(k2, r2.dec[k2], ec[k2], b2, c2)
  BY <1>9
<1>11. Spans(k3, r2.dec[k3], ec[k3], r2.data \o c2, p)
  <2>1. Spans(k3, r2.dec[k3], ec[k3], c, p)
    BY <1>2, <1>3, <1>6, <1>9
  <2> QED BY <1>10, <2>1
<1>12. rest = <<>> => c2 = <<>>
  <2> SUFFICES ASSUME rest = <<>> PROVE c2 = <<>>
    OBVIOUS
  <2>1. k1 # "none" => r1.dec[k1] \in Layer
    BY <1>2, <1>6 DEF Reader
  <2>2. b2 = <<>>
    <3>1. Spans(k1, r1.dec[k1], ec[k1], <<>>, b2)
      BY <1>7
    <3> QED BY <1>2, <2>1, <3>1, Nothing
  <2>3. k2 # "none" => r2.dec[k2] \in Layer
    BY <1>2, <1>9 DEF Reader
  <2>4. Spans(k2, r2.dec[k2], ec[k2], <<>>, c2)
    BY <1>10, <2>2
  <2> QED BY <1>2, <2>3, <2>4, Nothing
<1>13. /\ Reader(r3) /\ (\A j \in L!Kind : j # k3 => r3.dec[j] = r2.dec[j]) /\ r3.data \in Seq(Byte)
       /\ \E y \in Seq(Byte) : r3.data \o y = p /\ Spans(k3, r3.dec[k3], ec[k3], c2, y)
  <2>1. c2 \in Seq(Word) /\ (k3 = "rc4" => c2 = <<>>)
    BY <1>4, <1>10, <1>12, BytesAreWords
  <2>2. Reader(r2) /\ Goes(k3, r2, r3)
    BY <1>1, <1>2, <1>5, <1>9 DEF Goes
  <2>3. Before(k3, r2, ec[k3], c2, p)
    BY <1>2, <1>11, <2>1 DEF Before
  <2>4. Behind(k3, r2, r3, ec[k3], c2, p)
    BY <2>2, <2>3, TakeWhole
  <2> QED BY <2>4 DEF Behind
<1>14. PICK p2 \in Seq(Byte) : r3.data \o p2 = p /\ Spans(k3, r3.dec[k3], ec[k3], c2, p2)
  BY <1>13
<1>15. Spans(k4, r3.dec[k4], ec[k4], r3.data \o p2, q)
  <2>1. Spans(k4, r3.dec[k4], ec[k4], p, q)
    BY <1>2, <1>3, <1>6, <1>9, <1>13, SameLayer
  <2> QED BY <1>14, <2>1
<1>16. /\ Reader(r4) /\ (\A j \in L!Kind : j # k4 => r4.dec[j] = r3.dec[j]) /\ r4.data \in Seq(Byte)
       /\ \E y \in Seq(Byte) : r4.data \o y = q /\ Spans(k4, r4.dec[k4], ec[k4], p2, y)
  <2>1. p2 \in Seq(Word)
    BY <1>14, BytesAreWords
  <2>2. Reader(r3) /\ Goes(k4, r3, r4)
    BY <1>1, <1>2, <1>5, <1>13 DEF Goes
  <2>3. Before(k4, r3, ec[k4], p2, q)
    BY <1>2, <1>15, <2>1 DEF Before
  <2>4. Behind(k4, r3, r4, ec[k4], p2, q)
    BY <2>2, <2>3, TakeWhole
  <2> QED BY <2>4 DEF Behind
<1>17. PICK y \in Seq(Byte) : r4.data \o y = q /\ Spans(k4, r4.dec[k4], ec[k4], p2, y)
  BY <1>16
<1>18. Spans(k1, r4.dec[k1], ec[k1], rest, b2)
  BY <1>2, <1>7, <1>9, <1>13, <1>16, SameLayer
<1>19. Spans(k2, r4.dec[k2], ec[k2], b2, c2)
  BY <1>2, <1>10, <1>13, <1>16, SameLayer
<1>20. Spans(k3, r4.dec[k3], ec[k3], c2, p2)
  BY <1>2, <1>14, <1>16
<1>21. Chain(l, r4.dec, ec, rest, y)
  <2>1. Links(l, r4.dec, ec, rest, b2, c2, p2, y)
    BY <1>17, <1>18, <1>19, <1>20 DEF Links, k1, k2, k3, k4
  <2> QED BY <1>7, <1>10, <1>14, <2>1 DEF Chain
<1>22. r4.dec["ota"] = r.dec["ota"]
  BY <1>2, <1>6, <1>9, <1>13, <1>16
<1> QED BY <1>16, <1>17, <1>21, <1>22

-----------------------------------------------------------------------------
(***************************************************************************)
(* The writer: what it makes goes to the end of what is under way.         *)
(***************************************************************************)
(* A layer of the writer has made z of w; the reader stands at d.          *)
Sends(k, w, z, size, pad, d) ==
  /\ k \in L!Kind \union {"none"} /\ L!Pass(k, w, size, pad) = z /\ w.n \in [L!Kind -> Nat]
  /\ Fits(k, w.data, size, pad) /\ (k # "none" => d \in Layer)
Gap(k, w, d, fl, pl) == Spans(k, d, w.n[k], fl, pl) /\ (k = "rc4" => fl = <<>>)
Grown(k, w, z, d, fl, pl) ==
  /\ z.n \in [L!Kind -> Nat] /\ (\A j \in L!Kind : j # k => z.n[j] = w.n[j])
  /\ z.data \in Seq(Word) /\ (k # "ticket" => z.data \in Seq(Byte)) /\ (k = "none" => z.data = w.data)
  /\ Spans(k, d, z.n[k], fl \o z.data, pl \o w.data)

(* PassLayer, as the layers of a chain use it.                             *)
LEMMA PassWhole ==
  ASSUME L!BoundsOK, NEW k, NEW w, NEW z, NEW size, NEW pad, NEW d, Sends(k, w, z, size, pad, d),
         NEW fl, NEW pl, Gap(k, w, d, fl, pl), k = "iv" => w.n[k] = 1
  PROVE  Grown(k, w, z, d, fl, pl)
<1>1. /\ k \in L!Kind \union {"none"} /\ L!Pass(k, w, size, pad) = z /\ w.n \in [L!Kind -> Nat]
      /\ Fits(k, w.data, size, pad) /\ (k # "none" => d \in Layer)
      /\ Spans(k, d, w.n[k], fl, pl) /\ (k = "rc4" => fl = <<>>)
  BY DEF Sends, Gap
<1> DEFINE t == L!Pass(k, w, size, pad)
<1>2. /\ t.n \in [L!Kind -> Nat] /\ (\A j \in L!Kind : j # k => t.n[j] = w.n[j])
      /\ t.data \in Seq(Word) /\ (k # "ticket" => t.data \in Seq(Byte)) /\ (k = "none" => t.data = w.data)
      /\ Spans(k, d, t.n[k], fl \o t.data, pl \o w.data)
  BY <1>1, PassLayer
<1>3. t = z
  BY <1>1
<1> HIDE DEF t
<1> QED BY <1>2, <1>3 DEF Grown

(* The second layer, where the initialization vector may still be missing. *)
Missing(k, w, d, fl, pl) ==
  /\ k = "iv" /\ w.n["iv"] = 0
  /\ \E g \in Seq(Word) : fl = g \o L!Iv /\ Spans("iv", d, 0, g, pl)

(* The layer of the initial vector, written before or not.                 *)
LEMMA PassSecond ==
  ASSUME L!BoundsOK, NEW k \in {"none", "iv"}, NEW w, NEW z, NEW size, NEW pad, NEW d, Sends(k, w, z, size, pad, d),
         NEW fl, NEW pl, (Gap(k, w, d, fl, pl) /\ (k = "iv" => w.n[k] = 1)) \/ Missing(k, w, d, fl, pl)
  PROVE  Grown(k, w, z, d, fl, pl) /\ (k = "iv" => z.n[k] = 1)
<1>1. CASE Gap(k, w, d, fl, pl) /\ (k = "iv" => w.n[k] = 1)
  <2>1. Grown(k, w, z, d, fl, pl)
    BY <1>1, PassWhole
  <2>2. ASSUME k = "iv" PROVE z.n[k] = 1
    <3>1. w.n \in [L!Kind -> Nat] /\ L!Pass(k, w, size, pad) = z
      BY DEF Sends
    <3> DEFINE t == L!Pass(k, w, size, pad)
               s == w.data
    <3>2. t = [n |-> [w.n EXCEPT !["iv"] = 1], data |-> s]
      BY <2>2 DEF L!Pass, L!Encode
    <3> HIDE DEF t, s
    <3>3. t.n = [w.n EXCEPT !["iv"] = 1]
      BY <3>2
    <3>4. t.n["iv"] = 1
      BY <3>1, <3>3 DEF L!Kind
    <3>5. t = z
      BY <3>1 DEF t
    <3> QED BY <2>2, <3>4, <3>5
  <2> QED BY <2>1, <2>2
<1>2. CASE Missing(k, w, d, fl, pl)
  <2>1. PICK g \in Seq(Word) : fl = g \o L!Iv /\ Spans("iv", d, 0, g, pl)
    BY <1>2 DEF Missing
  <2>2. k = "iv" /\ w.n["iv"] = 0 /\ w.n \in [L!Kind -> Nat] /\ w.data \in Seq(Byte) /\ d \in Layer
    BY <1>2 DEF Missing, Sends, Fits
  <2> DEFINE t == L!Pass("iv", w, size, pad)
  <2>3. Opened(w, t, d, g, pl)
    BY <2>1, <2>2, PassFirst
  <2>4. t = z
    BY <2>2 DEF Sends
  <2> HIDE DEF t
  <2>5. /\ z.n \in [L!Kind -> Nat] /\ (\A j \in L!Kind : j # k => z.n[j] = w.n[j]) /\ z.n[k] = 1
        /\ z.data = w.data /\ z.data \in Seq(Byte) /\ z.data \in Seq(Word)
    BY <2>2, <2>3, <2>4, BytesAreWords DEF Opened
  <2>6. Spans("iv", d, 1, fl \o w.data, pl \o w.data)
    BY <2>1, <2>3 DEF Opened
  <2> QED BY <2>2, <2>5, <2>6 DEF Grown
<1> QED BY <1>1, <1>2

(* Down through five layers.                                               *)
Steps(l, w, w1, w2, w3, w4, z, size, pad) ==
  /\ L!Pass(l[5], w, size, pad) = w1 /\ L!Pass(l[4], w1, size, pad) = w2
  /\ L!Pass(l[3], w2, size, pad) = w3 /\ L!Pass(l[2], w3, size, pad) = w4
  /\ L!Pass(l[1], w4, size, pad) = z

(* Below the second layer stands b, which the chain may not know yet.      *)
Open(l, dc, ec, a, b, c, p, q) ==
  /\ Spans(l[1], dc[l[1]], ec[l[1]], a, b)
  /\ \/ Spans(l[2], dc[l[2]], ec[l[2]], b, c) /\ (l[2] = "iv" => ec["iv"] = 1)
     \/ /\ l[2] = "iv" /\ ec["iv"] = 0
        /\ \E g \in Seq(Word) : b = g \o L!Iv /\ Spans("iv", dc["iv"], 0, g, c)
  /\ Spans(l[3], dc[l[3]], ec[l[3]], c, p) /\ Spans(l[4], dc[l[4]], ec[l[4]], p, q)

DownFrom(l, dc, w, a, b, c, p, q) ==
  /\ w.n \in [L!Kind -> Nat] /\ w.data \in Seq(Byte) /\ Len(w.data) <= 198
  /\ b \in Seq(Byte) /\ c \in Seq(Byte) /\ p \in Seq(Byte) /\ q \in Seq(Byte)
  /\ Open(l, dc, w.n, a, b, c, p, q) /\ (l[3] = "rc4" => c = <<>>)
DownTo(l, dc, w, w1, z, a, q, g, v) ==
  /\ z.n \in [L!Kind -> Nat] /\ z.data \in Seq(Word) /\ w1.data \in Seq(Byte)
  /\ Spans(l[5], dc[l[5]], z.n[l[5]], g \o w1.data, v \o w.data)
  /\ Chain(l, dc, z.n, a \o z.data, q \o w1.data)
  /\ (l[5] = "none" => w1.data = w.data /\ z.n["ota"] = w.n["ota"])

(* A write through all five layers: the chain is longer by what was        *)
(* written.                                                                *)
LEMMA DownChain ==
  ASSUME L!BoundsOK, NEW l, Slots(l), NEW w, NEW size \in Nat \ {0}, NEW pad \in {0, 1}, NEW dc \in [L!Kind -> Layer],
         NEW a, NEW b, NEW c, NEW p, NEW q, DownFrom(l, dc, w, a, b, c, p, q),
         NEW g, NEW v, Spans(l[5], dc[l[5]], w.n[l[5]], g, v),
         NEW w1, NEW w2, NEW w3, NEW w4, NEW z, Steps(l, w, w1, w2, w3, w4, z, size, pad)
  PROVE  DownTo(l, dc, w, w1, z, a, q, g, v)
<1>1. /\ w.n \in [L!Kind -> Nat] /\ w.data \in Seq(Byte) /\ Len(w.data) <= 198
      /\ b \in Seq(Byte) /\ c \in Seq(Byte) /\ p \in Seq(Byte) /\ q \in Seq(Byte)
      /\ Open(l, dc, w.n, a, b, c, p, q) /\ (l[3] = "rc4" => c = <<>>)
  BY DEF DownFrom
<1> DEFINE k1 == l[1]
           k2 == l[2]
           k3 == l[3]
           k4 == l[4]
           k5 == l[5]
<1>2. /\ k1 \in L!Kind \union {"none"} /\ k2 \in {"none", "iv"} /\ k2 \in L!Kind \union {"none"}
      /\ k3 \in L!Kind \union {"none"} /\ k4 \in L!Kind \union {"none"} /\ k5 \in {"none", "ota"}
      /\ k5 \in L!Kind \union {"none"}
      /\ k1 # "rc4" /\ k2 # "rc4" /\ k4 # "rc4" /\ k5 # "rc4" /\ k3 # "none"
      /\ k1 # "iv" /\ k3 # "iv" /\ k4 # "iv" /\ k5 # "iv"
      /\ k2 # "ticket" /\ k3 # "ticket" /\ k4 # "ticket" /\ k5 # "ticket"
      /\ k1 # "ota" /\ k2 # "ota" /\ k3 # "ota" /\ k4 # "ota" /\ "ota" \in L!Kind
      /\ (k1 # "none" => k1 \in L!Kind /\ k1 # k2 /\ k1 # k3 /\ k1 # k4 /\ k1 # k5)
      /\ (k2 # "none" => k2 \in L!Kind /\ k2 # k1 /\ k2 # k3 /\ k2 # k4 /\ k2 # k5)
      /\ (k3 \in L!Kind /\ k3 # k1 /\ k3 # k2 /\ k3 # k4 /\ k3 # k5)
      /\ (k4 # "none" => k4 \in L!Kind /\ k4 # k1 /\ k4 # k2 /\ k4 # k3 /\ k4 # k5)
      /\ (k5 # "none" => k5 \in L!Kind /\ k5 # k1 /\ k5 # k2 /\ k5 # k3 /\ k5 # k4)
  <2>1. "ota" \in L!Kind /\ 1 \in 1..5 /\ 2 \in 1..5 /\ 3 \in 1..5 /\ 4 \in 1..5 /\ 5 \in 1..5
    BY DEF L!Kind
  <2>2. k2 \in {"none", "iv"} /\ k5 \in {"none", "ota"}
    BY DEF Slots
  <2> QED BY <2>1, <2>2, SlotKinds
<1>3. /\ L!Pass(k5, w, size, pad) = w1 /\ L!Pass(k4, w1, size, pad) = w2 /\ L!Pass(k3, w2, size, pad) = w3
      /\ L!Pass(k2, w3, size, pad) = w4 /\ L!Pass(k1, w4, size, pad) = z
  BY DEF Steps
<1>4. /\ Spans(k1, dc[k1], w.n[k1], a, b)
      /\ \/ Spans(k2, dc[k2], w.n[k2], b, c) /\ (k2 = "iv" => w.n["iv"] = 1)
         \/ /\ k2 = "iv" /\ w.n["iv"] = 0
            /\ \E h \in Seq(Word) : b = h \o L!Iv /\ Spans("iv", dc["iv"], 0, h, c)
      /\ Spans(k3, dc[k3], w.n[k3], c, p) /\ Spans(k4, dc[k4], w.n[k4], p, q)
      /\ Spans(k5, dc[k5], w.n[k5], g, v) /\ (k3 = "rc4" => c = <<>>)
  BY <1>1 DEF Open
<1>5. \A k \in L!Kind : dc[k] \in Layer
  OBVIOUS
<1> HIDE DEF k1, k2, k3, k4, k5
<1>6. Grown(k5, w, w1, dc[k5], g, v)
  <2>1. Sends(k5, w, w1, size, pad, dc[k5])
    BY <1>1, <1>2, <1>3, <1>5 DEF Sends, Fits
  <2>2. Gap(k5, w, dc[k5], g, v)
    BY <1>2, <1>4 DEF Gap
  <2> QED BY <1>2, <2>1, <2>2, PassWhole
<1>7. /\ w1.n \in [L!Kind -> Nat] /\ (\A j \in L!Kind : j # k5 => w1.n[j] = w.n[j]) /\ w1.data \in Seq(Byte)
      /\ (k5 = "none" => w1.data = w.data) /\ Spans(k5, dc[k5], w1.n[k5], g \o w1.data, v \o w.data)
  BY <1>1, <1>2, <1>6 DEF Grown
<1>8. Grown(k4, w1, w2, dc[k4], p, q)
  <2>1. Sends(k4, w1, w2, size, pad, dc[k4])
    BY <1>1, <1>2, <1>3, <1>5, <1>7 DEF Sends, Fits
  <2>2. Spans(k4, dc[k4], w1.n[k4], p, q)
    BY <1>2, <1>4, <1>7, SameLayer
  <2>3. Gap(k4, w1, dc[k4], p, q)
    BY <1>2, <2>2 DEF Gap
  <2> QED BY <1>2, <2>1, <2>3, PassWhole
<1>9. /\ w2.n \in [L!Kind -> Nat] /\ (\A j \in L!Kind : j # k4 => w2.n[j] = w1.n[j]) /\ w2.data \in Seq(Byte)
      /\ Spans(k4, dc[k4], w2.n[k4], p \o w2.data, q \o w1.data)
  BY <1>2, <1>8 DEF Grown
<1>10. Grown(k3, w2, w3, dc[k3], c, p)
  <2>1. Sends(k3, w2, w3, size, pad, dc[k3])
    BY <1>1, <1>2, <1>3, <1>5, <1>9 DEF Sends, Fits
  <2>2. w2.n[k3] = w.n[k3]
    BY <1>2, <1>7, <1>9
  <2>3. Gap(k3, w2, dc[k3], c, p)
    BY <1>4, <2>2 DEF Gap
  <2> QED BY <1>2, <2>1, <2>3, PassWhole
<1>11. /\ w3.n \in [L!Kind -> Nat] /\ (\A j \in L!Kind : j # k3 => w3.n[j] = w2.n[j]) /\ w3.data \in Seq(Byte)
       /\ Spans(k3, dc[k3], w3.n[k3], c \o w3.data, p \o w2.data)
  BY <1>2, <1>10 DEF Grown
<1>12. k2 # "none" => w3.n[k2] = w.n[k2]
  BY <1>2, <1>7, <1>9, <1>11
<1>13. Grown(k2, w3, w4, dc[k2], b, c) /\ (k2 = "iv" => w4.n[k2] = 1)
  <2>1. Sends(k2, w3, w4, size, pad, dc[k2])
    BY <1>1, <1>2, <1>3, <1>5, <1>11 DEF Sends, Fits
  <2>2. CASE Spans(k2, dc[k2], w.n[k2], b, c) /\ (k2 = "iv" => w.n["iv"] = 1)
    <3>1. Spans(k2, dc[k2], w3.n[k2], b, c)
      BY <1>12, <2>2, SameLayer
    <3>2. Gap(k2, w3, dc[k2], b, c) /\ (k2 = "iv" => w3.n[k2] = 1)
      BY <1>2, <1>12, <2>2, <3>1 DEF Gap
    <3> QED BY <1>2, <2>1, <3>2, PassSecond
  <2>3. CASE /\ k2 = "iv" /\ w.n["iv"] = 0
             /\ \E h \in Seq(Word) : b = h \o L!Iv /\ Spans("iv", dc["iv"], 0, h, c)
    <3>1. Missing(k2, w3, dc[k2], b, c)
      BY <1>12, <2>3 DEF Missing
    <3> QED BY <1>2, <2>1, <3>1, PassSecond
  <2> QED BY <1>4, <2>2, <2>3
<1>14. /\ w4.n \in [L!Kind -> Nat] /\ (\A j \in L!Kind : j # k2 => w4.n[j] = w3.n[j]) /\ w4.data \in Seq(Byte)
       /\ Spans(k2, dc[k2], w4.n[k2], b \o w4.data, c \o w3.data)
  BY <1>2, <1>13 DEF Grown
<1>15. Grown(k1, w4, z, dc[k1], a, b)
  <2>1. Sends(k1, w4, z, size, pad, dc[k1])
    BY <1>1, <1>2, <1>3, <1>5, <1>14 DEF Sends, Fits
  <2>2. k1 # "none" => w4.n[k1] = w.n[k1]
    BY <1>2, <1>7, <1>9, <1>11, <1>14
  <2>3. Spans(k1, dc[k1], w4.n[k1], a, b)
    BY <1>4, <2>2, SameLayer
  <2>4. Gap(k1, w4, dc[k1], a, b)
    BY <1>2, <2>3 DEF Gap
  <2> QED BY <1>2, <2>1, <2>4, PassWhole
<1>16. /\ z.n \in [L!Kind -> Nat] /\ (\A j \in L!Kind : j # k1 => z.n[j] = w4.n[j]) /\ z.data \in Seq(Word)
       /\ Spans(k1, dc[k1], z.n[k1], a \o z.data, b \o w4.data)
  BY <1>2, <1>15 DEF Grown
<1>17. /\ (k2 # "none" => z.n[k2] = w4.n[k2]) /\ z.n[k3] = w3.n[k3] /\ (k4 # "none" => z.n[k4] = w2.n[k4])
       /\ (k5 # "none" => z.n[k5] = w1.n[k5]) /\ (k5 = "none" => z.n["ota"] = w.n["ota"])
  BY <1>2, <1>7, <1>9, <1>11, <1>14, <1>16
<1>18. Spans(k2, dc[k2], z.n[k2], b \o w4.data, c \o w3.data)
  BY <1>14, <1>17, SameLayer
<1>19. Spans(k3, dc[k3], z.n[k3], c \o w3.data, p \o w2.data)
  BY <1>11, <1>17, SameLayer
<1>20. Spans(k4, dc[k4], z.n[k4], p \o w2.data, q \o w1.data)
  BY <1>9, <1>17, SameLayer
<1>21. Spans(k5, dc[k5], z.n[k5], g \o w1.data, v \o w.data)
  BY <1>7, <1>17, SameLayer
<1>22. Chain(l, dc, z.n, a \o z.data, q \o w1.data)
  <2>1. b \o w4.data \in Seq(Byte) /\ c \o w3.data \in Seq(Byte) /\ p \o w2.data \in Seq(Byte)
    BY <1>1, <1>9, <1>11, <1>14, ByteConcat
  <2>2. Links(l, dc, z.n, a \o z.data, b \o w4.data, c \o w3.data, p \o w2.data, q \o w1.data)
    BY <1>16, <1>18, <1>19, <1>20 DEF Links, k1, k2, k3, k4
  <2> QED BY <2>1, <2>2 DEF Chain
<1> QED BY <1>7, <1>16, <1>17, <1>21, <1>22 DEF DownTo, k5

-----------------------------------------------------------------------------
(***************************************************************************)
(* The reader: what it takes is the start of what is under way.            *)
(***************************************************************************)
(* Nothing under way below the layers: nothing to come above them.         *)
LEMMA ChainNothing ==
  ASSUME NEW l, Slots(l), NEW dc \in [L!Kind -> Layer], NEW ec, NEW q, Chain(l, dc, ec, <<>>, q)
  PROVE  q = <<>>
<1>1. PICK b \in Seq(Byte), c \in Seq(Byte), p \in Seq(Byte) : Links(l, dc, ec, <<>>, b, c, p, q)
  BY DEF Chain
<1>2. \A i \in 1..5 : l[i] \in L!Kind \union {"none"} /\ (l[i] # "none" => dc[l[i]] \in Layer)
  BY SlotKinds
<1>3. /\ l[1] \in L!Kind \union {"none"} /\ (l[1] # "none" => dc[l[1]] \in Layer)
      /\ l[2] \in L!Kind \union {"none"} /\ (l[2] # "none" => dc[l[2]] \in Layer)
      /\ l[3] \in L!Kind \union {"none"} /\ (l[3] # "none" => dc[l[3]] \in Layer)
      /\ l[4] \in L!Kind \union {"none"} /\ (l[4] # "none" => dc[l[4]] \in Layer)
  BY <1>2
<1>4. b = <<>>
  BY <1>1, <1>3, Nothing DEF Links
<1>5. c = <<>>
  BY <1>1, <1>3, <1>4, Nothing DEF Links
<1>6. p = <<>>
  BY <1>1, <1>3, <1>5, Nothing DEF Links
<1> QED BY <1>1, <1>3, <1>6, Nothing DEF Links

(* The chain does not see the chunks of one-time authentication.           *)
LEMMA ChainSame ==
  ASSUME NEW l, Slots(l), NEW dc, NEW dc2, NEW ec, NEW a, NEW q, Chain(l, dc, ec, a, q),
         \A j \in L!Kind : j # "ota" => dc2[j] = dc[j]
  PROVE  Chain(l, dc2, ec, a, q)
<1>1. PICK b \in Seq(Byte), c \in Seq(Byte), p \in Seq(Byte) : Links(l, dc, ec, a, b, c, p, q)
  BY DEF Chain
<1>2. /\ (l[1] # "none" => dc2[l[1]] = dc[l[1]]) /\ (l[2] # "none" => dc2[l[2]] = dc[l[2]])
      /\ (l[3] # "none" => dc2[l[3]] = dc[l[3]]) /\ (l[4] # "none" => dc2[l[4]] = dc[l[4]])
  <2>1. 1 \in 1..5 /\ 2 \in 1..5 /\ 3 \in 1..5 /\ 4 \in 1..5
    OBVIOUS
  <2> QED BY <2>1, SlotKinds
<1>3. /\ Spans(l[1], dc[l[1]], ec[l[1]], a, b) /\ Spans(l[2], dc[l[2]], ec[l[2]], b, c)
      /\ Spans(l[3], dc[l[3]], ec[l[3]], c, p) /\ Spans(l[4], dc[l[4]], ec[l[4]], p, q)
  BY <1>1 DEF Links
<1>4. /\ Spans(l[1], dc2[l[1]], ec[l[1]], a, b) /\ Spans(l[2], dc2[l[2]], ec[l[2]], b, c)
      /\ Spans(l[3], dc2[l[3]], ec[l[3]], c, p) /\ Spans(l[4], dc2[l[4]], ec[l[4]], p, q)
  BY <1>2, <1>3, SameLayer
<1> QED BY <1>4 DEF Chain, Links

(* A reader that is torn before a piece is torn after it.                  *)
LEMMA ThroughTorn ==
  ASSUME NEW l, Len(l) = 5, NEW r, r.torn = TRUE
  PROVE  L!Through(l, r).torn = TRUE
<1>1. PICK r1, r2, r3, r4 :
         /\ L!Take(l[1], r) = r1 /\ L!Take(l[2], r1) = r2 /\ L!Take(l[3], r2) = r3 /\ L!Take(l[4], r3) = r4
         /\ L!Through(l, r) = L!Take(l[5], r4)
  BY ThroughIs
<1>2. r1.torn = TRUE
  BY <1>1, TakeTorn
<1>3. r2.torn = TRUE
  BY <1>1, <1>2, TakeTorn
<1>4. r3.torn = TRUE
  BY <1>1, <1>3, TakeTorn
<1>5. r4.torn = TRUE
  BY <1>1, <1>4, TakeTorn
<1> QED BY <1>1, <1>5, TakeTorn

(* The four layers and the chunks, one after the other.                    *)
LEMMA ThroughFour ==
  ASSUME NEW l, Slots(l), NEW r, Reader(r), NEW ec, NEW rest, NEW q, Unread(l, r, ec, rest, q)
  PROVE  \E z : /\ L!Through(l, r) = L!Take(l[5], z)
                /\ z.torn = TRUE \/ Delivered(l, r, z, ec, rest, q)
<1>1. PICK r1, r2, r3, r4 :
         /\ L!Take(l[1], r) = r1 /\ L!Take(l[2], r1) = r2 /\ L!Take(l[3], r2) = r3 /\ L!Take(l[4], r3) = r4
         /\ L!Through(l, r) = L!Take(l[5], r4)
  <2>1. Len(l) = 5
    BY DEF Slots
  <2> QED BY <2>1, ThroughIs
<1>2. Ups(l, r, r1, r2, r3, r4)
  BY <1>1 DEF Ups
<1>3. r4.torn = TRUE \/ Delivered(l, r, r4, ec, rest, q)
  BY <1>2, ThroughChain
<1> QED BY <1>1, <1>3

(* The reader without chunks.                                              *)
LEMMA ThroughPlain ==
  ASSUME NEW l, Slots(l), l[5] = "none", NEW r, Reader(r), NEW ec, NEW rest, NEW q, Unread(l, r, ec, rest, q)
  PROVE  LET z == L!Through(l, r) IN z.torn = TRUE \/ Delivered(l, r, z, ec, rest, q)
<1> DEFINE z == L!Through(l, r)
<1>1. PICK y : z = L!Take(l[5], y) /\ (y.torn = TRUE \/ Delivered(l, r, y, ec, rest, q))
  BY ThroughFour
<1>2. L!Take(l[5], y) = y
  BY DEF L!Take
<1> HIDE DEF z
<1> QED BY <1>1, <1>2 DEF z

(* The same for chunks, where w is what they carry.                        *)
Unchunked(l, z, ec, rest, w) ==
  /\ Reader(z) /\ z.data \in Seq(Byte)
  /\ \E y, v \in Seq(Byte) : z.data \o v = w /\ Spans("ota", z.dec["ota"], ec["ota"], y, v) /\ Chain(l, z.dec, ec, rest, y)

(* The chunks are taken from what the four layers delivered.               *)
LEMMA TakeChunks ==
  ASSUME NEW l, Slots(l), NEW r, Reader(r), NEW ec, NEW rest, NEW y \in Seq(Byte), Chain(l, r.dec, ec, rest, y),
         NEW w, Spans("ota", r.dec["ota"], ec["ota"], r.data \o y, w)
  PROVE  LET z == L!Take("ota", r) IN z.torn = TRUE \/ Unchunked(l, z, ec, rest, w)
<1> DEFINE z == L!Take("ota", r)
<1>0. "ota" \in L!Kind /\ z = L!Take("ota", r)
  BY DEF L!Kind
<1> HIDE DEF z
<1> SUFFICES ASSUME z.torn # TRUE PROVE Unchunked(l, z, ec, rest, w)
  BY DEF z
<1>1. Goes("ota", r, z)
  BY <1>0 DEF Goes
<1>2. Before("ota", r, ec["ota"], y, w)
  BY BytesAreWords DEF Before
<1>3. Behind("ota", r, z, ec["ota"], y, w)
  BY <1>1, <1>2, TakeWhole
<1>4. /\ Reader(z) /\ (\A j \in L!Kind : j # "ota" => z.dec[j] = r.dec[j]) /\ z.data \in Seq(Byte)
      /\ \E v \in Seq(Byte) : z.data \o v = w /\ Spans("ota", z.dec["ota"], ec["ota"], y, v)
  BY <1>3 DEF Behind
<1>5. Chain(l, z.dec, ec, rest, y)
  BY <1>4, ChainSame
<1> QED BY <1>4, <1>5 DEF Unchunked

(* The reader with chunks.                                                 *)
LEMMA ThroughChunks ==
  ASSUME NEW l, Slots(l), l[5] = "ota", NEW r, Reader(r), NEW ec, NEW rest, NEW q, Unread(l, r, ec, rest, q),
         NEW w, Spans("ota", r.dec["ota"], ec["ota"], q, w)
  PROVE  LET z == L!Through(l, r) IN z.torn = TRUE \/ Unchunked(l, z, ec, rest, w)
<1> DEFINE z == L!Through(l, r)
<1>1. PICK u : z = L!Take(l[5], u) /\ (u.torn = TRUE \/ Delivered(l, r, u, ec, rest, q))
  BY ThroughFour
<1>2. z = L!Take("ota", u)
  BY <1>1
<1> HIDE DEF z
<1>3. CASE u.torn = TRUE
  <2>1. L!Take("ota", u).torn = TRUE
    BY <1>3, TakeTorn
  <2> QED BY <1>2, <2>1 DEF z
<1>4. CASE Delivered(l, r, u, ec, rest, q)
  <2>1. PICK y \in Seq(Byte) : u.data \o y = q /\ Chain(l, u.dec, ec, rest, y)
    BY <1>4 DEF Delivered
  <2>2. Reader(u) /\ u.dec["ota"] = r.dec["ota"]
    BY <1>4 DEF Delivered
  <2>3. Spans("ota", u.dec["ota"], ec["ota"], u.data \o y, w)
    BY <2>1, <2>2
  <2>4. L!Take("ota", u).torn = TRUE \/ Unchunked(l, L!Take("ota", u), ec, rest, w)
    BY <2>1, <2>2, <2>3, TakeChunks
  <2> QED BY <1>2, <2>4 DEF z
<1> QED BY <1>1, <1>3, <1>4

-----------------------------------------------------------------------------
(***************************************************************************)
(* Writes: the initial vector, then what is written.                       *)
(***************************************************************************)
(* The chunks are above the chain.                                         *)
LEMMA ChainLayers ==
  ASSUME NEW s \in L!StackType, NEW ota \in BOOLEAN, NEW dc, NEW ec, NEW a, NEW q
  PROVE  Chain(L!Layers(s, ota), dc, ec, a, q) <=> Chain(L!Layers(s, FALSE), dc, ec, a, q)
<1> DEFINE l == L!Layers(s, ota)
           m == L!Layers(s, FALSE)
<1>1. l[1] = m[1] /\ l[2] = m[2] /\ l[3] = m[3] /\ l[4] = m[4]
  BY LayersSlots
<1> HIDE DEF l, m
<1>2. ASSUME NEW b, NEW c, NEW p PROVE Links(l, dc, ec, a, b, c, p, q) <=> Links(m, dc, ec, a, b, c, p, q)
  BY <1>1 DEF Links
<1>3. Chain(l, dc, ec, a, q) <=> Chain(m, dc, ec, a, q)
  BY <1>2 DEF Chain
<1> QED BY <1>3 DEF l, m

(* What goes before the first write.                                       *)
Greeted(l, ec, iv, size, pad) ==
  \/ l[3] # "rc4" /\ ec["iv"] = 0 /\ L!Pass(l[1], [n |-> ec, data |-> L!Iv], size, pad) = iv
  \/ (l[3] = "rc4" \/ ec["iv"] # 0) /\ iv.n = ec /\ iv.data = <<>>

Writable(l, dc, ec, a, q) == Chain(l, dc, ec, a, q) /\ a \in Seq(Word) /\ q \in Seq(Byte) /\ (l[3] = "rc4" => a = <<>>)
Opens(l, dc, ec, iv, a, q) ==
  /\ iv.n \in [L!Kind -> Nat] /\ iv.data \in Seq(Word) /\ iv.n["ota"] = ec["ota"]
  /\ \E b, c, p \in Seq(Byte) : Open(l, dc, iv.n, a \o iv.data, b, c, p, q) /\ (l[3] = "rc4" => c = <<>>)

(* The initial vector goes before the first write, and only there.         *)
LEMMA GreetedOpen ==
  ASSUME L!BoundsOK, NEW l, Slots(l), NEW ec \in [L!Kind -> Nat], NEW dc \in [L!Kind -> Layer],
         NEW size \in Nat \ {0}, NEW pad \in {0, 1}, NEW a, NEW q, Writable(l, dc, ec, a, q),
         NEW iv, Greeted(l, ec, iv, size, pad)
  PROVE  Opens(l, dc, ec, iv, a, q)
<1>0. Chain(l, dc, ec, a, q) /\ a \in Seq(Word) /\ (l[3] = "rc4" => a = <<>>)
  BY DEF Writable
<1> DEFINE k1 == l[1]
           k2 == l[2]
<1>1. PICK b \in Seq(Byte), c \in Seq(Byte), p \in Seq(Byte) :
        /\ Spans(k1, dc[k1], ec[k1], a, b) /\ Spans(k2, dc[k2], ec[k2], b, c)
        /\ Spans(l[3], dc[l[3]], ec[l[3]], c, p) /\ Spans(l[4], dc[l[4]], ec[l[4]], p, q)
  BY <1>0 DEF Chain, Links
<1>2. /\ k1 \in L!Kind \union {"none"} /\ k2 \in L!Kind \union {"none"} /\ k1 # "rc4" /\ k1 # "iv"
      /\ (k1 # "none" => k1 \in L!Kind /\ k1 # k2 /\ k1 # l[3] /\ k1 # l[4])
      /\ (k2 # "none" => k2 \in L!Kind) /\ k1 # "ota" /\ "ota" \in L!Kind /\ "iv" \in L!Kind
      /\ k2 \in {"none", "iv"} /\ (k2 = "none" <=> l[3] = "rc4") /\ k1 # "ota"
      /\ (l[4] # "none" => l[4] \in L!Kind) /\ l[3] \in L!Kind /\ l[3] # k1
  <2>1. "ota" \in L!Kind /\ "iv" \in L!Kind /\ 1 \in 1..5 /\ 2 \in 1..5 /\ 3 \in 1..5 /\ 4 \in 1..5
    BY DEF L!Kind
  <2>2. k2 \in {"none", "iv"} /\ (k2 = "none" <=> l[3] = "rc4")
    BY DEF Slots
  <2> QED BY <2>1, <2>2, SlotKinds
<1>3. \A k \in L!Kind : dc[k] \in Layer
  OBVIOUS
<1>4. CASE l[3] # "rc4" /\ ec["iv"] = 0 /\ L!Pass(l[1], [n |-> ec, data |-> L!Iv], size, pad) = iv
  <2> DEFINE w == [n |-> ec, data |-> L!Iv]
             v == L!Iv
  <2>0. w.n = ec /\ w.data = v /\ v \in Seq(Byte)
    BY IvIs
  <2>1. L!Pass(k1, w, size, pad) = iv /\ k2 = "iv"
    BY <1>2, <1>4
  <2> HIDE DEF k1, k2, w, v
  <2>2. Sends(k1, w, iv, size, pad, dc[k1])
    BY <1>2, <1>3, <2>0, <2>1 DEF Sends, Fits, k1
  <2>3. Gap(k1, w, dc[k1], a, b)
    BY <1>1, <1>2, <2>0 DEF Gap
  <2>4. Grown(k1, w, iv, dc[k1], a, b)
    BY <1>2, <2>2, <2>3, PassWhole
  <2>5. /\ iv.n \in [L!Kind -> Nat] /\ (\A j \in L!Kind : j # k1 => iv.n[j] = ec[j]) /\ iv.data \in Seq(Word)
        /\ Spans(k1, dc[k1], iv.n[k1], a \o iv.data, b \o v)
    BY <2>0, <2>4 DEF Grown
  <2>6. b \o v \in Seq(Byte)
    BY <2>0, ByteConcat
  <2>7. Spans(k2, dc[k2], 0, b, c) /\ iv.n["iv"] = 0
    BY <1>1, <1>2, <1>4, <2>1, <2>5
  <2>8. b \in Seq(Word)
    BY BytesAreWords
  <2>9. /\ Spans(l[3], dc[l[3]], iv.n[l[3]], c, p) /\ Spans(l[4], dc[l[4]], iv.n[l[4]], p, q)
    <3>1. (l[3] # "none" => iv.n[l[3]] = ec[l[3]]) /\ (l[4] # "none" => iv.n[l[4]] = ec[l[4]])
      BY <1>2, <2>5
    <3> QED BY <1>1, <3>1, SameLayer
  <2>10. Open(l, dc, iv.n, a \o iv.data, b \o v, c, p, q)
    BY <2>1, <2>5, <2>7, <2>8, <2>9 DEF Open, k1, k2, v
  <2>11. iv.n["ota"] = ec["ota"]
    BY <1>2, <2>5
  <2> QED BY <1>4, <2>5, <2>6, <2>10, <2>11 DEF Opens
<1>5. CASE (l[3] = "rc4" \/ ec["iv"] # 0) /\ iv.n = ec /\ iv.data = <<>>
  <2>1. a \o iv.data = a
    <3>1. a \o <<>> = a
      BY <1>0, WordParts
    <3> QED BY <1>5, <3>1
  <2>2. k2 = "iv" => ec["iv"] = 1
    <3>1. k2 = "iv" => ec[k2] = 0 \/ ec[k2] = 1
      BY <1>1 DEF Spans
    <3> QED BY <1>2, <1>5, <3>1
  <2>3. l[3] = "rc4" => c = <<>>
    <3> SUFFICES ASSUME l[3] = "rc4" PROVE c = <<>>
      OBVIOUS
    <3> HIDE DEF k1, k2
    <3>1. Spans(k1, dc[k1], ec[k1], <<>>, b)
      BY <1>0, <1>1
    <3>2. b = <<>>
      BY <1>2, <1>3, <3>1, Nothing
    <3>3. Spans(k2, dc[k2], ec[k2], <<>>, c)
      BY <1>1, <3>2
    <3> QED BY <1>2, <1>3, <3>3, Nothing
  <2>4. Open(l, dc, iv.n, a \o iv.data, b, c, p, q)
    BY <1>1, <1>5, <2>1, <2>2 DEF Open
  <2>5. iv.data \in Seq(Word)
    BY <1>5, EmptySeq
  <2>6. iv.n \in [L!Kind -> Nat] /\ iv.n["ota"] = ec["ota"]
    BY <1>5
  <2> QED BY <2>3, <2>4, <2>5, <2>6 DEF Opens
<1> QED BY <1>4, <1>5 DEF Greeted

(* One write, down through all layers.                                     *)
Sunk(l, dc, ec, body, x, a, q, g, v) ==
  /\ body.n \in [L!Kind -> Nat] /\ body.data \in Seq(Word)
  /\ \E t \in Seq(Byte) :
       /\ Spans(l[5], dc[l[5]], body.n[l[5]], g \o t, v \o x)
       /\ Chain(l, dc, body.n, a \o body.data, q \o t)
       /\ (l[5] = "none" => t = x /\ body.n["ota"] = ec["ota"])

(* A write with what goes before it: the chain is longer by what was       *)
(* written.                                                                *)
LEMMA WriteChain ==
  ASSUME L!BoundsOK, NEW l, Slots(l), NEW ec \in [L!Kind -> Nat], NEW dc \in [L!Kind -> Layer],
         NEW size \in Nat \ {0}, NEW pad \in {0, 1}, NEW a, NEW q, Writable(l, dc, ec, a, q),
         NEW iv, Greeted(l, ec, iv, size, pad), NEW x \in Seq(Byte), Len(x) <= 198,
         NEW g, NEW v, Spans(l[5], dc[l[5]], ec[l[5]], g, v)
  PROVE  iv.data \in Seq(Word) /\ Sunk(l, dc, ec, L!Down(l, [n |-> iv.n, data |-> x], size, pad), x, a \o iv.data, q, g, v)
<1> DEFINE w == [n |-> iv.n, data |-> x]
           body == L!Down(l, w, size, pad)
           a2 == a \o iv.data
<1>0. Opens(l, dc, ec, iv, a, q)
  BY GreetedOpen
<1>1. /\ iv.n \in [L!Kind -> Nat] /\ iv.data \in Seq(Word) /\ iv.n["ota"] = ec["ota"] /\ q \in Seq(Byte)
      /\ \E b, c, p \in Seq(Byte) : Open(l, dc, iv.n, a2, b, c, p, q) /\ (l[3] = "rc4" => c = <<>>)
  BY <1>0 DEF Opens, Writable
<1> HIDE DEF a2
<1>2. PICK b \in Seq(Byte), c \in Seq(Byte), p \in Seq(Byte) :
        Open(l, dc, iv.n, a2, b, c, p, q) /\ (l[3] = "rc4" => c = <<>>)
  BY <1>1
<1>3. w.n = iv.n /\ w.data = x
  OBVIOUS
<1>4. PICK w1, w2, w3, w4 :
        /\ L!Pass(l[5], w, size, pad) = w1 /\ L!Pass(l[4], w1, size, pad) = w2
        /\ L!Pass(l[3], w2, size, pad) = w3 /\ L!Pass(l[2], w3, size, pad) = w4
        /\ L!Down(l, w, size, pad) = L!Pass(l[1], w4, size, pad)
  <2>1. Len(l) = 5
    BY DEF Slots
  <2> HIDE DEF w
  <2> QED BY <2>1, DownIs
<1>5. Steps(l, w, w1, w2, w3, w4, body, size, pad)
  <2> HIDE DEF w
  <2> QED BY <1>4 DEF Steps
<1>6. Spans(l[5], dc[l[5]], w.n[l[5]], g, v)
  <2> HIDE DEF w
  <2>1. l[5] # "none" => w.n[l[5]] = ec[l[5]]
    BY <1>1, <1>3 DEF Slots
  <2> QED BY <2>1, SameLayer
<1> HIDE DEF w, body
<1>7. DownFrom(l, dc, w, a2, b, c, p, q)
  BY <1>1, <1>2, <1>3 DEF DownFrom
<1>8. DownTo(l, dc, w, w1, body, a2, q, g, v)
  BY <1>5, <1>6, <1>7, DownChain
<1>9. Sunk(l, dc, ec, body, x, a2, q, g, v)
  BY <1>1, <1>3, <1>8 DEF DownTo, Sunk
<1> QED BY <1>1, <1>9 DEF body, w, a2

-----------------------------------------------------------------------------
(***************************************************************************)
(* The opening.                                                            *)
(***************************************************************************)
(* One frame carries what it carries.                                      *)
LEMMA FramedOne ==
  ASSUME NEW k, NEW n \in Nat, NEW f, NEW c, Sits(k, n, f, c)
  PROVE  Framed(k, n, n + L!Advance(k), f, c)
<1> DEFINE fs == <<f>>
           cs == <<c>>
<1>1. f \in Seq(Word) /\ c \in Seq(Byte)
  BY DEF Sits
<1>2. fs \in Seq(Seq(Word)) /\ cs \in Seq(Seq(Byte)) /\ Len(fs) = 1 /\ Len(cs) = 1 /\ fs[1] = f /\ cs[1] = c
  BY <1>1
<1>3. L!FlattenSeq(fs) = f /\ L!FlattenSeq(cs) = c
  BY <1>1, FlattenOne, SameFlatten
<1>4. L!Advance(k) * 1 = L!Advance(k) /\ L!Advance(k) * 0 = 0 /\ 1 - 1 = 0 /\ n + 0 = n
  BY AdvanceIs
<1> HIDE DEF fs, cs
<1>5. \A i \in 1..Len(fs) : Sits(k, n + (L!Advance(k) * (i - 1)), fs[i], cs[i])
  BY <1>2, <1>4
<1>6. FramedBy(k, n, n + L!Advance(k), f, c, fs, cs)
  BY <1>2, <1>3, <1>4, <1>5 DEF FramedBy
<1> QED BY <1>2, <1>6 DEF Framed

(* The part of the opening that the plugin of the reader takes for itself. *)
Hello(s) ==
  CASE s.opening = "http"                          -> <<71, 10>>
    [] s.opening = "ticket" /\ s.writer = "client" -> <<22, 1, 3>>
    [] OTHER                                       -> <<>>

Joins(a, b, c) ==
  /\ a \in Seq(Word) /\ b \in Seq(Word) /\ c \in Seq(Word) /\ Len(c) = Len(a) + Len(b)
  /\ (\A i \in 1..Len(a) : c[i] = a[i]) /\ (\A i \in 1..Len(b) : c[Len(a) + i] = b[i])

(* Two sequences, joined position by position.                             *)
LEMMA JoinIs ==
  ASSUME NEW a, NEW b, NEW c, Joins(a, b, c)
  PROVE  a \o b = c
<1>0. /\ a \in Seq(Word) /\ b \in Seq(Word) /\ c \in Seq(Word) /\ Len(c) = Len(a) + Len(b)
      /\ (\A i \in 1..Len(a) : c[i] = a[i]) /\ (\A i \in 1..Len(b) : c[Len(a) + i] = b[i])
  BY DEF Joins
<1> DEFINE x == a \o b
<1>1. x \in Seq(Word) /\ Len(x) = Len(a) + Len(b) /\ Len(a) \in Nat /\ Len(b) \in Nat
      /\ \A i \in 1..(Len(a) + Len(b)) : x[i] = IF i <= Len(a) THEN a[i] ELSE b[i - Len(a)]
  BY <1>0, ConcatProperties, LenProperties
<1> HIDE DEF x
<1>2. \A i \in 1..Len(x) : x[i] = c[i]
  <2> SUFFICES ASSUME NEW i \in 1..Len(x) PROVE x[i] = c[i]
    OBVIOUS
  <2>1. CASE i <= Len(a)
    <3>1. i \in 1..Len(a) /\ i \in 1..(Len(a) + Len(b))
      BY <1>1, <2>1
    <3>2. x[i] = a[i]
      BY <1>1, <2>1, <3>1
    <3> QED BY <1>0, <3>1, <3>2
  <2>2. CASE i > Len(a)
    <3>1. i - Len(a) \in 1..Len(b) /\ Len(a) + (i - Len(a)) = i
      BY <1>0, <1>1, <2>2
    <3> QED BY <1>0, <1>1, <2>2, <3>1
  <2> QED BY <1>0, <1>1, <2>1, <2>2
<1>3. x = c
  BY <1>0, <1>1, <1>2, SeqEqual
<1> QED BY <1>3 DEF x

(* The handshake of the ticket plugin are records that carry nothing.      *)
LEMMA TicketOpening ==
  /\ <<20, 1, 1, 22, 2, 5, 6>> \in Seq(Word) /\ <<22, 1, 2, 20, 1, 1, 22, 2, 5, 6>> \in Seq(Word)
  /\ Framed("ticket", 0, 0, <<20, 1, 1, 22, 2, 5, 6>>, <<>>)
  /\ Framed("ticket", 0, 0, <<22, 1, 2, 20, 1, 1, 22, 2, 5, 6>>, <<>>)
<1>1. ASSUME NEW t \in {20, 22}, NEW d \in Seq(Byte) PROVE Framed("ticket", 0, 0, <<t, Len(d)>> \o d, <<>>)
  <2> DEFINE f == <<t, Len(d)>> \o d
  <2>1. t \in {20, 22, 23} /\ t # 23 /\ 0 \in Nat
    OBVIOUS
  <2>2. Sits("ticket", 0, f, IF t = 23 THEN d ELSE <<>>)
    BY <2>1, TicketFrame
  <2> HIDE DEF f
  <2>3. Sits("ticket", 0, f, <<>>)
    BY <2>1, <2>2
  <2>4. Framed("ticket", 0, 0 + L!Advance("ticket"), f, <<>>)
    BY <2>1, <2>3, FramedOne
  <2>5. 0 + L!Advance("ticket") = 0
    BY DEF L!Advance
  <2> QED BY <2>4, <2>5 DEF f
<1> DEFINE x == <<20, 1>> \o <<1>>
           y == <<22, 2>> \o <<5, 6>>
           z == <<22, 1>> \o <<2>>
<1>2. Framed("ticket", 0, 0, x, <<>>) /\ Framed("ticket", 0, 0, y, <<>>) /\ Framed("ticket", 0, 0, z, <<>>)
  <2>1. 1 \in Byte /\ 2 \in Byte /\ 5 \in Byte /\ 6 \in Byte
    BY ByteIs
  <2> DEFINE d1 == <<1>>
             d2 == <<5, 6>>
             d3 == <<2>>
  <2>2. d1 \in Seq(Byte) /\ Len(d1) = 1 /\ d2 \in Seq(Byte) /\ Len(d2) = 2 /\ d3 \in Seq(Byte) /\ Len(d3) = 1
    BY <2>1
  <2> HIDE DEF d1, d2, d3
  <2>3. /\ Framed("ticket", 0, 0, <<20, Len(d1)>> \o d1, <<>>) /\ Framed("ticket", 0, 0, <<22, Len(d2)>> \o d2, <<>>)
        /\ Framed("ticket", 0, 0, <<22, Len(d3)>> \o d3, <<>>)
    BY <1>1, <2>2
  <2> QED BY <2>2, <2>3 DEF d1, d2, d3
<1>3. /\ x \o y = <<20, 1, 1, 22, 2, 5, 6>>
      /\ z \o <<20, 1, 1, 22, 2, 5, 6>> = <<22, 1, 2, 20, 1, 1, 22, 2, 5, 6>>
  <2>1. x = <<20, 1, 1>>
    <3> DEFINE a == <<20, 1>>
               b == <<1>>
               c == <<20, 1, 1>>
    <3>1. a \in Seq(Word) /\ b \in Seq(Word) /\ c \in Seq(Word) /\ Len(a) = 2 /\ Len(b) = 1 /\ Len(c) = 3
      BY DEF Word
    <3>2. (\A i \in 1..2 : c[i] = a[i]) /\ (\A i \in 1..1 : c[2 + i] = b[i])
      OBVIOUS
    <3> HIDE DEF a, b, c
    <3>3. Joins(a, b, c)
      BY <3>1, <3>2 DEF Joins
    <3>4. a \o b = c
      BY <3>3, JoinIs
    <3> QED BY <3>4 DEF a, b, c
  <2>2. y = <<22, 2, 5, 6>>
    <3> DEFINE a == <<22, 2>>
               b == <<5, 6>>
               c == <<22, 2, 5, 6>>
    <3>1. a \in Seq(Word) /\ b \in Seq(Word) /\ c \in Seq(Word) /\ Len(a) = 2 /\ Len(b) = 2 /\ Len(c) = 4
      BY DEF Word
    <3>2. (\A i \in 1..2 : c[i] = a[i]) /\ (\A i \in 1..2 : c[2 + i] = b[i])
      OBVIOUS
    <3> HIDE DEF a, b, c
    <3>3. Joins(a, b, c)
      BY <3>1, <3>2 DEF Joins
    <3>4. a \o b = c
      BY <3>3, JoinIs
    <3> QED BY <3>4 DEF a, b, c
  <2>3. z = <<22, 1, 2>>
    <3> DEFINE a == <<22, 1>>
               b == <<2>>
               c == <<22, 1, 2>>
    <3>1. a \in Seq(Word) /\ b \in Seq(Word) /\ c \in Seq(Word) /\ Len(a) = 2 /\ Len(b) = 1 /\ Len(c) = 3
      BY DEF Word
    <3>2. (\A i \in 1..2 : c[i] = a[i]) /\ (\A i \in 1..1 : c[2 + i] = b[i])
      OBVIOUS
    <3> HIDE DEF a, b, c
    <3>3. Joins(a, b, c)
      BY <3>1, <3>2 DEF Joins
    <3>4. a \o b = c
      BY <3>3, JoinIs
    <3> QED BY <3>4 DEF a, b, c
  <2> HIDE DEF x, y, z
  <2>4. <<20, 1, 1>> \o <<22, 2, 5, 6>> = <<20, 1, 1, 22, 2, 5, 6>>
    <3> DEFINE a == <<20, 1, 1>>
               b == <<22, 2, 5, 6>>
               c == <<20, 1, 1, 22, 2, 5, 6>>
    <3>1. a \in Seq(Word) /\ b \in Seq(Word) /\ c \in Seq(Word) /\ Len(a) = 3 /\ Len(b) = 4 /\ Len(c) = 7
      BY DEF Word
    <3>2. (\A i \in 1..3 : c[i] = a[i]) /\ (\A i \in 1..4 : c[3 + i] = b[i])
      OBVIOUS
    <3> HIDE DEF a, b, c
    <3>3. Joins(a, b, c)
      BY <3>1, <3>2 DEF Joins
    <3>4. a \o b = c
      BY <3>3, JoinIs
    <3> QED BY <3>4 DEF a, b, c
  <2>5. <<22, 1, 2>> \o <<20, 1, 1, 22, 2, 5, 6>> = <<22, 1, 2, 20, 1, 1, 22, 2, 5, 6>>
    <3> DEFINE a == <<22, 1, 2>>
               b == <<20, 1, 1, 22, 2, 5, 6>>
               c == <<22, 1, 2, 20, 1, 1, 22, 2, 5, 6>>
    <3>1. a \in Seq(Word) /\ b \in Seq(Word) /\ c \in Seq(Word) /\ Len(a) = 3 /\ Len(b) = 7 /\ Len(c) = 10
      BY DEF Word
    <3>2. (\A i \in 1..3 : c[i] = a[i]) /\ (\A i \in 1..7 : c[3 + i] = b[i])
      OBVIOUS
    <3> HIDE DEF a, b, c
    <3>3. Joins(a, b, c)
      BY <3>1, <3>2 DEF Joins
    <3>4. a \o b = c
      BY <3>3, JoinIs
    <3> QED BY <3>4 DEF a, b, c
  <2> QED BY <2>1, <2>2, <2>3, <2>4, <2>5
<1> HIDE DEF x, y, z
<1>4. <<>> \o <<>> = <<>> /\ 0 \in Nat
  OBVIOUS
<1>5. Framed("ticket", 0, 0, x \o y, <<>> \o <<>>)
  BY <1>2, <1>4, FramedJoin
<1> DEFINE r == <<20, 1, 1, 22, 2, 5, 6>>
<1>6. Framed("ticket", 0, 0, r, <<>>)
  BY <1>3, <1>4, <1>5
<1>7. z \o r = <<22, 1, 2, 20, 1, 1, 22, 2, 5, 6>>
  BY <1>3
<1> DEFINE e == <<>> \o <<>>
<1> HIDE DEF r
<1>8. Framed("ticket", 0, 0, z \o r, <<>> \o <<>>)
  BY <1>2, <1>4, <1>6, FramedJoin
<1>9. Framed("ticket", 0, 0, z \o r, <<>>)
  BY <1>4, <1>8
<1>10. z \o r \in Seq(Word) /\ r \in Seq(Word)
  BY <1>6, <1>9, <1>4, FramedType
<1> QED BY <1>6, <1>7, <1>9, <1>10 DEF r

(* A layer that nothing has passed.                                        *)
LEMMA AtRest ==
  ASSUME NEW k \in L!Kind \union {"none"}, NEW d, d.buf = <<>>, d.n = 0
  PROVE  Spans(k, d, 0, <<>>, <<>>)
<1>1. <<>> \in Seq(Word) /\ <<>> \in Seq(Byte) /\ Len(<<>>) = 0 /\ 0 \in Nat
  OBVIOUS
<1>2. L!Crypt(0, <<>>) = <<>>
  <2> DEFINE c == L!Crypt(0, <<>>)
  <2>1. c \in Seq(Byte) /\ Len(c) = 0
    BY <1>1, CryptIs
  <2> HIDE DEF c
  <2>2. c = <<>>
    BY <2>1, BytesAreWords, NotEmpty
  <2> QED BY <2>2 DEF c
<1>3. Framed(k, 0, 0, <<>>, <<>>) /\ L!Size(k, 0, <<>>) = 0
  BY <1>1, FramedNone, SizeEmpty
<1>4. <<>> \o <<>> = <<>>
  OBVIOUS
<1> QED BY <1>1, <1>2, <1>3, <1>4 DEF Spans

(* What is under way at the start: what the plugin takes for itself, then  *)
(* what carries nothing.                                                   *)
LEMMA OpeningIs ==
  ASSUME NEW s \in L!StackType, NEW dc \in [L!Kind -> Layer], NEW ec,
         \A k \in L!Kind : dc[k].buf = <<>> /\ dc[k].n = 0 /\ ec[k] = 0
  PROVE  \E a \in Seq(Word) : L!Opening(s) = Hello(s) \o a /\ Chain(L!Layers(s, FALSE), dc, ec, a, <<>>)
<1> DEFINE l == L!Layers(s, FALSE)
           r == <<20, 1, 1, 22, 2, 5, 6>>
           v == <<22, 1, 2, 20, 1, 1, 22, 2, 5, 6>>
           a == IF s.opening # "ticket" THEN <<>> ELSE IF s.writer = "client" THEN r ELSE v
<1>1. r \in Seq(Word) /\ v \in Seq(Word) /\ Framed("ticket", 0, 0, r, <<>>) /\ Framed("ticket", 0, 0, v, <<>>)
  BY TicketOpening
<1>2. <<>> \in Seq(Word) /\ <<>> \in Seq(Byte)
  OBVIOUS
<1>3. L!Opening(s) = Hello(s) \o a
  <2>1. <<>> \o v = v /\ <<71, 10>> \o <<>> = <<71, 10>> /\ <<>> \o <<>> = <<>>
    OBVIOUS
  <2>2. s.opening \in {"none", "http", "ticket"} /\ s.writer \in {"client", "server"}
    BY DEF L!StackType
  <2>3. L!Opening(s) = IF s.opening = "http" THEN <<71, 10>> ELSE IF s.opening # "ticket" THEN <<>>
                       ELSE IF s.writer = "client" THEN <<22, 1, 3>> \o r ELSE v
    BY <2>2 DEF L!Opening, L!BLANK
  <2>4. Hello(s) = IF s.opening = "http" THEN <<71, 10>> ELSE IF s.opening # "ticket" THEN <<>>
                   ELSE IF s.writer = "client" THEN <<22, 1, 3>> ELSE <<>>
    BY <2>2 DEF Hello
  <2> HIDE DEF r, v
  <2> QED BY <2>1, <2>2, <2>3, <2>4
<1> HIDE DEF r, v
<1>4. IF s.opening = "ticket" THEN a \in Seq(Word) /\ Framed("ticket", 0, 0, a, <<>>) ELSE a = <<>>
  BY <1>1
<1>5. Slots(l) /\ (l[1] = "ticket" <=> s.opening = "ticket")
  BY LayersSlots
<1> HIDE DEF l, a
<1>6. a \in Seq(Word)
  BY <1>2, <1>4
<1>7. /\ l[1] \in L!Kind \union {"none"} /\ l[2] \in L!Kind \union {"none"} /\ l[3] \in L!Kind \union {"none"}
      /\ l[4] \in L!Kind \union {"none"}
      /\ (l[1] # "none" => l[1] \in L!Kind) /\ (l[2] # "none" => l[2] \in L!Kind)
      /\ (l[3] # "none" => l[3] \in L!Kind) /\ (l[4] # "none" => l[4] \in L!Kind)
  <2>1. 1 \in 1..5 /\ 2 \in 1..5 /\ 3 \in 1..5 /\ 4 \in 1..5
    OBVIOUS
  <2> QED BY <1>5, <2>1, SlotKinds
<1>8. ASSUME NEW k \in L!Kind \union {"none"}, k # "none" => k \in L!Kind
      PROVE  Spans(k, dc[k], ec[k], <<>>, <<>>)
  <2>1. CASE k = "none"
    BY <1>2, <2>1 DEF Spans, Framer
  <2>2. CASE k # "none"
    <3>1. dc[k].buf = <<>> /\ dc[k].n = 0 /\ ec[k] = 0
      BY <2>2
    <3>2. Spans(k, dc[k], 0, <<>>, <<>>)
      BY <3>1, AtRest
    <3> QED BY <3>1, <3>2
  <2> QED BY <2>1, <2>2
<1>9. Spans(l[1], dc[l[1]], ec[l[1]], a, <<>>)
  <2>1. CASE l[1] = "ticket"
    <3>1. "ticket" \in L!Kind
      BY DEF L!Kind
    <3>2. dc["ticket"].buf = <<>> /\ dc["ticket"].n = 0 /\ ec["ticket"] = 0
      BY <3>1
    <3>3. <<>> \o a = a
      BY <1>6, WordParts
    <3>4. Framed("ticket", 0, 0, a, <<>>) /\ L!Size("ticket", 0, <<>>) = 0
      BY <1>4, <1>5, <2>1, SizeEmpty
    <3>5. Spans("ticket", dc["ticket"], ec["ticket"], a, <<>>)
      BY <1>2, <1>6, <3>2, <3>3, <3>4 DEF Spans
    <3> QED BY <2>1, <3>5
  <2>2. CASE l[1] # "ticket"
    <3>1. a = <<>>
      BY <1>4, <1>5, <2>2
    <3> QED BY <1>7, <1>8, <3>1
  <2> QED BY <2>1, <2>2
<1>10. Links(l, dc, ec, a, <<>>, <<>>, <<>>, <<>>)
  BY <1>7, <1>8, <1>9 DEF Links
<1>11. Chain(l, dc, ec, a, <<>>)
  BY <1>2, <1>10 DEF Chain
<1> QED BY <1>3, <1>6, <1>11 DEF l

-----------------------------------------------------------------------------
(***************************************************************************)
(* The bytes that are written.                                             *)
(***************************************************************************)
(* The bytes that are written, by their number.                            *)
LEMMA UptoIs ==
  ASSUME NEW n \in 0..198
  PROVE  L!Upto(n) \in Seq(Byte) /\ Len(L!Upto(n)) = n /\ \A i \in 1..n : L!Upto(n)[i] = i
<1> DEFINE u == L!Upto(n)
<1>1. u = [i \in 1..n |-> i] /\ n \in Nat
  BY DEF L!Upto
<1>2. \A i \in 1..n : i \in Byte
  BY ByteIs
<1> HIDE DEF u
<1>3. u \in [1..n -> Byte]
  BY <1>1, <1>2
<1>4. u \in Seq(Byte) /\ Len(u) = n
  BY <1>1, <1>3
<1> QED BY <1>1, <1>4 DEF u

(* Before the first write there are none.                                  *)
LEMMA UptoZero == L!Upto(0) = <<>>
<1>1. L!Upto(0) = [i \in 1..0 |-> i]
  BY DEF L!Upto
<1> QED BY <1>1

(* A write goes on with the next numbers.                                  *)
LEMMA UptoMore ==
  ASSUME NEW n \in Nat, NEW m \in Nat, n + m <= 198
  PROVE  LET x == [i \in 1..m |-> n + i]
         IN x \in Seq(Byte) /\ Len(x) = m /\ L!Upto(n) \o x = L!Upto(n + m)
<1> DEFINE x == [i \in 1..m |-> n + i]
           u == L!Upto(n)
           v == L!Upto(n + m)
<1>1. n \in 0..198 /\ n + m \in 0..198
  OBVIOUS
<1>2. /\ u \in Seq(Byte) /\ Len(u) = n /\ (\A i \in 1..n : u[i] = i)
      /\ v \in Seq(Byte) /\ Len(v) = n + m /\ (\A i \in 1..(n + m) : v[i] = i)
  BY <1>1, UptoIs, Zenon
<1>3. \A i \in 1..m : n + i \in Byte
  BY ByteIs
<1>4. x = [i \in 1..m |-> n + i]
  OBVIOUS
<1> HIDE DEF x, u, v
<1>5. x \in [1..m -> Byte]
  BY <1>3, <1>4
<1>6. x \in Seq(Byte) /\ Len(x) = m
  BY <1>5
<1>7. Joins(u, x, v)
  <2>1. u \in Seq(Word) /\ v \in Seq(Word) /\ x \in Seq(Word)
    BY <1>2, <1>6, BytesAreWords
  <2>2. (\A i \in 1..n : v[i] = u[i]) /\ (\A i \in 1..m : v[n + i] = x[i])
    BY <1>2, <1>4
  <2> QED BY <1>2, <1>6, <2>1, <2>2 DEF Joins
<1>8. u \o x = v
  BY <1>7, JoinIs
<1> QED BY <1>6, <1>8, Zenon DEF x, u, v

-----------------------------------------------------------------------------
(***************************************************************************)
(* The invariant.                                                          *)
(***************************************************************************)
Plain == L!Layers(stack, FALSE)

(* What is under way below the layers: without the part of the opening     *)
(* that the plugin takes for itself.                                       *)
Pending(a) == IF stage_ = "opening" THEN raw \o line = Hello(stack) \o a ELSE raw = <<>> /\ line = a

(* What is still to come out above the four layers: without chunks, before *)
(* the first write of a chunked stream, with chunks that the reader does   *)
(* not know yet, with chunks it knows.                                     *)
Chunked(y, v) == Spans("ota", dec["ota"], enc["ota"], y, v)

HeldPlain(q) == stack.request = 0 /\ stage_ # "patched" /\ out \o q = L!Upto(written)
HeldFresh(q) == stack.request > 0 /\ stage_ # "patched" /\ written = 0 /\ out = <<>> /\ q = <<>> /\ Chunked(<<>>, <<>>)
HeldChunks(q) ==
  /\ stack.request > 0 /\ stage_ # "patched" /\ written > 0 /\ stack.request <= written
  /\ \E g, v \in Seq(Byte) : /\ out \o q = L!Upto(stack.request) \o g /\ Chunked(g, v)
                             /\ L!Upto(stack.request) \o v = L!Upto(written)
HeldPatched(q) ==
  /\ stack.request > 0 /\ stage_ = "patched" /\ written > 0
  /\ \E v \in Seq(Byte) : Chunked(q, v) /\ out \o v = L!Upto(written)
Held(q) == HeldPlain(q) \/ HeldFresh(q) \/ HeldChunks(q) \/ HeldPatched(q)

FType ==
  /\ stack \in L!StackType /\ written \in 0..MaxData /\ stage_ \in {"opening", "attached", "patched"}
  /\ line \in Seq(Word) /\ raw \in Seq(Word) /\ out \in Seq(Byte)
  /\ enc \in [L!Kind -> Nat] /\ dec \in [L!Kind -> Layer]
Intact ==
  /\ torn = FALSE /\ FType
  /\ \E a \in Seq(Word), q \in Seq(Byte) : Pending(a) /\ Chain(Plain, dec, enc, a, q) /\ Held(q)
FInv == torn = TRUE \/ Intact

(* The invariant holds at the start.                                       *)
LEMMA FInvInit == L!Init => FInv
<1> SUFFICES ASSUME L!Init PROVE Intact
  BY DEF FInv
<1>1. /\ stack \in Stacks /\ written = 0 /\ enc = [k \in L!Kind |-> 0]
      /\ line = L!Opening(stack) /\ raw = <<>> /\ stage_ = "opening"
      /\ dec = [k \in L!Kind |-> [buf |-> <<>>, n |-> 0]]
      /\ out = <<>> /\ torn = FALSE
  BY DEF L!Init
<1>2. stack \in L!StackType /\ MaxData \in Nat
  BY <1>1, StackAssumption, BoundsAssumption DEF L!StackOK, L!BoundsOK
<1>3. <<>> \in Seq(Word) /\ <<>> \in Seq(Byte) /\ 0 \in Nat /\ <<>> \o <<>> = <<>>
  OBVIOUS
<1>4. enc \in [L!Kind -> Nat] /\ dec \in [L!Kind -> Layer]
  BY <1>1, <1>3 DEF Layer
<1>5. \A k \in L!Kind : dec[k].buf = <<>> /\ dec[k].n = 0 /\ enc[k] = 0
  BY <1>1
<1>6. PICK a \in Seq(Word) : L!Opening(stack) = Hello(stack) \o a /\ Chain(L!Layers(stack, FALSE), dec, enc, a, <<>>)
  BY <1>2, <1>4, <1>5, OpeningIs
<1>7. Hello(stack) \in Seq(Word)
  BY DEF Hello, Word
<1>8. line \in Seq(Word) /\ raw \o line = Hello(stack) \o a
  <2> DEFINE h == Hello(stack)
  <2>1. h \in Seq(Word) /\ line = h \o a
    BY <1>1, <1>6, <1>7
  <2> HIDE DEF h
  <2>2. line \in Seq(Word)
    <3>1. h \o a \in Seq(Word)
      BY <2>1, WordParts
    <3> QED BY <2>1, <3>1
  <2>3. <<>> \o line = line
    BY <2>2, WordParts
  <2> QED BY <1>1, <2>1, <2>2, <2>3 DEF h
<1>9. Chunked(<<>>, <<>>)
  <2>1. "ota" \in L!Kind
    BY DEF L!Kind
  <2>2. dec["ota"].buf = <<>> /\ dec["ota"].n = 0 /\ enc["ota"] = 0
    BY <1>5, <2>1
  <2>3. Spans("ota", dec["ota"], 0, <<>>, <<>>)
    BY <2>1, <2>2, AtRest
  <2> QED BY <2>2, <2>3 DEF Chunked
<1>10. L!Upto(0) = <<>>
  BY UptoZero
<1>11. Held(<<>>)
  <2>1. stack.request \in Nat
    BY <1>2 DEF L!StackType
  <2>2. CASE stack.request = 0
    BY <1>1, <1>3, <1>10, <2>2 DEF Held, HeldPlain
  <2>3. CASE stack.request > 0
    BY <1>1, <1>9, <2>3 DEF Held, HeldFresh
  <2> QED BY <2>1, <2>2, <2>3
<1>12. Pending(a)
  BY <1>1, <1>8 DEF Pending
<1>13. FType
  BY <1>1, <1>2, <1>3, <1>4, <1>8 DEF FType
<1> QED BY <1>1, <1>3, <1>6, <1>11, <1>12, <1>13 DEF Intact, Plain

-----------------------------------------------------------------------------
(***************************************************************************)
(* The steps: what the reader is given.                                    *)
(***************************************************************************)
(* A piece is fed to the reader as it stands.                              *)
LEMMA FeedIs ==
  ASSUME NEW data
  PROVE  LET r == L!Feed(data) IN r.dec = dec /\ r.data = data /\ r.ok = TRUE /\ r.torn = torn
BY DEF L!Feed

(* The four layers of the stack.                                           *)
LEMMA PlainSlots ==
  ASSUME FType
  PROVE  Slots(Plain) /\ Plain[5] = "none" /\ Plain[3] = stack.cipher
<1>1. stack \in L!StackType
  BY DEF FType
<1> QED BY <1>1, LayersSlots DEF Plain

(* What is delivered of q goes to the end of what is held.                 *)
LEMMA HeldMore ==
  ASSUME FType, stage_ # "patched", NEW q \in Seq(Byte), Held(q), NEW d \in Seq(Byte), NEW y \in Seq(Byte), d \o y = q,
         out' = out \o d, stage_' # "patched", UNCHANGED <<stack, written, enc>>, dec'["ota"] = dec["ota"]
  PROVE  Held(y)'
<1>1. /\ stack' = stack /\ written' = written /\ enc' = enc
  OBVIOUS
<1>2. out \in Seq(Word) /\ d \in Seq(Word) /\ y \in Seq(Word) /\ out \in Seq(Byte)
  BY BytesAreWords DEF FType
<1>3. out' \o y = out \o q
  <2>1. (out \o d) \o y = out \o (d \o y)
    BY <1>2, WordAssoc
  <2> QED BY <2>1
<1>4. \A g, v : Chunked(g, v)' <=> Chunked(g, v)
  BY <1>1 DEF Chunked
<1>5. CASE HeldPlain(q)
  <2>1. HeldPlain(y)'
    BY <1>1, <1>3, <1>5 DEF HeldPlain
  <2> QED BY <2>1 DEF Held
<1>6. CASE HeldFresh(q)
  <2>1. q = <<>> /\ out = <<>>
    BY <1>6 DEF HeldFresh
  <2>2. d = <<>> /\ y = <<>>
    BY <1>2, <2>1, WordParts
  <2>3. out' = <<>>
    BY <2>1, <2>2
  <2>4. HeldFresh(y)'
    BY <1>1, <1>4, <1>6, <2>2, <2>3 DEF HeldFresh
  <2> QED BY <2>4 DEF Held
<1>7. CASE HeldChunks(q)
  <2>1. HeldChunks(y)'
    BY <1>1, <1>3, <1>4, <1>7 DEF HeldChunks
  <2> QED BY <2>1 DEF Held
<1>8. CASE HeldPatched(q)
  BY <1>8 DEF HeldPatched
<1> QED BY <1>5, <1>6, <1>7, <1>8 DEF Held

(* A piece to the reader that knows of no chunks.                          *)
LEMMA GivenPlain ==
  ASSUME FType, torn = FALSE, stage_ # "patched", NEW data \in Seq(Word), NEW rest \in Seq(Word), NEW q \in Seq(Byte),
         Chain(Plain, dec, enc, data \o rest, q), Held(q),
         L!Given(L!Through(Plain, L!Feed(data)), out, "attached"), line' = rest, raw' = <<>>,
         UNCHANGED <<stack, written, enc>>
  PROVE  FInv'
<1> DEFINE r == L!Feed(data)
           z == L!Through(Plain, r)
<1>1. stack' = stack /\ written' = written /\ enc' = enc
  OBVIOUS
<1>2. r.dec = dec /\ r.data = data /\ r.ok = TRUE /\ r.torn = FALSE
  BY FeedIs
<1>3. Slots(Plain) /\ Plain[5] = "none" /\ Plain[3] = stack.cipher
  BY PlainSlots
<1>4. L!Given(z, out, "attached")
  OBVIOUS
<1> HIDE DEF r
<1> SUFFICES ASSUME torn' # TRUE PROVE Intact'
  BY DEF FInv
<1>5. Reader(r)
  BY <1>2 DEF Reader, FType
<1>6. z.torn = TRUE \/ (Unread(Plain, r, enc, rest, q) => Delivered(Plain, r, z, enc, rest, q))
  BY <1>3, <1>5, ThroughPlain
<1> HIDE DEF z
<1>7. /\ dec' = z.dec /\ torn' = (z.torn \/ (stack.cipher = "rc4" /\ line' # <<>>))
      /\ out' = (IF z.ok THEN out \o z.data ELSE out)
      /\ stage_' = (IF z.ok THEN "attached" ELSE "failed")
  BY <1>4 DEF L!Given
<1>8. z.torn # TRUE /\ (stack.cipher = "rc4" => rest = <<>>)
  BY <1>7
<1>9. Unread(Plain, r, enc, rest, q)
  BY <1>2, <1>3, <1>8 DEF Unread
<1>10. Reader(z) /\ z.data \in Seq(Byte) /\ z.dec["ota"] = r.dec["ota"]
  BY <1>6, <1>8, <1>9 DEF Delivered
<1>11. PICK y \in Seq(Byte) : z.data \o y = q /\ Chain(Plain, z.dec, enc, rest, y)
  BY <1>6, <1>8, <1>9 DEF Delivered
<1>12. z.ok = TRUE /\ z.torn = FALSE /\ z.dec \in [L!Kind -> Layer]
  BY <1>10 DEF Reader
<1>13. torn' = FALSE /\ out' = out \o z.data /\ stage_' = "attached" /\ dec' = z.dec
  BY <1>7, <1>8, <1>12
<1>14. Held(y)'
  <2>1. dec'["ota"] = dec["ota"]
    BY <1>2, <1>10, <1>13
  <2> QED BY <1>10, <1>11, <1>13, <2>1, HeldMore
<1>15. FType'
  <2>1. out' \in Seq(Byte)
    <3>1. out \in Seq(Byte)
      BY DEF FType
    <3>2. out \o z.data \in Seq(Byte)
      BY <1>10, <3>1, ByteConcat
    <3> QED BY <1>13, <3>2
  <2>2. <<>> \in Seq(Word)
    OBVIOUS
  <2> QED BY <1>1, <1>12, <1>13, <2>1, <2>2 DEF FType
<1>16. Pending(rest)'
  BY <1>13 DEF Pending
<1>17. Chain(Plain, dec, enc, rest, y)'
  BY <1>1, <1>11, <1>13 DEF Plain
<1> QED BY <1>13, <1>14, <1>15, <1>16, <1>17 DEF Intact

(* What follows the part of the opening that the plugin takes for itself.  *)
LEMMA ExpectedIs ==
  ASSUME FType, NEW a \in Seq(Word), raw \o line = Hello(stack) \o a,
         stack.opening = "http" \/ (stack.opening = "ticket" /\ stack.writer = "client") => L!Expected(stack) > 0
  PROVE  LET t == L!After(raw, L!Expected(stack)) IN t \in Seq(Word) /\ t \o line = a
<1> DEFINE h == Hello(stack)
           e == L!Expected(stack)
<1>1. h \in Seq(Word) /\ raw \in Seq(Word) /\ line \in Seq(Word) /\ Len(raw) \in Nat
  BY NotEmpty DEF FType, Hello, Word
<1>2. ASSUME e = Len(h), Len(raw) >= Len(h) PROVE L!After(raw, e) \in Seq(Word) /\ L!After(raw, e) \o line = a
  <2>1. h \in Seq(Word) /\ raw \o line = h \o a /\ e = Len(h) /\ Len(raw) >= Len(h)
    BY <1>1, <1>2
  <2> HIDE DEF h, e
  <2>2. L!After(raw, Len(h)) \in Seq(Word) /\ L!After(raw, Len(h)) \o line = a
    <3> DEFINE t == L!After(raw, Len(h))
    <3>1. t \in Seq(Word) /\ h \o t = raw /\ t \o line = a /\ SubSeq(raw, 1, Len(h)) = h
      BY <1>1, <2>1, WordOverlap
    <3> QED BY <3>1
  <2> QED BY <2>1, <2>2
<1>4. \A i \in 1..Len(h) : i \in 1..Len(raw) => raw[i] = h[i]
  <2>1. h \in Seq(Word) /\ raw \o line = h \o a
    BY <1>1
  <2> HIDE DEF h
  <2>2. (\A i \in 1..Len(h) : (h \o a)[i] = h[i]) /\ (\A i \in 1..Len(raw) : (raw \o line)[i] = raw[i])
    BY <1>1, <2>1, Heads
  <2> QED BY <2>1, <2>2
<1>3. CASE stack.opening = "http"
  <2>1. h = <<71, 10>> /\ Len(h) = 2
    BY <1>3 DEF Hello
  <2>2. e = L!SelectInSeq(raw, LAMBDA b : b = 10) /\ e > 0
    BY <1>3 DEF L!Expected, L!BLANK
  <2> DEFINE I == {i \in 1..Len(raw) : raw[i] = 10}
  <2>3. e = IF I # {} THEN L!Min(I) ELSE 0
    BY <2>2 DEF L!SelectInSeq
  <2>4. I # {} /\ e = L!Min(I)
    BY <2>2, <2>3
  <2>5. e \in I /\ \A y \in I : e <= y
    <3>1. I \in SUBSET Nat
      BY <1>1
    <3> HIDE DEF I
    <3>2. \E x \in I : \A y \in I : x <= y
      BY <2>4, <3>1, Least
    <3> QED BY <2>4, <3>2 DEF L!Min
  <2>6. \A i \in 1..2 : i \in 1..Len(raw) => raw[i] = h[i]
    BY <1>4, <2>1
  <2>7. h[1] = 71 /\ h[2] = 10
    BY <2>1
  <2> HIDE DEF e, h
  <2>8. e \in 1..Len(raw) /\ raw[e] = 10
    BY <2>5
  <2>9. e # 1
    BY <2>6, <2>7, <2>8
  <2>10. Len(raw) >= 2
    BY <1>1, <2>8, <2>9
  <2>11. 2 \in I
    BY <1>1, <2>6, <2>7, <2>10
  <2>12. e = 2
    BY <1>1, <2>5, <2>8, <2>9, <2>11
  <2> QED BY <1>2, <2>1, <2>10, <2>12 DEF e
<1>5. CASE stack.opening = "ticket" /\ stack.writer = "client"
  <2>1. h = <<22, 1, 3>> /\ Len(h) = 3 /\ h[2] = 1
    BY <1>5 DEF Hello
  <2>2. e = (IF Len(raw) < 2 THEN 0 ELSE L!Whole(raw, 2 + raw[2])) /\ e > 0
    BY <1>5 DEF L!Expected
  <2>3. Len(raw) >= 2 /\ e = L!Whole(raw, 2 + raw[2])
    <3> HIDE DEF e
    <3> QED BY <1>1, <2>2
  <2>4. raw[2] = h[2]
    BY <1>1, <1>4, <2>1, <2>3
  <2>5. e = (IF 3 > Len(raw) THEN 0 ELSE 3)
    BY <2>1, <2>3, <2>4 DEF L!Whole
  <2>6. e = 3 /\ Len(raw) >= 3
    <3> HIDE DEF e
    <3> QED BY <1>1, <2>2, <2>5
  <2> QED BY <1>2, <2>1, <2>6
<1>6. CASE stack.opening # "http" /\ ~(stack.opening = "ticket" /\ stack.writer = "client")
  <2>1. h = <<>> /\ Len(h) = 0
    BY <1>6 DEF Hello
  <2>2. e = 0
    BY <1>6 DEF L!Expected
  <2>3. e = Len(h) /\ Len(raw) >= Len(h)
    <3> HIDE DEF e, h
    <3> QED BY <1>1, <2>1, <2>2
  <2> QED BY <1>2, <2>3
<1> QED BY <1>3, <1>5, <1>6

(* The reader is attached and takes what followed the opening in the same  *)
(* piece.                                                                  *)
LEMMA AttachKeeps == Intact /\ L!Attach => FInv'
<1> SUFFICES ASSUME Intact, L!Attach PROVE FInv'
  OBVIOUS
<1> DEFINE data == L!After(raw, L!Expected(stack))
<1>1. /\ stage_ = "opening" /\ UNCHANGED <<stack, written, enc, line>> /\ raw' = <<>>
      /\ stack.opening = "http" \/ (stack.opening = "ticket" /\ stack.writer = "client") => L!Expected(stack) > 0
      /\ L!Given(L!Through(Plain, L!Feed(data)), out, "attached")
  BY DEF L!Attach, Plain
<1>2. FType /\ torn = FALSE
  BY DEF Intact
<1>3. PICK a \in Seq(Word), q \in Seq(Byte) : Pending(a) /\ Chain(Plain, dec, enc, a, q) /\ Held(q)
  BY DEF Intact
<1>4. raw \o line = Hello(stack) \o a
  BY <1>1, <1>3 DEF Pending
<1>5. data \in Seq(Word) /\ data \o line = a
  BY <1>1, <1>2, <1>4, ExpectedIs
<1> HIDE DEF data
<1>6. Chain(Plain, dec, enc, data \o line, q)
  BY <1>3, <1>5
<1>7. line \in Seq(Word) /\ stage_ # "patched" /\ line' = line /\ UNCHANGED <<stack, written, enc>>
  BY <1>1, <1>2 DEF FType
<1> QED BY <1>1, <1>2, <1>3, <1>5, <1>6, <1>7, GivenPlain

(* What arrives goes from the line to the end of what is held.             *)
LEMMA Moved ==
  ASSUME NEW b \in Seq(Word), NEW s \in Seq(Word), NEW n \in 0..Len(s)
  PROVE  /\ b \o SubSeq(s, 1, n) \in Seq(Word) /\ L!After(s, n) \in Seq(Word)
         /\ (b \o SubSeq(s, 1, n)) \o L!After(s, n) = b \o s
<1> DEFINE d == SubSeq(s, 1, n)
           r == L!After(s, n)
<1>1. d \in Seq(Word) /\ r \in Seq(Word) /\ d \o r = s
  BY Cut
<1> HIDE DEF d, r
<1>2. (b \o d) \o r = b \o (d \o r) /\ b \o d \in Seq(Word) /\ d \o r \in Seq(Word) /\ b \o (d \o r) \in Seq(Word)
  BY <1>1, WordAssoc
<1> QED BY <1>1, <1>2 DEF d, r

(* A piece on top of what the plugins of the reader still hold.            *)
LEMMA ArriveOpening ==
  ASSUME Intact, stage_ = "opening", NEW n \in 1..Len(line), line' = L!After(line, n), raw' = raw \o SubSeq(line, 1, n),
         torn' = (torn \/ (stack.cipher = "rc4" /\ line' # <<>>)), UNCHANGED <<stage_, dec, out, stack, written, enc>>
  PROVE  FInv'
<1> SUFFICES ASSUME torn' # TRUE PROVE Intact'
  BY DEF FInv
<1>1. FType /\ torn = FALSE
  BY DEF Intact
<1>2. torn' = FALSE
  BY <1>1
<1>3. PICK a \in Seq(Word), q \in Seq(Byte) : Pending(a) /\ Chain(Plain, dec, enc, a, q) /\ Held(q)
  BY DEF Intact
<1>4. raw \in Seq(Word) /\ line \in Seq(Word) /\ n \in 0..Len(line)
  BY <1>1, LenProperties DEF FType
<1>7. raw' \in Seq(Word) /\ line' \in Seq(Word) /\ raw' \o line' = raw \o line
  BY <1>4, Moved
<1>8. Pending(a)'
  BY <1>3, <1>7 DEF Pending
<1>9. Held(q)'
  BY <1>3 DEF Held, HeldPlain, HeldFresh, HeldChunks, HeldPatched, Chunked
<1>10. Chain(Plain, dec, enc, a, q)'
  BY <1>3 DEF Plain
<1>11. FType'
  BY <1>1, <1>7 DEF FType
<1> QED BY <1>2, <1>8, <1>9, <1>10, <1>11 DEF Intact

(* A piece to the reader that knows of chunks.                             *)
LEMMA GivenChunks ==
  ASSUME FType, torn = FALSE, NEW z, NEW rest \in Seq(Word), NEW v \in Seq(Byte), NEW before \in Seq(Byte),
         z.torn = TRUE \/ Unchunked(Plain, z, enc, rest, v), before \o v = L!Upto(written),
         stack.request > 0, written > 0,
         L!Given(z, before, "patched"), line' = rest, raw' = <<>>, UNCHANGED <<stack, written, enc>>
  PROVE  FInv'
<1>1. stack' = stack /\ written' = written /\ enc' = enc
  OBVIOUS
<1> SUFFICES ASSUME torn' # TRUE PROVE Intact'
  BY DEF FInv
<1>2. /\ dec' = z.dec /\ torn' = (z.torn \/ (stack.cipher = "rc4" /\ line' # <<>>))
      /\ out' = (IF z.ok THEN before \o z.data ELSE before)
      /\ stage_' = (IF z.ok THEN "patched" ELSE "failed")
  BY DEF L!Given
<1>3. z.torn # TRUE
  BY <1>2
<1>4. Reader(z) /\ z.data \in Seq(Byte)
  BY <1>3 DEF Unchunked
<1>5. PICK y \in Seq(Byte), w \in Seq(Byte) :
        z.data \o w = v /\ Spans("ota", z.dec["ota"], enc["ota"], y, w) /\ Chain(Plain, z.dec, enc, rest, y)
  BY <1>3 DEF Unchunked
<1>6. z.ok = TRUE /\ z.torn = FALSE /\ z.dec \in [L!Kind -> Layer]
  BY <1>4 DEF Reader
<1>7. torn' = FALSE /\ out' = before \o z.data /\ stage_' = "patched" /\ dec' = z.dec
  BY <1>2, <1>3, <1>6
<1>8. out' \in Seq(Byte) /\ out' \o w = L!Upto(written)
  <2> DEFINE d == z.data
  <2>1. d \in Seq(Byte) /\ d \in Seq(Word) /\ w \in Seq(Word) /\ before \in Seq(Word) /\ d \o w = v /\ out' = before \o d
    BY <1>4, <1>5, <1>7, BytesAreWords
  <2> HIDE DEF d
  <2>2. before \o d \in Seq(Byte)
    BY <2>1, ByteConcat
  <2>3. (before \o d) \o w = before \o (d \o w)
    BY <2>1, WordAssoc
  <2> QED BY <2>1, <2>2, <2>3
<1>9. Held(y)'
  <2>1. Chunked(y, w)'
    BY <1>1, <1>5, <1>7 DEF Chunked
  <2>2. HeldPatched(y)'
    BY <1>1, <1>5, <1>7, <1>8, <2>1 DEF HeldPatched
  <2> QED BY <2>2 DEF Held
<1>10. FType'
  <2>1. <<>> \in Seq(Word)
    OBVIOUS
  <2> QED BY <1>1, <1>6, <1>7, <1>8, <2>1 DEF FType
<1>11. Pending(rest)'
  BY <1>7 DEF Pending
<1>12. Chain(Plain, dec, enc, rest, y)'
  BY <1>1, <1>5, <1>7 DEF Plain
<1> QED BY <1>5, <1>7, <1>9, <1>10, <1>11, <1>12 DEF Intact

(* The reader learns of the chunks, with some of them already delivered as *)
(* they were.                                                              *)
LEMMA PatchKeeps == Intact /\ L!Patch => FInv'
<1> SUFFICES ASSUME Intact, L!Patch PROVE FInv'
  OBVIOUS
<1> DEFINE R == stack.request
           data == L!After(out, R)
           h == SubSeq(out, 1, R)
           r == L!Feed(data)
           z == L!Take("ota", r)
<1>1. /\ stage_ = "attached" /\ R > 0 /\ Len(out) >= R
      /\ UNCHANGED <<stack, written, enc, line, raw>>
      /\ L!Given(z, h, "patched")
  BY DEF L!Patch
<1>2. FType /\ torn = FALSE
  BY DEF Intact
<1>3. PICK a \in Seq(Word), q \in Seq(Byte) : Pending(a) /\ Chain(Plain, dec, enc, a, q) /\ Held(q)
  BY DEF Intact
<1>4. raw = <<>> /\ line = a
  BY <1>1, <1>3 DEF Pending
<1>5. R \in Nat /\ out \in Seq(Byte) /\ out \in Seq(Word) /\ Len(out) \in Nat /\ q \in Seq(Word) /\ written \in 0..198
  <2>1. stack \in L!StackType /\ out \in Seq(Byte) /\ written \in 0..MaxData
    BY <1>2 DEF FType
  <2>2. MaxData \in Nat /\ MaxData < 199
    BY BoundsAssumption DEF L!BoundsOK, L!Modulus
  <2> QED BY <2>1, <2>2, BytesAreWords, LenProperties DEF L!StackType
<1>6. HeldChunks(q)
  <2>1. ~HeldPlain(q) /\ ~HeldPatched(q)
    BY <1>1 DEF HeldPlain, HeldPatched
  <2>2. ~HeldFresh(q)
    <3> SUFFICES ASSUME HeldFresh(q) PROVE FALSE
      OBVIOUS
    <3>1. out = <<>>
      BY DEF HeldFresh
    <3>2. Len(out) = 0
      BY <1>5, <3>1, NotEmpty
    <3> QED BY <1>1, <1>5, <3>2
  <2> QED BY <1>3, <2>1, <2>2 DEF Held
<1>7. PICK g \in Seq(Byte), v \in Seq(Byte) :
        out \o q = L!Upto(R) \o g /\ Chunked(g, v) /\ L!Upto(R) \o v = L!Upto(written)
  BY <1>6, Zenon DEF HeldChunks
<1>8. written > 0 /\ R <= written
  BY <1>6 DEF HeldChunks
<1> DEFINE u == L!Upto(R)
<1>9. u \in Seq(Byte) /\ u \in Seq(Word) /\ Len(u) = R
  <2>1. R \in 0..198
    <3> HIDE DEF R
    <3> QED BY <1>5, <1>8
  <2> QED BY <2>1, UptoIs, BytesAreWords, Zenon
<1>10. data \in Seq(Word) /\ data \o q = g /\ h = u
  <2>1. out \o q = u \o g /\ Len(out) >= Len(u) /\ g \in Seq(Word)
    BY <1>1, <1>7, <1>9, BytesAreWords
  <2> HIDE DEF u
  <2> DEFINE t == L!After(out, Len(u))
  <2>2. t \in Seq(Word) /\ u \o t = out /\ t \o q = g /\ SubSeq(out, 1, Len(u)) = u
    BY <1>5, <1>9, <2>1, WordOverlap
  <2> QED BY <1>9, <2>2
<1>11. r.dec = dec /\ r.data = data /\ r.ok = TRUE /\ r.torn = FALSE
  BY <1>2, FeedIs
<1> HIDE DEF data, r, z, h, u, R
<1>12. Reader(r)
  BY <1>2, <1>10, <1>11 DEF Reader, FType
<1>13. Spans("ota", r.dec["ota"], enc["ota"], r.data \o q, v)
  BY <1>7, <1>10, <1>11 DEF Chunked
<1>14. Chain(Plain, r.dec, enc, line, q)
  BY <1>3, <1>4, <1>11
<1>15. Slots(Plain) /\ line \in Seq(Word)
  BY <1>2, PlainSlots DEF FType
<1>16. L!Take("ota", r).torn = TRUE \/ Unchunked(Plain, L!Take("ota", r), enc, line, v)
  BY <1>3, <1>12, <1>13, <1>14, <1>15, TakeChunks
<1>17. h \in Seq(Byte) /\ h \o v = L!Upto(written)
  BY <1>7, <1>9, <1>10 DEF u
<1>18. stack.request > 0
  BY <1>1 DEF R
<1>19. z.torn = TRUE \/ Unchunked(Plain, z, enc, line, v)
  BY <1>16 DEF z
<1>20. line' = line /\ raw' = <<>> /\ UNCHANGED <<stack, written, enc>>
  BY <1>1, <1>4
<1> QED BY <1>1, <1>2, <1>7, <1>8, <1>15, <1>17, <1>18, <1>19, <1>20, GivenChunks

(* A piece arrives, cut anywhere.                                          *)
LEMMA ArriveKeeps == Intact /\ L!Arrive => FInv'
<1> SUFFICES ASSUME Intact, L!Arrive PROVE FInv'
  OBVIOUS
<1>1. PICK n \in 1..Len(line) :
        /\ stage_ # "failed" /\ line' = L!After(line, n)
        /\ IF stage_ = "opening"
           THEN raw' = raw \o SubSeq(line, 1, n) /\ torn' = (torn \/ (stack.cipher = "rc4" /\ line' # <<>>))
                  /\ UNCHANGED <<stage_, dec, out>>
           ELSE L!Given(L!Through(L!Layers(stack, stage_ = "patched"), L!Feed(SubSeq(line, 1, n))), out, stage_)
                  /\ UNCHANGED raw
        /\ UNCHANGED <<stack, written, enc>>
  BY DEF L!Arrive
<1>2. FType /\ torn = FALSE
  BY DEF Intact
<1>3. PICK a \in Seq(Word), q \in Seq(Byte) : Pending(a) /\ Chain(Plain, dec, enc, a, q) /\ Held(q)
  BY DEF Intact
<1> DEFINE d == SubSeq(line, 1, n)
           t == L!After(line, n)
           r == L!Feed(d)
<1>4. d \in Seq(Word) /\ t \in Seq(Word) /\ d \o t = line
  <2>1. line \in Seq(Word) /\ n \in 0..Len(line)
    BY <1>2, LenProperties DEF FType
  <2> QED BY <2>1, Cut
<1>5. CASE stage_ = "opening"
  BY <1>1, <1>5, ArriveOpening
<1>6. CASE stage_ = "attached"
  <2>1. L!Layers(stack, stage_ = "patched") = Plain
    <3>1. (stage_ = "patched") = FALSE
      BY <1>6
    <3> QED BY <3>1 DEF Plain
  <2>2. L!Given(L!Through(Plain, L!Feed(d)), out, "attached") /\ raw' = raw /\ UNCHANGED <<stack, written, enc>>
    BY <1>1, <1>6, <2>1
  <2>3. raw = <<>> /\ line = a /\ line' = t
    BY <1>1, <1>3, <1>6 DEF Pending
  <2> HIDE DEF d, t
  <2>4. Chain(Plain, dec, enc, d \o t, q)
    BY <1>3, <1>4, <2>3
  <2>5. raw' = <<>> /\ stage_ # "patched"
    BY <1>6, <2>2, <2>3
  <2> QED BY <1>2, <1>3, <1>4, <2>2, <2>3, <2>4, <2>5, GivenPlain
<1>7. CASE stage_ = "patched"
  <2> DEFINE l == L!Layers(stack, TRUE)
             z == L!Through(l, r)
  <2>1. L!Layers(stack, stage_ = "patched") = l
    <3>1. (stage_ = "patched") = TRUE
      BY <1>7
    <3> QED BY <3>1
  <2>2. L!Given(z, out, "patched") /\ raw' = raw /\ UNCHANGED <<stack, written, enc>>
    BY <1>1, <1>7, <2>1
  <2>3. raw = <<>> /\ line = a /\ line' = t
    BY <1>1, <1>3, <1>7 DEF Pending
  <2>4. HeldPatched(q)
    BY <1>3, <1>7 DEF Held, HeldPlain, HeldFresh, HeldChunks
  <2>5. PICK v \in Seq(Byte) : Chunked(q, v) /\ out \o v = L!Upto(written)
    BY <2>4 DEF HeldPatched
  <2>6. stack.request > 0 /\ written > 0
    BY <2>4 DEF HeldPatched
  <2>7. stack \in L!StackType /\ out \in Seq(Byte) /\ dec \in [L!Kind -> Layer]
    BY <1>2 DEF FType
  <2>8. Slots(l) /\ l[5] = "ota" /\ l[3] = stack.cipher
    BY <2>7, LayersSlots
  <2>9. r.dec = dec /\ r.data = d /\ r.ok = TRUE /\ r.torn = FALSE
    BY <1>2, FeedIs
  <2>10. Chain(l, dec, enc, a, q)
    BY <1>3, <2>7, ChainLayers DEF Plain
  <2> HIDE DEF l, d, t, r
  <2>11. Reader(r)
    BY <1>4, <2>7, <2>9 DEF Reader
  <2>12. Chain(l, r.dec, enc, r.data \o t, q)
    BY <1>4, <2>3, <2>9, <2>10
  <2>13. Spans("ota", r.dec["ota"], enc["ota"], q, v)
    BY <2>5, <2>9 DEF Chunked
  <2>14. ASSUME stack.cipher = "rc4" => t = <<>> PROVE z.torn = TRUE \/ Unchunked(Plain, z, enc, t, v)
    <3>1. Unread(l, r, enc, t, q)
      BY <1>4, <2>8, <2>12, <2>14 DEF Unread
    <3>2. z.torn = TRUE \/ Unchunked(l, z, enc, t, v)
      BY <2>8, <2>11, <2>13, <3>1, ThroughChunks
    <3> HIDE DEF z
    <3>3. \A y, dc : Chain(l, dc, enc, t, y) => Chain(Plain, dc, enc, t, y)
      BY <2>7, ChainLayers DEF l, Plain
    <3> QED BY <3>2, <3>3 DEF Unchunked
  <2> HIDE DEF z
  <2>15. CASE stack.cipher = "rc4" => t = <<>>
    <3>1. z.torn = TRUE \/ Unchunked(Plain, z, enc, t, v)
      BY <2>14, <2>15
    <3>2. raw' = <<>>
      BY <2>2, <2>3
    <3> QED BY <1>2, <1>4, <2>2, <2>3, <2>5, <2>6, <2>7, <3>1, <3>2, GivenChunks
  <2>16. CASE ~(stack.cipher = "rc4" => t = <<>>)
    <3>1. torn' = (z.torn \/ (stack.cipher = "rc4" /\ line' # <<>>))
      BY <2>2 DEF L!Given
    <3>2. torn' = TRUE
      BY <2>3, <2>16, <3>1
    <3> QED BY <3>2 DEF FInv
  <2> QED BY <2>15, <2>16
<1> QED BY <1>2, <1>5, <1>6, <1>7 DEF FType

(* What was torn stays so.                                                 *)
LEMMA TornStays ==
  ASSUME torn = TRUE, L!Next
  PROVE  torn' = TRUE
<1>1. CASE L!Write
  BY <1>1 DEF L!Write
<1>2. ASSUME NEW z, z.torn = TRUE, NEW before, NEW then, L!Given(z, before, then) PROVE torn' = TRUE
  BY <1>2 DEF L!Given
<1>3. ASSUME NEW data PROVE L!Feed(data).torn = TRUE
  BY FeedIs
<1>4. ASSUME NEW ota, NEW data PROVE L!Through(L!Layers(stack, ota), L!Feed(data)).torn = TRUE
  <2> DEFINE l == L!Layers(stack, ota)
             r == L!Feed(data)
  <2>1. Len(l) = 5
    BY DEF L!Layers
  <2>2. r.torn = TRUE
    BY <1>3
  <2> HIDE DEF l, r
  <2>3. L!Through(l, r).torn = TRUE
    BY <2>1, <2>2, ThroughTorn
  <2> QED BY <2>3 DEF l, r
<1>5. CASE L!Arrive
  <2>1. PICK n \in 1..Len(line) :
          \/ torn' = (torn \/ (stack.cipher = "rc4" /\ line' # <<>>))
          \/ L!Given(L!Through(L!Layers(stack, stage_ = "patched"), L!Feed(SubSeq(line, 1, n))), out, stage_)
    BY <1>5 DEF L!Arrive
  <2>2. CASE torn' = (torn \/ (stack.cipher = "rc4" /\ line' # <<>>))
    BY <2>2
  <2>3. CASE L!Given(L!Through(L!Layers(stack, stage_ = "patched"), L!Feed(SubSeq(line, 1, n))), out, stage_)
    <3>1. L!Through(L!Layers(stack, stage_ = "patched"), L!Feed(SubSeq(line, 1, n))).torn = TRUE
      BY <1>4
    <3> QED BY <1>2, <2>3, <3>1
  <2> QED BY <2>1, <2>2, <2>3
<1>6. CASE L!Attach
  <2>1. L!Given(L!Through(L!Layers(stack, FALSE), L!Feed(L!After(raw, L!Expected(stack)))), out, "attached")
    BY <1>6 DEF L!Attach
  <2>2. L!Through(L!Layers(stack, FALSE), L!Feed(L!After(raw, L!Expected(stack)))).torn = TRUE
    BY <1>4
  <2> QED BY <1>2, <2>1, <2>2
<1>7. CASE L!Patch
  <2>1. L!Given(L!Take("ota", L!Feed(L!After(out, stack.request))), SubSeq(out, 1, stack.request), "patched")
    BY <1>7 DEF L!Patch
  <2>2. L!Take("ota", L!Feed(L!After(out, stack.request))).torn = TRUE
    BY <1>3, TakeTorn
  <2> QED BY <1>2, <2>1, <2>2
<1> QED BY <1>1, <1>5, <1>6, <1>7 DEF L!Next

-----------------------------------------------------------------------------
(***************************************************************************)
(* The steps: what is written.                                             *)
(***************************************************************************)
(* A write of x, m bytes, that leaves the counters of the writer at ec.    *)
Wrote(l, ec, m, x) ==
  /\ m \in Nat \ {0} /\ written + m <= 198 /\ x \in Seq(Byte) /\ L!Upto(written) \o x = L!Upto(written + m)
  /\ (stack.request > 0 /\ written = 0 => m = stack.request)
  /\ stack' = stack /\ stage_' = stage_ /\ dec' = dec /\ out' = out /\ written' = written + m /\ enc' = ec
  /\ l[5] = (IF stack.request > 0 /\ written > 0 THEN "ota" ELSE "none")

(* Whatever t the chunks of x are, it goes to the end of what is held.     *)
Lifts(l, ec, x, q) ==
  \E g, v \in Seq(Byte) :
    /\ Spans(l[5], dec[l[5]], enc[l[5]], g, v)
    /\ \A t \in Seq(Byte) :
         Spans(l[5], dec[l[5]], ec[l[5]], g \o t, v \o x) /\ (l[5] = "none" => t = x /\ ec["ota"] = enc["ota"])
           => Held(q \o t)'

(* A write goes to the end of what is held.                                *)
LEMMA HeldWritten ==
  ASSUME FType, NEW q \in Seq(Byte), Held(q), NEW m, NEW x, NEW l, NEW ec, Wrote(l, ec, m, x)
  PROVE  Lifts(l, ec, x, q)
<1>a. /\ m \in Nat \ {0} /\ written + m <= 198 /\ x \in Seq(Byte) /\ L!Upto(written) \o x = L!Upto(written + m)
      /\ (stack.request > 0 /\ written = 0 => m = stack.request)
      /\ stack' = stack /\ stage_' = stage_ /\ dec' = dec /\ out' = out /\ written' = written + m /\ enc' = ec
      /\ l[5] = (IF stack.request > 0 /\ written > 0 THEN "ota" ELSE "none")
  BY DEF Wrote
<1>0. /\ stack' = stack /\ stage_' = stage_ /\ dec' = dec /\ out' = out /\ stack.request \in Nat /\ written \in Nat
      /\ out \in Seq(Byte) /\ out \in Seq(Word) /\ q \in Seq(Word) /\ x \in Seq(Word)
      /\ <<>> \in Seq(Byte) /\ <<>> \in Seq(Word) /\ <<>> \o x = x
  <2>1. stack \in L!StackType /\ written \in 0..MaxData /\ out \in Seq(Byte)
    BY DEF FType
  <2>2. MaxData \in Nat /\ x \in Seq(Word)
    BY <1>a, BoundsAssumption, BytesAreWords DEF L!BoundsOK
  <2>3. <<>> \o x = x
    BY <2>2, WordParts
  <2>4. <<>> \in Seq(Byte) /\ <<>> \in Seq(Word)
    OBVIOUS
  <2>5. stack' = stack /\ stage_' = stage_ /\ dec' = dec /\ out' = out
    BY <1>a
  <2>6. q \in Seq(Word) /\ out \in Seq(Word)
    BY <2>1, BytesAreWords
  <2>7. stack.request \in Nat /\ written \in Nat
    BY <2>1, <2>2 DEF L!StackType
  <2> QED BY <2>1, <2>2, <2>3, <2>4, <2>5, <2>6, <2>7
<1>1. ASSUME NEW t \in Seq(Byte) PROVE out \o (q \o t) = (out \o q) \o t
  <2>1. t \in Seq(Word) /\ out \in Seq(Word) /\ q \in Seq(Word)
    BY <1>a, <1>0, BytesAreWords
  <2>2. (out \o q) \o t = out \o (q \o t)
    BY <2>1, WordAssoc
  <2> QED BY <2>2
<1>2. ASSUME NEW c \in Seq(Byte), NEW v \in Seq(Byte), c \o v = L!Upto(written)
      PROVE  c \o (v \o x) = L!Upto(written + m)
  <2>1. c \in Seq(Word) /\ v \in Seq(Word) /\ x \in Seq(Word)
    BY <1>a, <1>0, BytesAreWords
  <2>2. (c \o v) \o x = c \o (v \o x)
    BY <2>1, WordAssoc, Zenon
  <2>3. L!Upto(written) \o x = L!Upto(written + m)
    BY <1>a
  <2> QED BY <1>2, <2>2, <2>3
<1>3. CASE HeldPlain(q)
  <2>1. stack.request = 0 /\ stage_ # "patched" /\ out \o q = L!Upto(written) /\ l[5] = "none"
    BY <1>a, <1>3 DEF HeldPlain
  <2>2. Spans(l[5], dec[l[5]], enc[l[5]], <<>>, <<>>)
    BY <1>a, <1>0, <2>1 DEF Spans, Framer
  <2>3. out \o (q \o x) = L!Upto(written + m)
    BY <1>a, <1>0, <1>2, <2>1
  <2>4. HeldPlain(q \o x)'
    BY <1>a, <1>0, <2>1, <2>3 DEF HeldPlain
  <2>5. Held(q \o x)'
    BY <2>4 DEF Held
  <2> QED BY <1>a, <1>0, <2>1, <2>2, <2>5 DEF Lifts
<1>4. CASE HeldFresh(q)
  <2>1. /\ stack.request > 0 /\ stage_ # "patched" /\ written = 0 /\ out = <<>> /\ q = <<>>
        /\ Chunked(<<>>, <<>>) /\ l[5] = "none" /\ m = stack.request
    BY <1>a, <1>4 DEF HeldFresh
  <2>2. Spans(l[5], dec[l[5]], enc[l[5]], <<>>, <<>>)
    BY <1>a, <1>0, <2>1 DEF Spans, Framer
  <2>3. ASSUME ec["ota"] = enc["ota"] PROVE Held(q \o x)'
    <3> DEFINE u == L!Upto(stack.request)
    <3>1. x = L!Upto(written + m) /\ written + m = stack.request
      <4>1. L!Upto(written) = <<>>
        BY <2>1, UptoZero
      <4>2. L!Upto(written) \o x = L!Upto(written + m) /\ <<>> \o x = x
        BY <1>a, <1>0
      <4>3. written = 0 /\ m = stack.request /\ m \in Nat
        BY <1>a, <2>1
      <4> QED BY <4>1, <4>2, <4>3
    <3>2. x = u
      BY <3>1
    <3>3. u \in Seq(Word)
      BY <1>a, <1>0, <3>2
    <3>4. q \o x = u
      BY <1>a, <1>0, <2>1, <3>2
    <3> HIDE DEF u
    <3>5. u \o <<>> = u /\ <<>> \o u = u
      BY <3>3, WordParts
    <3>6. out' \o (q \o x) = u \o <<>>
      BY <1>a, <1>0, <2>1, <3>4, <3>5
    <3>7. Chunked(<<>>, <<>>)'
      BY <1>a, <1>0, <2>1, <2>3 DEF Chunked
    <3>8. u \o <<>> = L!Upto(written')
      BY <1>a, <3>1, <3>5 DEF u
    <3>9. written' > 0 /\ stack'.request > 0 /\ stage_' # "patched" /\ stack'.request <= written'
      BY <1>a, <1>0, <2>1, <3>1
    <3>10. HeldChunks(q \o x)'
      BY <1>a, <1>0, <3>6, <3>7, <3>8, <3>9 DEF HeldChunks, u
    <3> QED BY <3>10 DEF Held
  <2> QED BY <1>a, <1>0, <2>1, <2>2, <2>3 DEF Lifts
<1>5. CASE HeldChunks(q)
  <2>1. stack.request > 0 /\ stage_ # "patched" /\ written > 0 /\ stack.request <= written /\ l[5] = "ota"
    BY <1>a, <1>5 DEF HeldChunks
  <2>2. PICK g \in Seq(Byte), v \in Seq(Byte) :
          out \o q = L!Upto(stack.request) \o g /\ Chunked(g, v) /\ L!Upto(stack.request) \o v = L!Upto(written)
    BY <1>a, <1>5 DEF HeldChunks
  <2>3. Spans(l[5], dec[l[5]], enc[l[5]], g, v)
    BY <2>1, <2>2 DEF Chunked
  <2>4. ASSUME NEW t \in Seq(Byte), Spans(l[5], dec[l[5]], ec[l[5]], g \o t, v \o x) PROVE Held(q \o t)'
    <3> DEFINE u == L!Upto(stack.request)
    <3>1. u \in Seq(Byte) /\ u \in Seq(Word)
      <4> DEFINE R == stack.request
      <4>0. R \in Nat /\ R <= written /\ written \in Nat /\ written + m <= 198 /\ m \in Nat
        BY <1>a, <1>0, <2>1
      <4> HIDE DEF R
      <4>2. R \in 0..198
        BY <4>0
      <4>1. stack.request \in 0..198
        BY <4>2 DEF R
      <4> QED BY <4>1, UptoIs, BytesAreWords, Zenon
    <3>2. out \o q = u \o g /\ u \o v = L!Upto(written)
      BY <2>2
    <3> HIDE DEF u
    <3>3. out \o (q \o t) = u \o (g \o t)
      <4>1. t \in Seq(Word) /\ g \in Seq(Word) /\ u \in Seq(Word)
        BY <3>1, BytesAreWords
      <4>2. (u \o g) \o t = u \o (g \o t)
        BY <4>1, WordAssoc
      <4> QED BY <1>1, <3>2, <4>2
    <3>4. u \o (v \o x) = L!Upto(written + m)
      BY <1>2, <3>1, <3>2
    <3>5. g \o t \in Seq(Byte) /\ v \o x \in Seq(Byte)
      BY <1>a, ByteConcat
    <3>6. Chunked(g \o t, v \o x)'
      BY <1>a, <1>0, <2>1, <2>4 DEF Chunked
    <3>7. written' > 0 /\ stack'.request <= written'
      BY <1>a, <1>0, <2>1
    <3>8. HeldChunks(q \o t)'
      BY <1>a, <1>0, <2>1, <3>3, <3>4, <3>5, <3>6, <3>7 DEF HeldChunks, u
    <3> QED BY <3>8 DEF Held
  <2> QED BY <2>1, <2>3, <2>4 DEF Lifts
<1>6. CASE HeldPatched(q)
  <2>1. stack.request > 0 /\ stage_ = "patched" /\ written > 0 /\ l[5] = "ota"
    BY <1>a, <1>6 DEF HeldPatched
  <2>2. PICK v \in Seq(Byte) : Chunked(q, v) /\ out \o v = L!Upto(written)
    BY <1>a, <1>6 DEF HeldPatched
  <2>3. Spans(l[5], dec[l[5]], enc[l[5]], q, v)
    BY <2>1, <2>2 DEF Chunked
  <2>4. ASSUME NEW t \in Seq(Byte), Spans(l[5], dec[l[5]], ec[l[5]], q \o t, v \o x) PROVE Held(q \o t)'
    <3>1. out \o (v \o x) = L!Upto(written + m)
      BY <1>a, <1>0, <1>2, <2>2
    <3>2. v \o x \in Seq(Byte)
      BY <1>a, ByteConcat
    <3>3. Chunked(q \o t, v \o x)'
      BY <1>a, <1>0, <2>1, <2>4 DEF Chunked
    <3>4. written' > 0
      BY <1>a, <1>0, <2>1
    <3>5. HeldPatched(q \o t)'
      BY <1>a, <1>0, <2>1, <3>1, <3>2, <3>3, <3>4 DEF HeldPatched
    <3> QED BY <3>5 DEF Held
  <2> QED BY <2>1, <2>3, <2>4 DEF Lifts
<1> QED BY <1>3, <1>4, <1>5, <1>6 DEF Held

(* A write, cut into the frames of every layer.                            *)
LEMMA WriteKeeps == Intact /\ L!Write => FInv'
<1> SUFFICES ASSUME Intact, L!Write, torn' # TRUE PROVE Intact'
  BY DEF FInv
<1> DEFINE ota == stack.request > 0 /\ written > 0
           l == L!Layers(stack, ota)
           first == stack.cipher # "rc4" /\ enc["iv"] = 0
           X(m) == [i \in 1..m |-> written + i]
           IV(size, pad) == IF first THEN L!Pass(l[1], [n |-> enc, data |-> L!Iv], size, pad) ELSE [n |-> enc, data |-> <<>>]
           Passing(m, size, pad) == L!Down(l, [n |-> IV(size, pad).n, data |-> X(m)], size, pad)
<1>1. PICK m \in 1..(MaxData - written), size \in {1, RecordLimit + 2}, pad \in {0, 1} :
        /\ stack.request > 0 /\ written = 0 => m = stack.request
        /\ L!Written(X(m), size, pad)
        /\ written' = written + m
        /\ torn' = (torn \/ (stack.cipher = "rc4" /\ line \o raw # <<>>))
        /\ UNCHANGED <<stack, raw, stage_, dec, out>>
  BY DEF L!Write
<1> DEFINE x == X(m)
           iv == IV(size, pad)
           body == Passing(m, size, pad)
<1>2. enc' = body.n /\ line' = (line \o iv.data) \o body.data
  BY <1>1 DEF L!Written
<1>3. FType /\ torn = FALSE
  BY DEF Intact
<1>4. PICK a \in Seq(Word), q \in Seq(Byte) : Pending(a) /\ Chain(Plain, dec, enc, a, q) /\ Held(q)
  BY DEF Intact
<1>5. /\ stack \in L!StackType /\ written \in 0..MaxData /\ line \in Seq(Word) /\ raw \in Seq(Word)
      /\ enc \in [L!Kind -> Nat] /\ dec \in [L!Kind -> Layer]
  BY <1>3 DEF FType
<1>6. MaxData \in Nat /\ MaxData <= 198 /\ size \in Nat \ {0} /\ L!BoundsOK
  <2>1. L!BoundsOK
    BY BoundsAssumption
  <2>2. MaxData \in Nat /\ MaxData < 199 /\ RecordLimit \in Nat
    BY <2>1 DEF L!BoundsOK, L!Modulus
  <2> QED BY <2>1, <2>2
<1>7. written \in Nat /\ m \in Nat \ {0} /\ written + m <= 198 /\ written + m \in 0..MaxData
  BY <1>5, <1>6
<1>8. x \in Seq(Byte) /\ Len(x) = m /\ L!Upto(written) \o x = L!Upto(written + m)
  BY <1>7, UptoMore
<1>9. ota \in BOOLEAN /\ Slots(l) /\ l[5] = (IF ota THEN "ota" ELSE "none") /\ l[3] = stack.cipher
  BY <1>5, LayersSlots
<1>10. Greeted(l, enc, iv, size, pad)
  <2>1. first \/ ~first
    OBVIOUS
  <2>2. CASE first
    <3>1. IV(size, pad) = L!Pass(l[1], [n |-> enc, data |-> L!Iv], size, pad)
      BY <2>2
    <3>2. L!Pass(l[1], [n |-> enc, data |-> L!Iv], size, pad) = IV(size, pad)
      BY <3>1
    <3> HIDE DEF IV, l
    <3> QED BY <1>9, <2>2, <3>2 DEF Greeted
  <2>3. CASE ~first
    <3>1. IV(size, pad) = [n |-> enc, data |-> <<>>]
      BY <2>3
    <3> HIDE DEF IV, l
    <3>2. iv.n = enc /\ iv.data = <<>>
      BY <3>1
    <3> QED BY <1>9, <2>3, <3>2 DEF Greeted
  <2> QED BY <2>2, <2>3
<1>11. body = L!Down(l, [n |-> iv.n, data |-> x], size, pad)
  OBVIOUS
<1>12. Chain(l, dec, enc, a, q)
  <2>1. ota \in BOOLEAN /\ stack \in L!StackType
    BY <1>5, <1>9
  <2> HIDE DEF ota
  <2> QED BY <1>4, <2>1, ChainLayers DEF Plain
<1> HIDE DEF body, iv, x, l, first, X, IV, Passing
<1>13. stack.cipher = "rc4" => line = <<>> /\ raw = <<>>
  <2> SUFFICES ASSUME stack.cipher = "rc4" PROVE line = <<>> /\ raw = <<>>
    OBVIOUS
  <2>1. line \o raw = <<>>
    BY <1>1
  <2> QED BY <1>5, <2>1, WordParts
<1>14. l[3] = "rc4" => a = <<>>
  <2> SUFFICES ASSUME stack.cipher = "rc4" PROVE a = <<>>
    BY <1>9
  <2>1. line = <<>> /\ raw = <<>>
    BY <1>13
  <2>2. CASE stage_ = "opening"
    <3> DEFINE h == Hello(stack)
    <3>1. h \o a = <<>>
      <4>1. raw \o line = h \o a
        BY <1>4, <2>2 DEF Pending
      <4>2. raw \o line = <<>>
        BY <2>1
      <4> QED BY <4>1, <4>2
    <3>2. h \in Seq(Word)
      BY DEF Hello, Word
    <3> HIDE DEF h
    <3> QED BY <3>1, <3>2, WordParts
  <2>3. CASE stage_ # "opening"
    BY <1>4, <2>1, <2>3 DEF Pending
  <2> QED BY <2>2, <2>3
<1>15. Writable(l, dec, enc, a, q)
  BY <1>12, <1>14 DEF Writable
<1>16. ASSUME NEW g, NEW v, Spans(l[5], dec[l[5]], enc[l[5]], g, v)
       PROVE  iv.data \in Seq(Word) /\ Sunk(l, dec, enc, body, x, a \o iv.data, q, g, v)
  <2>1. Len(x) <= 198 /\ size \in Nat \ {0}
    BY <1>6, <1>7, <1>8
  <2>2. /\ iv.data \in Seq(Word)
        /\ Sunk(l, dec, enc, L!Down(l, [n |-> iv.n, data |-> x], size, pad), x, a \o iv.data, q, g, v)
    BY <1>5, <1>6, <1>8, <1>9, <1>10, <1>15, <1>16, <2>1, WriteChain
  <2> QED BY <1>11, <2>2
<1>17. /\ stack' = stack /\ raw' = raw /\ stage_' = stage_ /\ dec' = dec /\ out' = out /\ written' = written + m
  BY <1>1
<1> DEFINE ec == body.n
<1>18. enc' = ec
  BY <1>2
<1>19. Lifts(l, ec, x, q)
  <2>1. stack.request > 0 /\ written = 0 => m = stack.request
    BY <1>1
  <2>2. l[5] = (IF stack.request > 0 /\ written > 0 THEN "ota" ELSE "none")
    BY <1>9
  <2> HIDE DEF ec
  <2>3. Wrote(l, ec, m, x)
    BY <1>7, <1>8, <1>17, <1>18, <2>1, <2>2 DEF Wrote
  <2> QED BY <1>3, <1>4, <2>3, HeldWritten
<1>20. /\ iv.data \in Seq(Word) /\ body.data \in Seq(Word) /\ ec \in [L!Kind -> Nat]
       /\ \E t \in Seq(Byte) : Held(q \o t)' /\ Chain(l, dec, ec, (a \o iv.data) \o body.data, q \o t)
  <2>1. PICK g0, v0 : Spans(l[5], dec[l[5]], enc[l[5]], g0, v0)
    <3>1. \E g0, v0 : Spans(l[5], dec[l[5]], enc[l[5]], g0, v0)
      <4>1. CASE ota
        <5>1. Held(q) /\ l[5] = "ota" /\ stack.request > 0 /\ written > 0
          BY <1>4, <1>9, <4>1
        <5>2. \E g0, v0 : Chunked(g0, v0)
          BY <5>1 DEF Held, HeldPlain, HeldFresh, HeldChunks, HeldPatched
        <5> QED BY <5>1, <5>2 DEF Chunked
      <4>2. CASE ~ota
        <5>1. l[5] = "none" /\ <<>> \in Seq(Word) /\ <<>> \in Seq(Byte)
          BY <1>9, <4>2
        <5>2. Spans(l[5], dec[l[5]], enc[l[5]], <<>>, <<>>)
          BY <5>1 DEF Spans, Framer
        <5> QED BY <5>2
      <4> QED BY <4>1, <4>2
    <3> QED BY <3>1
  <2>2. Sunk(l, dec, enc, body, x, a \o iv.data, q, g0, v0) /\ iv.data \in Seq(Word)
    BY <1>16, <2>1
  <2>3. ec \in [L!Kind -> Nat] /\ body.data \in Seq(Word)
    BY <2>2 DEF Sunk
  <2>4. PICK g \in Seq(Byte), v \in Seq(Byte) :
          /\ Spans(l[5], dec[l[5]], enc[l[5]], g, v)
          /\ \A t \in Seq(Byte) :
               Spans(l[5], dec[l[5]], ec[l[5]], g \o t, v \o x) /\ (l[5] = "none" => t = x /\ ec["ota"] = enc["ota"])
                 => Held(q \o t)'
    BY <1>19 DEF Lifts
  <2>5. Sunk(l, dec, enc, body, x, a \o iv.data, q, g, v)
    BY <1>16, <2>4
  <2>6. PICK t \in Seq(Byte) :
          /\ Spans(l[5], dec[l[5]], ec[l[5]], g \o t, v \o x)
          /\ Chain(l, dec, ec, (a \o iv.data) \o body.data, q \o t)
          /\ (l[5] = "none" => t = x /\ ec["ota"] = enc["ota"])
    BY <2>5 DEF Sunk
  <2>7. Held(q \o t)'
    BY <2>4, <2>6
  <2> QED BY <2>2, <2>3, <2>6, <2>7
<1>21. PICK t \in Seq(Byte) : Held(q \o t)' /\ Chain(l, dec, ec, (a \o iv.data) \o body.data, q \o t)
  BY <1>20
<1>b. PICK b : (a \o iv.data) \o body.data = b
  OBVIOUS
<1>22. b \in Seq(Word) /\ line' \in Seq(Word) /\ Pending(b)'
  <2> DEFINE y == iv.data
             z == body.data
  <2>1. y \in Seq(Word) /\ z \in Seq(Word) /\ line' = (line \o y) \o z
    BY <1>2, <1>20
  <2> HIDE DEF y, z
  <2>2. /\ (line \o y) \o z = line \o (y \o z) /\ line \o y \in Seq(Word) /\ y \o z \in Seq(Word)
        /\ line \o (y \o z) \in Seq(Word)
    BY <1>5, <2>1, WordAssoc
  <2>3. /\ (a \o y) \o z = a \o (y \o z) /\ a \o y \in Seq(Word) /\ y \o z \in Seq(Word) /\ a \o (y \o z) \in Seq(Word)
    BY <2>1, WordAssoc
  <2> DEFINE w == y \o z
  <2>4. w \in Seq(Word) /\ line' = line \o w /\ a \o w = b /\ line' \in Seq(Word) /\ b \in Seq(Word)
    <3>1. (a \o y) \o z = b
      BY <1>b DEF y, z
    <3>2. line' \in Seq(Word) /\ line' = line \o w
      BY <2>1, <2>2
    <3>3. a \o w = b /\ b \in Seq(Word)
      BY <2>3, <3>1
    <3> HIDE DEF w
    <3> QED BY <2>1, <3>2, <3>3, <2>2 DEF w
  <2> HIDE DEF w
  <2>5. CASE stage_ = "opening"
    <3> DEFINE h == Hello(stack)
    <3>1. raw \o line = h \o a
      BY <1>4, <2>5 DEF Pending
    <3>2. h \in Seq(Word)
      BY DEF Hello, Word
    <3> HIDE DEF h
    <3>3. (raw \o line) \o w = raw \o (line \o w)
      <4>1. raw \in Seq(Word) /\ line \in Seq(Word) /\ w \in Seq(Word)
        BY <1>5, <2>4
      <4> QED BY <4>1, WordAssoc
    <3>4. (h \o a) \o w = h \o (a \o w)
      <4>1. h \in Seq(Word) /\ a \in Seq(Word) /\ w \in Seq(Word)
        BY <2>4, <3>2
      <4> QED BY <4>1, WordAssoc
    <3>5. raw \o line' = h \o b
      BY <2>4, <3>1, <3>3, <3>4
    <3> QED BY <1>17, <2>4, <2>5, <3>5 DEF Pending, h
  <2>6. CASE stage_ # "opening"
    <3>1. raw = <<>> /\ line = a
      BY <1>4, <2>6 DEF Pending
    <3> QED BY <1>17, <2>4, <2>6, <3>1 DEF Pending
  <2> QED BY <2>4, <2>5, <2>6
<1>23. Chain(Plain, dec, enc, b, q \o t)'
  <2>1. Chain(Plain, dec, ec, b, q \o t)
    <3>1. ota \in BOOLEAN /\ stack \in L!StackType
      BY <1>5, <1>9
    <3> HIDE DEF ota, ec
    <3> QED BY <1>21, <1>b, <3>1, ChainLayers DEF Plain, l
  <2> HIDE DEF ec
  <2> QED BY <1>17, <1>18, <2>1 DEF Plain
<1>24. q \o t \in Seq(Byte)
  BY ByteConcat
<1>25. FType'
  BY <1>3, <1>7, <1>17, <1>18, <1>20, <1>22 DEF FType
<1>26. torn' = FALSE
  BY <1>1, <1>3
<1> QED BY <1>21, <1>22, <1>23, <1>24, <1>25, <1>26 DEF Intact

-----------------------------------------------------------------------------
(***************************************************************************)
(* The theorem.                                                            *)
(***************************************************************************)
(* Every step keeps the invariant.                                         *)
LEMMA FInvStep == FInv /\ [L!Next]_(L!vars) => FInv'
<1> SUFFICES ASSUME FInv, [L!Next]_(L!vars) PROVE FInv'
  OBVIOUS
<1>1. CASE torn = TRUE
  <2>1. CASE L!Next
    BY <1>1, <2>1, TornStays DEF FInv
  <2>2. CASE UNCHANGED L!vars
    BY <1>1, <2>2 DEF FInv, L!vars
  <2> QED BY <2>1, <2>2
<1>2. CASE Intact
  <2>1. CASE L!Next
    BY <1>2, <2>1, WriteKeeps, ArriveKeeps, AttachKeeps, PatchKeeps DEF L!Next
  <2>2. CASE UNCHANGED L!vars
    <3>1. /\ stack' = stack /\ written' = written /\ enc' = enc /\ line' = line /\ raw' = raw /\ stage_' = stage_
          /\ dec' = dec /\ out' = out /\ torn' = torn
      BY <2>2 DEF L!vars
    <3>2. PICK a \in Seq(Word), q \in Seq(Byte) : Pending(a) /\ Chain(Plain, dec, enc, a, q) /\ Held(q)
      BY <1>2 DEF Intact
    <3>3. Pending(a)'
      BY <3>1, <3>2 DEF Pending
    <3>4. Chain(Plain, dec, enc, a, q)'
      BY <3>1, <3>2 DEF Plain
    <3>5. Held(q)'
      BY <3>1, <3>2 DEF Held, HeldPlain, HeldFresh, HeldChunks, HeldPatched, Chunked
    <3>6. FType' /\ torn' = FALSE
      BY <1>2, <3>1 DEF Intact, FType
    <3> QED BY <3>3, <3>4, <3>5, <3>6 DEF FInv, Intact
  <2> QED BY <2>1, <2>2
<1> QED BY <1>1, <1>2 DEF FInv

(* The invariant is enough: the reader holds a start of what was written,  *)
(* and all of it once all has arrived.                                     *)
LEMMA IntactIsPreserved ==
  ASSUME Intact
  PROVE  L!StreamIsPreserved
<1>1. FType
  BY DEF Intact
<1>2. PICK a \in Seq(Word), q \in Seq(Byte) : Pending(a) /\ Chain(Plain, dec, enc, a, q) /\ Held(q)
  BY DEF Intact
<1>3. /\ out \in Seq(Word) /\ q \in Seq(Word) /\ dec \in [L!Kind -> Layer] /\ Slots(Plain)
      /\ stage_ \in {"opening", "attached", "patched"} /\ stack.request \in Nat
  BY <1>1, BytesAreWords, PlainSlots DEF FType, L!StackType
<1>4. ASSUME NEW v \in Seq(Byte), out \o v = L!Upto(written)
      PROVE  L!IsPrefix(out, L!Upto(written))
  <2> DEFINE u == L!Upto(written)
  <2>1. out \o v = u /\ v \in Seq(Word)
    BY <1>4, BytesAreWords
  <2> HIDE DEF u
  <2>2. SubSeq(out \o v, 1, Len(out)) = out /\ Len(out \o v) = Len(out) + Len(v)
    BY <1>3, <2>1, WordParts
  <2>3. Len(out) \in Nat /\ Len(v) \in Nat
    BY <1>3, <2>1, NotEmpty
  <2>4. SubSeq(u, 1, Len(out)) = out /\ Len(out) <= Len(u)
    BY <2>1, <2>2, <2>3
  <2>5. SubSeq(out, 1, Len(out)) = out
    <3>1. SubSeq(out \o <<>>, 1, Len(out)) = out /\ out \o <<>> = out
      <4>1. <<>> \in Seq(Word)
        OBVIOUS
      <4> QED BY <1>3, <4>1, WordParts
    <3> QED BY <3>1
  <2> QED BY <2>4, <2>5 DEF L!IsPrefix, u
<1>5. ASSUME NEW v \in Seq(Byte), v = <<>>, out \o v = L!Upto(written)
      PROVE  out = L!Upto(written)
  <2>1. out \o <<>> = out
    BY <1>3, WordParts
  <2> QED BY <1>5, <2>1
<1>6. stage_ # "opening" /\ line = <<>> => q = <<>>
  <2> SUFFICES ASSUME stage_ # "opening", line = <<>> PROVE q = <<>>
    OBVIOUS
  <2>1. a = <<>>
    BY <1>2 DEF Pending
  <2>2. Chain(Plain, dec, enc, <<>>, q)
    BY <1>2, <2>1
  <2> QED BY <1>3, <2>2, ChainNothing
<1>7. CASE stage_ = "patched"
  <2>1. HeldPatched(q)
    BY <1>2, <1>7 DEF Held, HeldPlain, HeldFresh, HeldChunks
  <2>2. PICK v \in Seq(Byte) : Chunked(q, v) /\ out \o v = L!Upto(written)
    BY <2>1 DEF HeldPatched
  <2>3. L!IsPrefix(out, L!Upto(written))
    BY <1>4, <2>2
  <2>4. ASSUME line = <<>> PROVE out = L!Upto(written)
    <3>1. q = <<>>
      BY <1>6, <1>7, <2>4
    <3>2. "ota" \in L!Kind
      BY DEF L!Kind
    <3>3. Spans("ota", dec["ota"], enc["ota"], <<>>, v) /\ dec["ota"] \in Layer
      BY <1>3, <2>2, <3>1, <3>2 DEF Chunked
    <3>4. v = <<>>
      BY <3>2, <3>3, Nothing
    <3> QED BY <1>5, <2>2, <3>4
  <2> QED BY <1>7, <2>3, <2>4 DEF L!StreamIsPreserved
<1>8. CASE stage_ # "patched" /\ stack.request = 0
  <2>1. HeldPlain(q)
    BY <1>2, <1>8 DEF Held, HeldPatched, HeldFresh, HeldChunks
  <2>2. out \o q = L!Upto(written)
    BY <2>1 DEF HeldPlain
  <2>3. L!IsPrefix(out, L!Upto(written))
    BY <1>4, <2>2
  <2>4. ASSUME line = <<>>, stage_ # "opening" PROVE out = L!Upto(written)
    BY <1>5, <1>6, <2>2, <2>4
  <2> QED BY <1>3, <1>8, <2>3, <2>4 DEF L!StreamIsPreserved, L!Ready
<1>9. CASE stage_ # "patched" /\ stack.request > 0
  BY <1>3, <1>9 DEF L!StreamIsPreserved, L!Ready
<1> QED BY <1>3, <1>7, <1>8, <1>9

(* Nothing is lost, added or changed on the way through any stack of       *)
(* ciphers and plugins, for any limit of their frames: however the bytes   *)
(* are cut, the reader holds the start of what was written and, once all   *)
(* has arrived, all of it, unless a record of the ticket plugin was taken  *)
(* too early or rc4 was used.  (cipher.py: StreamCipherAdapter,            *)
(* AEADCipher; plugin.py; socks.py: OTA)                                   *)
THEOREM NothingLostUnlessTorn == L!Spec => []PreservedUnlessTorn
<1>1. FInv => PreservedUnlessTorn
  BY IntactIsPreserved DEF FInv, PreservedUnlessTorn, L!PreservedUnlessTorn
<1> QED BY <1>1, FInvInit, FInvStep, PTL DEF L!Spec
=============================================================================
