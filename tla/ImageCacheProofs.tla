------------------------- MODULE ImageCacheProofs -------------------------
(***************************************************************************)
(* BytesExact, CacheBounded and InsertedStays of ImageCache, for any sizes *)
(* of images and any limits.  The totals and selections of the cache are   *)
(* recursive functions on sequences: the facts about them are proved by    *)
(* induction first, then the invariant, operation by operation.            *)
(***************************************************************************)
EXTENDS ImageCache, SequenceTheorems, WellFoundedInduction, TLAPS

-----------------------------------------------------------------------------
(* Induction.  A property of numbers or of sequences is the set of those   *)
(* that have it, so that the well-foundedness of < can be used directly.   *)

LEMMA SmallestNumber ==
  ASSUME NEW T \in SUBSET Nat, T # {}
  PROVE  \E n \in T : \A m \in T : ~(m < n)
<1>1. IsWellFoundedOn(OpToRel(<, Nat), Nat)
  BY NatLessThanWellFounded
<1>2. PICK n \in T : \A m \in T : <<m, n>> \notin OpToRel(<, Nat)
  BY <1>1, WFMin
<1>3. \A m \in T : m < n => <<m, n>> \in OpToRel(<, Nat)
  BY DEF OpToRel
<1> QED
  BY <1>2, <1>3

LEMMA NumberInduction ==
  ASSUME NEW T, 0 \in T, \A n \in Nat : n \in T => n + 1 \in T
  PROVE  Nat \subseteq T
<1> SUFFICES ASSUME Nat \ T # {} PROVE FALSE
  OBVIOUS
<1>1. PICK n \in Nat \ T : \A m \in Nat \ T : ~(m < n)
  BY SmallestNumber
<1>2. n # 0 /\ n - 1 \in Nat /\ n - 1 < n /\ n = (n - 1) + 1
  BY <1>1
<1>3. n - 1 \in T
  BY <1>1, <1>2
<1> QED
  BY <1>1, <1>2, <1>3

LEMMA SequenceInduction ==
  ASSUME NEW S, NEW T, <<>> \in T,
         \A s \in Seq(S), e \in S : s \in T => Append(s, e) \in T
  PROVE  Seq(S) \subseteq T
<1> DEFINE N == {n \in Nat : \A s \in Seq(S) : Len(s) = n => s \in T}
<1>1. 0 \in N
  BY EmptySeq
<1>2. ASSUME NEW n \in Nat, n \in N PROVE n + 1 \in N
  <2> SUFFICES ASSUME NEW s \in Seq(S), Len(s) = n + 1 PROVE s \in T
    BY <1>2
  <2>1. PICK front \in Seq(S), e \in S : s = Append(front, e)
    BY <1>2, EmptySeq, SequenceEmptyOrAppend
  <2>2. Len(front) = n
    BY <1>2, <2>1, AppendProperties, LenProperties
  <2> QED
    BY <1>2, <2>1, <2>2
<1> HIDE DEF N
<1>3. Nat \subseteq N
  BY <1>1, <1>2, NumberInduction
<1> QED
  BY <1>3, LenProperties DEF N

(* A recursive definition that goes up to N is well-founded: whatever the  *)
(* steps are, there is a function that they define.                        *)
Defines(f, m, base, step) ==
  f[0] = base /\ \A n \in 1 .. m : f[n] = step[n][f[n - 1]]

LEMMA RecursionExists ==
  ASSUME NEW N \in Nat, NEW X, NEW base \in X, NEW step \in [1 .. N -> [X -> X]]
  PROVE  \E f \in [0 .. N -> X] : Defines(f, N, base, step)
<1> DEFINE T == {m \in Nat : m <= N => \E f \in [0 .. m -> X] : Defines(f, m, base, step)}
<1>1. 0 \in T
  <2> DEFINE f == [n \in 0 .. 0 |-> base]
  <2>1. f \in [0 .. 0 -> X] /\ Defines(f, 0, base, step)
    BY DEF Defines
  <2> QED
    BY <2>1
<1>2. ASSUME NEW m \in Nat, m \in T PROVE m + 1 \in T
  <2> SUFFICES ASSUME m + 1 <= N
               PROVE  \E f \in [0 .. m + 1 -> X] : Defines(f, m + 1, base, step)
    BY <1>2
  <2>1. PICK g \in [0 .. m -> X] : Defines(g, m, base, step)
    BY <1>2
  <2> DEFINE next == step[m + 1][g[m]]
             f == [n \in 0 .. m + 1 |-> IF n = m + 1 THEN next ELSE g[n]]
  <2>2. m + 1 \in 1 .. N /\ g[m] \in X
    BY <1>2, <2>1
  <2>3. next \in X
    BY <2>2
  <2>4. f[m + 1] = step[m + 1][g[m]] /\ \A n \in 0 .. m : f[n] = g[n]
    BY <1>2
  <2>5. f \in [0 .. m + 1 -> X]
    BY <2>1, <2>3
  <2> HIDE DEF f
  <2>6. ASSUME NEW n \in 1 .. m + 1 PROVE f[n] = step[n][f[n - 1]]
    <3>1. CASE n = m + 1
      <4>1. n - 1 = m /\ f[m] = g[m]
        BY <1>2, <2>4, <3>1
      <4> QED
        BY <2>4, <3>1, <4>1
    <3>2. CASE n # m + 1
      <4>1. n \in 1 .. m /\ n - 1 \in 0 .. m
        BY <1>2, <3>2
      <4> QED
        BY <2>1, <2>4, <4>1 DEF Defines
    <3> QED
      BY <3>1, <3>2
  <2>7. f[0] = base
    BY <1>2, <2>1, <2>4 DEF Defines
  <2> QED
    BY <2>5, <2>6, <2>7 DEF Defines
<1> HIDE DEF T
<1>3. Nat \subseteq T
  BY <1>1, <1>2, NumberInduction
<1> QED
  BY <1>3 DEF T

-----------------------------------------------------------------------------
(* What the recursive definitions of the cache's operators compute.        *)
LEMMA EntryFacts ==
  /\ \A e \in Entry : e.key \in Key /\ e.bytes \in Nat
  /\ \A es \in Seq(Entry) : /\ Len(es) \in Nat
                            /\ \A n \in 1 .. Len(es) : es[n] \in Entry
<1>1. \A e \in Entry : e.key \in Key /\ e.bytes \in Nat
  BY CacheAssumption DEF Entry
<1>2. ASSUME NEW es \in Seq(Entry)
      PROVE  Len(es) \in Nat /\ \A n \in 1 .. Len(es) : es[n] \in Entry
  BY LenProperties, ElementOfSeq
<1> QED
  BY <1>1, <1>2

LEMMA TotalsEquation ==
  ASSUME NEW es \in Seq(Entry)
  PROVE  /\ Totals(es)[0] = 0
         /\ \A n \in 1 .. Len(es) : Totals(es)[n] = Totals(es)[n - 1] + es[n].bytes
<1> DEFINE N == Len(es)
           step == [n \in 1 .. N |-> [x \in Nat |-> x + es[n].bytes]]
<1>1. N \in Nat /\ \A n \in 1 .. N : es[n].bytes \in Nat
  BY EntryFacts
<1> HIDE DEF N
<1>2. step \in [1 .. N -> [Nat -> Nat]]
  BY <1>1
<1>3. PICK f \in [0 .. N -> Nat] : Defines(f, N, 0, step)
  <2> HIDE DEF step
  <2> QED
    BY <1>1, <1>2, RecursionExists
<1>4. ASSUME NEW n \in 1 .. N PROVE f[n] = f[n - 1] + es[n].bytes
  <2>1. n - 1 \in 0 .. N /\ f[n - 1] \in Nat
    BY <1>1, <1>3
  <2>2. f[n] = step[n][f[n - 1]]
    BY <1>3 DEF Defines
  <2> QED
    BY <2>1, <2>2
<1>5. f[0] = 0
  BY <1>3 DEF Defines
<1> HIDE DEF step
<1>6. f = [n \in 0 .. N |-> IF n = 0 THEN 0 ELSE f[n - 1] + es[n].bytes]
  BY <1>1, <1>3, <1>4, <1>5
<1>7. Totals(es) = [n \in 0 .. N |-> IF n = 0 THEN 0 ELSE Totals(es)[n - 1] + es[n].bytes]
  BY <1>6 DEF Totals, N
<1> HIDE DEF Totals
<1>8. 0 \in 0 .. N /\ \A n \in 1 .. N : n # 0 /\ n \in 0 .. N
  BY <1>1
<1> QED
  BY <1>7, <1>8 DEF N

LEMMA ChosenEquation ==
  ASSUME NEW es \in Seq(Entry), NEW keys
  PROVE  /\ Chosen(es, keys)[0] = <<>>
         /\ \A n \in 1 .. Len(es) : Chosen(es, keys)[n] =
              IF es[n].key \in keys THEN Append(Chosen(es, keys)[n - 1], es[n])
              ELSE Chosen(es, keys)[n - 1]
<1> DEFINE N == Len(es)
           X == Seq(Entry)
           step == [n \in 1 .. N |-> [x \in X |->
                      IF es[n].key \in keys THEN Append(x, es[n]) ELSE x]]
<1>1. N \in Nat /\ \A n \in 1 .. N : es[n] \in Entry
  BY EntryFacts
<1> HIDE DEF N
<1>2. step \in [1 .. N -> [X -> X]]
  BY <1>1, AppendProperties
<1>3. <<>> \in X
  BY EmptySeq
<1>4. PICK f \in [0 .. N -> X] : Defines(f, N, <<>>, step)
  <2> HIDE DEF step, X
  <2> QED
    BY <1>1, <1>2, <1>3, RecursionExists
<1> HIDE DEF X
<1>5. ASSUME NEW n \in 1 .. N
      PROVE  f[n] = IF es[n].key \in keys THEN Append(f[n - 1], es[n]) ELSE f[n - 1]
  <2>1. n - 1 \in 0 .. N /\ f[n - 1] \in X
    BY <1>1, <1>4
  <2>2. f[n] = step[n][f[n - 1]]
    BY <1>4 DEF Defines
  <2> QED
    BY <2>1, <2>2
<1>6. f[0] = <<>>
  BY <1>4 DEF Defines
<1> HIDE DEF step
<1>7. f = [n \in 0 .. N |->
             IF n = 0 THEN <<>>
             ELSE IF es[n].key \in keys THEN Append(f[n - 1], es[n]) ELSE f[n - 1]]
  <2>1. \A n \in 0 .. N : n # 0 => n \in 1 .. N
    BY <1>1
  <2>2. \A n \in 0 .. N : f[n] =
          IF n = 0 THEN <<>>
          ELSE IF es[n].key \in keys THEN Append(f[n - 1], es[n]) ELSE f[n - 1]
    BY <1>5, <1>6, <2>1
  <2>3. f = [n \in 0 .. N |-> f[n]]
    BY <1>4
  <2> QED
    BY <2>2, <2>3
<1>8. Chosen(es, keys) = [n \in 0 .. N |->
        IF n = 0 THEN <<>>
        ELSE IF es[n].key \in keys THEN Append(Chosen(es, keys)[n - 1], es[n])
             ELSE Chosen(es, keys)[n - 1]]
  BY <1>7 DEF Chosen, N
<1>9. 0 \in 0 .. N /\ \A n \in 1 .. N : n # 0 /\ n \in 0 .. N
  BY <1>1
<1> HIDE DEF Chosen
<1> QED
  BY <1>8, <1>9 DEF N

(* The totals grow by what is appended, and so does the selection.         *)
LEMMA AppendSum ==
  ASSUME NEW es \in Seq(Entry), NEW e \in Entry
  PROVE  SumBytes(Append(es, e)) = SumBytes(es) + e.bytes
<1> DEFINE fs == Append(es, e)
           N == Len(es)
           T == {n \in Nat : n <= N => Totals(fs)[n] = Totals(es)[n]}
<1>1. /\ fs \in Seq(Entry) /\ Len(fs) = N + 1 /\ N \in Nat /\ fs[N + 1] = e
      /\ \A n \in 1 .. N : fs[n] = es[n]
  BY AppendProperties, EntryFacts
<1>2. /\ Totals(es)[0] = 0 /\ Totals(fs)[0] = 0
      /\ \A n \in 1 .. N : Totals(es)[n] = Totals(es)[n - 1] + es[n].bytes
      /\ \A n \in 1 .. N + 1 : Totals(fs)[n] = Totals(fs)[n - 1] + fs[n].bytes
  BY <1>1, TotalsEquation
<1> HIDE DEF fs, N
<1>3. 0 \in T
  BY <1>2
<1>4. ASSUME NEW n \in Nat, n \in T PROVE n + 1 \in T
  <2> SUFFICES ASSUME n + 1 <= N PROVE Totals(fs)[n + 1] = Totals(es)[n + 1]
    OBVIOUS
  <2>1. n + 1 \in 1 .. N /\ n + 1 \in 1 .. N + 1 /\ (n + 1) - 1 = n /\ n <= N
    BY <1>1, <1>4
  <2>2. Totals(fs)[n] = Totals(es)[n]
    BY <1>4, <2>1
  <2> QED
    BY <1>1, <1>2, <2>1, <2>2
<1> HIDE DEF T
<1>5. Nat \subseteq T
  BY <1>3, <1>4, NumberInduction
<1>6. Totals(fs)[N] = Totals(es)[N]
  BY <1>1, <1>5 DEF T
<1>7. N + 1 \in 1 .. N + 1 /\ (N + 1) - 1 = N
  BY <1>1
<1>8. Totals(fs)[N + 1] = Totals(es)[N] + e.bytes
  BY <1>1, <1>2, <1>6, <1>7
<1> QED
  BY <1>1, <1>8 DEF SumBytes, fs, N

LEMMA AppendOnly ==
  ASSUME NEW es \in Seq(Entry), NEW e \in Entry, NEW keys
  PROVE  Only(Append(es, e), keys) =
           IF e.key \in keys THEN Append(Only(es, keys), e) ELSE Only(es, keys)
<1> DEFINE fs == Append(es, e)
           N == Len(es)
           T == {n \in Nat : n <= N => Chosen(fs, keys)[n] = Chosen(es, keys)[n]}
<1>1. /\ fs \in Seq(Entry) /\ Len(fs) = N + 1 /\ N \in Nat /\ fs[N + 1] = e
      /\ \A n \in 1 .. N : fs[n] = es[n]
  BY AppendProperties, EntryFacts
<1>2. /\ Chosen(es, keys)[0] = <<>> /\ Chosen(fs, keys)[0] = <<>>
      /\ \A n \in 1 .. N : Chosen(es, keys)[n] =
           IF es[n].key \in keys THEN Append(Chosen(es, keys)[n - 1], es[n])
           ELSE Chosen(es, keys)[n - 1]
      /\ \A n \in 1 .. N + 1 : Chosen(fs, keys)[n] =
           IF fs[n].key \in keys THEN Append(Chosen(fs, keys)[n - 1], fs[n])
           ELSE Chosen(fs, keys)[n - 1]
  <2>1. /\ Chosen(es, keys)[0] = <<>>
        /\ \A n \in 1 .. N : Chosen(es, keys)[n] =
             IF es[n].key \in keys THEN Append(Chosen(es, keys)[n - 1], es[n])
             ELSE Chosen(es, keys)[n - 1]
    BY ChosenEquation
  <2> HIDE DEF fs, N
  <2>2. /\ Chosen(fs, keys)[0] = <<>>
        /\ \A n \in 1 .. Len(fs) : Chosen(fs, keys)[n] =
             IF fs[n].key \in keys THEN Append(Chosen(fs, keys)[n - 1], fs[n])
             ELSE Chosen(fs, keys)[n - 1]
    BY <1>1, ChosenEquation
  <2> QED
    BY <1>1, <2>1, <2>2
<1> HIDE DEF fs, N
<1>3. 0 \in T
  BY <1>2
<1>4. ASSUME NEW n \in Nat, n \in T PROVE n + 1 \in T
  <2> SUFFICES ASSUME n + 1 <= N PROVE Chosen(fs, keys)[n + 1] = Chosen(es, keys)[n + 1]
    OBVIOUS
  <2>1. n + 1 \in 1 .. N /\ n + 1 \in 1 .. N + 1 /\ (n + 1) - 1 = n /\ n <= N
    BY <1>1, <1>4
  <2>2. Chosen(fs, keys)[n] = Chosen(es, keys)[n]
    BY <1>4, <2>1
  <2> QED
    BY <1>1, <1>2, <2>1, <2>2
<1> HIDE DEF T
<1>5. Nat \subseteq T
  BY <1>3, <1>4, NumberInduction
<1>6. Chosen(fs, keys)[N] = Chosen(es, keys)[N]
  BY <1>1, <1>5 DEF T
<1>7. N + 1 \in 1 .. N + 1 /\ (N + 1) - 1 = N
  BY <1>1
<1>8. Chosen(fs, keys)[N + 1] =
        IF e.key \in keys THEN Append(Chosen(es, keys)[N], e) ELSE Chosen(es, keys)[N]
  BY <1>1, <1>2, <1>6, <1>7
<1> QED
  BY <1>1, <1>8 DEF Only, fs, N

LEMMA EmptySums == SumBytes(<<>>) = 0 /\ \A keys : Only(<<>>, keys) = <<>>
<1>1. <<>> \in Seq(Entry) /\ Len(<<>>) = 0
  BY EmptySeq
<1> QED
  BY <1>1, TotalsEquation, ChosenEquation DEF SumBytes, Only

LEMMA SumNatural ==
  ASSUME NEW es \in Seq(Entry) PROVE SumBytes(es) \in Nat
<1> DEFINE T == {s \in Seq(Entry) : SumBytes(s) \in Nat}
<1>1. <<>> \in T
  BY EmptySums, EmptySeq
<1>2. ASSUME NEW s \in Seq(Entry), NEW e \in Entry, s \in T PROVE Append(s, e) \in T
  BY <1>2, AppendSum, AppendProperties, EntryFacts
<1> HIDE DEF T
<1>3. Seq(Entry) \subseteq T
  BY <1>1, <1>2, SequenceInduction
<1> QED
  BY <1>3 DEF T

LEMMA ConcatAppend ==
  ASSUME NEW S, NEW r \in Seq(S), NEW s \in Seq(S), NEW e \in S
  PROVE  r \o Append(s, e) = Append(r \o s, e)
<1>1. <<e>> \in Seq(S) /\ Append(s, e) = s \o <<e>> /\ r \o s \in Seq(S)
  BY AppendIsConcat, ConcatProperties
<1>2. Append(r \o s, e) = (r \o s) \o <<e>>
  BY <1>1, AppendIsConcat
<1> QED
  BY <1>1, <1>2, ConcatAssociative

LEMMA ConcatSum ==
  ASSUME NEW r \in Seq(Entry), NEW s \in Seq(Entry)
  PROVE  SumBytes(r \o s) = SumBytes(r) + SumBytes(s)
<1> DEFINE T == {t \in Seq(Entry) : SumBytes(r \o t) = SumBytes(r) + SumBytes(t)}
<1>1. <<>> \in T
  BY EmptySums, EmptySeq, ConcatEmptySeq, SumNatural
<1>2. ASSUME NEW t \in Seq(Entry), NEW e \in Entry, t \in T PROVE Append(t, e) \in T
  <2>1. r \o t \in Seq(Entry) /\ Append(t, e) \in Seq(Entry) /\ e.bytes \in Nat
    BY ConcatProperties, AppendProperties, EntryFacts
  <2>2. /\ SumBytes(Append(r \o t, e)) = SumBytes(r \o t) + e.bytes
        /\ SumBytes(Append(t, e)) = SumBytes(t) + e.bytes
        /\ SumBytes(r) \in Nat /\ SumBytes(t) \in Nat
    BY <2>1, AppendSum, SumNatural
  <2>3. r \o Append(t, e) = Append(r \o t, e)
    BY ConcatAppend
  <2>4. SumBytes(r \o t) = SumBytes(r) + SumBytes(t)
    BY <1>2
  <2>5. SumBytes(r \o Append(t, e)) = SumBytes(r) + SumBytes(Append(t, e))
    <3> HIDE DEF T
    <3>1. SumBytes(r \o Append(t, e)) = (SumBytes(r) + SumBytes(t)) + e.bytes
      BY <2>2, <2>3, <2>4
    <3>2. (SumBytes(r) + SumBytes(t)) + e.bytes = SumBytes(r) + (SumBytes(t) + e.bytes)
      BY <2>1, <2>2
    <3> QED
      BY <2>2, <3>1, <3>2
  <2> QED
    BY <2>1, <2>5
<1> HIDE DEF T
<1>3. Seq(Entry) \subseteq T
  BY <1>1, <1>2, SequenceInduction
<1> QED
  BY <1>3 DEF T

-----------------------------------------------------------------------------
(* Choosing the entries of some keys: what is kept and what is left out    *)
(* share the entries, their bytes and their keys.                          *)
-----------------------------------------------------------------------------
(* The keys of a sequence of entries, each there once.                     *)
KeySet(s) == {s[i].key : i \in 1 .. Len(s)}
Distinct(s) == \A i, j \in 1 .. Len(s) : s[i].key = s[j].key => i = j

LEMMA OnlyType ==
  ASSUME NEW es \in Seq(Entry), NEW keys
  PROVE  Only(es, keys) \in Seq(Entry)
<1> DEFINE T == {s \in Seq(Entry) : Only(s, keys) \in Seq(Entry)}
<1>1. <<>> \in T
  BY EmptySums, EmptySeq
<1>2. ASSUME NEW s \in Seq(Entry), NEW e \in Entry, s \in T PROVE Append(s, e) \in T
  <2>1. Append(s, e) \in Seq(Entry) /\ Append(Only(s, keys), e) \in Seq(Entry)
    BY <1>2, AppendProperties
  <2> QED
    BY <1>2, <2>1, AppendOnly
<1> HIDE DEF T
<1>3. Seq(Entry) \subseteq T
  BY <1>1, <1>2, SequenceInduction
<1> QED
  BY <1>3 DEF T

LEMMA SumSplits ==
  ASSUME NEW es \in Seq(Entry), NEW keys
  PROVE  SumBytes(es) = SumBytes(Only(es, keys)) + SumBytes(Without(es, keys))
<1> DEFINE others == Key \ keys
           T == {s \in Seq(Entry) :
                   SumBytes(s) = SumBytes(Only(s, keys)) + SumBytes(Only(s, others))}
<1>1. <<>> \in T
  BY EmptySums, EmptySeq
<1>2. ASSUME NEW s \in Seq(Entry), NEW e \in Entry, s \in T PROVE Append(s, e) \in T
  <2> DEFINE a == SumBytes(Only(s, keys))
             b == SumBytes(Only(s, others))
  <2>1. /\ Only(s, keys) \in Seq(Entry) /\ Only(s, others) \in Seq(Entry)
        /\ Append(s, e) \in Seq(Entry) /\ e.bytes \in Nat /\ e.key \in Key
    BY OnlyType, AppendProperties, EntryFacts
  <2>2. a \in Nat /\ b \in Nat
    BY <2>1, SumNatural
  <2>3. SumBytes(s) = a + b
    BY <1>2
  <2>4. SumBytes(Append(s, e)) = (a + b) + e.bytes
    BY <2>3, AppendSum
  <2>5. /\ SumBytes(Append(Only(s, keys), e)) = a + e.bytes
        /\ SumBytes(Append(Only(s, others), e)) = b + e.bytes
    BY <2>1, AppendSum
  <2> HIDE DEF a, b
  <2>6. CASE e.key \in keys
    <3>1. e.key \notin others
      BY <2>6
    <3>2. Only(Append(s, e), keys) = Append(Only(s, keys), e)
      BY <2>6, AppendOnly
    <3>3. Only(Append(s, e), others) = Only(s, others)
      BY <3>1, AppendOnly
    <3>4. SumBytes(Append(s, e)) = (a + e.bytes) + b
      BY <2>1, <2>2, <2>4
    <3> QED
      BY <2>1, <2>5, <3>2, <3>3, <3>4 DEF a, b
  <2>7. CASE e.key \notin keys
    <3>1. e.key \in others
      BY <2>1, <2>7
    <3>2. Only(Append(s, e), keys) = Only(s, keys)
      BY <2>7, AppendOnly
    <3>3. Only(Append(s, e), others) = Append(Only(s, others), e)
      BY <3>1, AppendOnly
    <3>4. SumBytes(Append(s, e)) = a + (b + e.bytes)
      BY <2>1, <2>2, <2>4
    <3> QED
      BY <2>1, <2>5, <3>2, <3>3, <3>4 DEF a, b
  <2> QED
    BY <2>6, <2>7
<1> HIDE DEF T
<1>3. Seq(Entry) \subseteq T
  BY <1>1, <1>2, SequenceInduction
<1> QED
  BY <1>3 DEF T, Without

LEMMA LenSplits ==
  ASSUME NEW es \in Seq(Entry), NEW keys
  PROVE  Len(es) = Len(Only(es, keys)) + Len(Without(es, keys))
<1> DEFINE others == Key \ keys
           T == {s \in Seq(Entry) : Len(s) = Len(Only(s, keys)) + Len(Only(s, others))}
<1>1. <<>> \in T
  BY EmptySums, EmptySeq
<1>2. ASSUME NEW s \in Seq(Entry), NEW e \in Entry, s \in T PROVE Append(s, e) \in T
  <2> DEFINE a == Len(Only(s, keys))
             b == Len(Only(s, others))
  <2>1. /\ Only(s, keys) \in Seq(Entry) /\ Only(s, others) \in Seq(Entry)
        /\ Append(s, e) \in Seq(Entry) /\ e.key \in Key
    BY OnlyType, AppendProperties, EntryFacts
  <2>2. a \in Nat /\ b \in Nat
    BY <2>1, EntryFacts
  <2>3. Len(s) = a + b
    BY <1>2
  <2>4. Len(Append(s, e)) = (a + b) + 1
    BY <2>3, AppendProperties
  <2>5. /\ Len(Append(Only(s, keys), e)) = a + 1
        /\ Len(Append(Only(s, others), e)) = b + 1
    BY <2>1, AppendProperties
  <2> HIDE DEF a, b
  <2>6. CASE e.key \in keys
    <3>1. e.key \notin others
      BY <2>6
    <3>2. Only(Append(s, e), keys) = Append(Only(s, keys), e)
      BY <2>6, AppendOnly
    <3>3. Only(Append(s, e), others) = Only(s, others)
      BY <3>1, AppendOnly
    <3>4. Len(Append(s, e)) = (a + 1) + b
      BY <2>2, <2>4
    <3> QED
      BY <2>1, <2>5, <3>2, <3>3, <3>4 DEF a, b
  <2>7. CASE e.key \notin keys
    <3>1. e.key \in others
      BY <2>1, <2>7
    <3>2. Only(Append(s, e), keys) = Only(s, keys)
      BY <2>7, AppendOnly
    <3>3. Only(Append(s, e), others) = Append(Only(s, others), e)
      BY <3>1, AppendOnly
    <3>4. Len(Append(s, e)) = a + (b + 1)
      BY <2>2, <2>4
    <3> QED
      BY <2>1, <2>5, <3>2, <3>3, <3>4 DEF a, b
  <2> QED
    BY <2>6, <2>7
<1> HIDE DEF T
<1>3. Seq(Entry) \subseteq T
  BY <1>1, <1>2, SequenceInduction
<1> QED
  BY <1>3 DEF T, Without

LEMMA AppendKeys ==
  ASSUME NEW s \in Seq(Entry), NEW e \in Entry
  PROVE  KeySet(Append(s, e)) = KeySet(s) \cup {e.key}
<1>1. /\ Len(Append(s, e)) = Len(s) + 1 /\ Len(s) \in Nat
      /\ \A i \in 1 .. Len(s) : Append(s, e)[i] = s[i]
      /\ Append(s, e)[Len(s) + 1] = e
  BY AppendProperties, EntryFacts
<1>2. /\ Len(s) + 1 \in 1 .. Len(s) + 1
      /\ \A i \in 1 .. Len(s) + 1 : i \in 1 .. Len(s) \/ i = Len(s) + 1
      /\ \A i \in 1 .. Len(s) : i \in 1 .. Len(s) + 1
  BY <1>1
<1> QED
  BY <1>1, <1>2 DEF KeySet

LEMMA OnlyKeys ==
  ASSUME NEW es \in Seq(Entry), NEW keys
  PROVE  KeySet(Only(es, keys)) = KeySet(es) \cap keys
<1> DEFINE T == {s \in Seq(Entry) : KeySet(Only(s, keys)) = KeySet(s) \cap keys}
<1>1. <<>> \in T
  <2>1. KeySet(<<>>) = {}
    BY EmptySeq DEF KeySet
  <2> QED
    BY <2>1, EmptySums, EmptySeq
<1>2. ASSUME NEW s \in Seq(Entry), NEW e \in Entry, s \in T PROVE Append(s, e) \in T
  <2>1. Append(s, e) \in Seq(Entry) /\ Only(s, keys) \in Seq(Entry)
    BY OnlyType, AppendProperties
  <2>2. /\ KeySet(Append(s, e)) = KeySet(s) \cup {e.key}
        /\ KeySet(Append(Only(s, keys), e)) = KeySet(Only(s, keys)) \cup {e.key}
        /\ KeySet(Only(s, keys)) = KeySet(s) \cap keys
    BY <1>2, <2>1, AppendKeys
  <2>3. CASE e.key \in keys
    <3>1. Only(Append(s, e), keys) = Append(Only(s, keys), e)
      BY <2>3, AppendOnly
    <3> QED
      BY <2>1, <2>2, <2>3, <3>1
  <2>4. CASE e.key \notin keys
    <3>1. Only(Append(s, e), keys) = Only(s, keys)
      BY <2>4, AppendOnly
    <3> QED
      BY <2>1, <2>2, <2>4, <3>1
  <2> QED
    BY <2>3, <2>4
<1> HIDE DEF T
<1>3. Seq(Entry) \subseteq T
  BY <1>1, <1>2, SequenceInduction
<1> QED
  BY <1>3 DEF T

LEMMA NoKeys ==
  ASSUME NEW es \in Seq(Entry)
  PROVE  KeySet(es) = {} <=> es = <<>>
<1>1. Len(es) \in Nat /\ Len(<<>>) = 0
  BY EntryFacts, EmptySeq
<1>2. es # <<>> => Len(es) \in Nat \ {0}
  BY EmptySeq
<1>3. es # <<>> => 1 \in 1 .. Len(es)
  BY <1>2
<1>4. KeySet(<<>>) = {}
  BY <1>1 DEF KeySet
<1>5. ASSUME es # <<>> PROVE es[1].key \in KeySet(es)
  BY <1>3, <1>5 DEF KeySet
<1> QED
  BY <1>4, <1>5

LEMMA AppendDistinct ==
  ASSUME NEW s \in Seq(Entry), NEW e \in Entry, Distinct(s), e.key \notin KeySet(s)
  PROVE  Distinct(Append(s, e))
<1>1. /\ Len(Append(s, e)) = Len(s) + 1 /\ Len(s) \in Nat
      /\ \A i \in 1 .. Len(s) : Append(s, e)[i] = s[i]
      /\ Append(s, e)[Len(s) + 1] = e
  BY AppendProperties, EntryFacts
<1>2. \A i \in 1 .. Len(s) + 1 : i \in 1 .. Len(s) \/ i = Len(s) + 1
  BY <1>1
<1>3. \A i \in 1 .. Len(s) : s[i].key # e.key
  BY DEF KeySet
<1>4. \A i, j \in 1 .. Len(s) : s[i].key = s[j].key => i = j
  BY DEF Distinct
<1> QED
  BY <1>1, <1>2, <1>3, <1>4 DEF Distinct

LEMMA DistinctFront ==
  ASSUME NEW s \in Seq(Entry), NEW e \in Entry, Distinct(Append(s, e))
  PROVE  Distinct(s) /\ e.key \notin KeySet(s)
<1>1. /\ Len(Append(s, e)) = Len(s) + 1 /\ Len(s) \in Nat
      /\ \A i \in 1 .. Len(s) : Append(s, e)[i] = s[i]
      /\ Append(s, e)[Len(s) + 1] = e
  BY AppendProperties, EntryFacts
<1>2. /\ Len(s) + 1 \in 1 .. Len(s) + 1
      /\ \A i \in 1 .. Len(s) : i \in 1 .. Len(s) + 1 /\ i # Len(s) + 1
  BY <1>1
<1>3. \A i, j \in 1 .. Len(s) + 1 : Append(s, e)[i].key = Append(s, e)[j].key => i = j
  BY <1>1 DEF Distinct
<1> QED
  BY <1>1, <1>2, <1>3 DEF Distinct, KeySet

LEMMA OnlyDistinct ==
  ASSUME NEW es \in Seq(Entry), NEW keys, Distinct(es)
  PROVE  Distinct(Only(es, keys))
<1> DEFINE T == {s \in Seq(Entry) : Distinct(s) => Distinct(Only(s, keys))}
<1>1. <<>> \in T
  BY EmptySums, EmptySeq
<1>2. ASSUME NEW s \in Seq(Entry), NEW e \in Entry, s \in T PROVE Append(s, e) \in T
  <2>1. Append(s, e) \in Seq(Entry) /\ Only(s, keys) \in Seq(Entry)
    BY OnlyType, AppendProperties
  <2> SUFFICES ASSUME Distinct(Append(s, e)) PROVE Distinct(Only(Append(s, e), keys))
    BY <2>1
  <2>2. Distinct(s) /\ e.key \notin KeySet(s)
    BY DistinctFront
  <2>3. Distinct(Only(s, keys)) /\ e.key \notin KeySet(Only(s, keys))
    BY <1>2, <2>2, OnlyKeys
  <2>4. Distinct(Append(Only(s, keys), e))
    BY <2>1, <2>3, AppendDistinct
  <2> QED
    BY <2>3, <2>4, AppendOnly
<1> HIDE DEF T
<1>3. Seq(Entry) \subseteq T
  BY <1>1, <1>2, SequenceInduction
<1> QED
  BY <1>3 DEF T

LEMMA ConcatDistinct ==
  ASSUME NEW r \in Seq(Entry), NEW s \in Seq(Entry), Distinct(r), Distinct(s),
         KeySet(r) \cap KeySet(s) = {}
  PROVE  Distinct(r \o s)
<1> DEFINE t == r \o s
<1>1. /\ Len(t) = Len(r) + Len(s) /\ Len(r) \in Nat /\ Len(s) \in Nat
      /\ \A i \in 1 .. Len(r) + Len(s) :
           t[i] = IF i <= Len(r) THEN r[i] ELSE s[i - Len(r)]
  BY ConcatProperties, EntryFacts
<1>2. \A i \in 1 .. Len(r) + Len(s) :
        IF i <= Len(r) THEN i \in 1 .. Len(r) ELSE i - Len(r) \in 1 .. Len(s)
  BY <1>1
<1>3. \A i \in 1 .. Len(r), j \in 1 .. Len(s) : r[i].key # s[j].key
  BY DEF KeySet
<1> SUFFICES ASSUME NEW i \in 1 .. Len(r) + Len(s), NEW j \in 1 .. Len(r) + Len(s),
                    t[i].key = t[j].key
             PROVE  i = j
  BY <1>1 DEF Distinct
<1> HIDE DEF t
<1>4. CASE i <= Len(r) /\ j <= Len(r)
  <2>1. i \in 1 .. Len(r) /\ j \in 1 .. Len(r) /\ t[i] = r[i] /\ t[j] = r[j]
    BY <1>1, <1>2, <1>4
  <2> QED
    BY <2>1 DEF Distinct
<1>5. CASE ~(i <= Len(r)) /\ ~(j <= Len(r))
  <2>1. /\ i - Len(r) \in 1 .. Len(s) /\ j - Len(r) \in 1 .. Len(s)
        /\ t[i] = s[i - Len(r)] /\ t[j] = s[j - Len(r)]
    BY <1>1, <1>2, <1>5
  <2>2. i - Len(r) = j - Len(r)
    BY <2>1 DEF Distinct
  <2> QED
    BY <1>1, <2>2
<1>6. CASE i <= Len(r) /\ ~(j <= Len(r))
  BY <1>1, <1>2, <1>3, <1>6
<1>7. CASE ~(i <= Len(r)) /\ j <= Len(r)
  <2>1. j \in 1 .. Len(r) /\ i - Len(r) \in 1 .. Len(s) /\ t[j] = r[j] /\ t[i] = s[i - Len(r)]
    BY <1>1, <1>2, <1>7
  <2> QED
    BY <1>3, <2>1
<1> QED
  BY <1>4, <1>5, <1>6, <1>7

(* Cutting a sequence in two.                                              *)
LEMMA Suffix ==
  ASSUME NEW es \in Seq(Entry), NEW n \in 0 .. Len(es)
  PROVE  LET rest == SubSeq(es, n + 1, Len(es))
         IN /\ SubSeq(es, 1, n) \in Seq(Entry) /\ rest \in Seq(Entry)
            /\ Len(rest) = Len(es) - n
            /\ \A i \in 1 .. Len(es) - n : rest[i] = es[n + i]
            /\ SumBytes(es) = SumBytes(SubSeq(es, 1, n)) + SumBytes(rest)
            /\ Distinct(es) => Distinct(rest)
<1> DEFINE rest == SubSeq(es, n + 1, Len(es))
           first == SubSeq(es, 1, n)
           N == Len(es)
<1>1. N \in Nat /\ n \in Nat /\ n <= N /\ \A i \in 1 .. N : es[i] \in Entry
  BY EntryFacts
<1>2. /\ \A i \in n + 1 .. N : es[i] \in Entry
      /\ \A i \in 1 .. n : es[i] \in Entry
      /\ n + 1 \in Int /\ N \in Int /\ n \in Int /\ 1 \in Int
  BY <1>1
<1>3. first \in Seq(Entry)
  BY <1>2, SubSeqProperties
<1>4. /\ rest \in Seq(Entry)
      /\ Len(rest) = IF n + 1 <= N THEN N - (n + 1) + 1 ELSE 0
      /\ \A i \in 1 .. N - (n + 1) + 1 : rest[i] = es[(n + 1) + i - 1]
  BY <1>2, SubSeqProperties
<1>5. 1 \in 1 .. N + 1 /\ n \in 1 - 1 .. N /\ N \in n .. N
  BY <1>1
<1>6. first \o rest = es
  <2>1. first \o rest = SubSeq(es, 1, N)
    BY <1>5, ConcatAdjacentSubSeq
  <2> QED
    BY <2>1, SubSeqFull
<1> HIDE DEF first, rest, N
<1>7. SumBytes(es) = SumBytes(first) + SumBytes(rest)
  BY <1>3, <1>4, <1>6, ConcatSum
<1>8. Len(rest) = N - n /\ \A i \in 1 .. N - n : rest[i] = es[n + i]
  BY <1>1, <1>4
<1>9. ASSUME Distinct(es) PROVE Distinct(rest)
  <2>1. \A i, j \in 1 .. N : es[i].key = es[j].key => i = j
    BY <1>9 DEF Distinct, N
  <2>2. \A i \in 1 .. N - n : n + i \in 1 .. N
    BY <1>1
  <2>3. ASSUME NEW i \in 1 .. N - n, NEW j \in 1 .. N - n, rest[i].key = rest[j].key
        PROVE  i = j
    <3>1. n + i \in 1 .. N /\ n + j \in 1 .. N /\ rest[i] = es[n + i] /\ rest[j] = es[n + j]
      BY <1>8, <2>2
    <3>2. n + i = n + j
      BY <2>1, <2>3, <3>1
    <3> QED
      BY <1>1, <3>2
  <2> QED
    BY <1>8, <2>3 DEF Distinct
<1> QED
  BY <1>3, <1>4, <1>7, <1>8, <1>9 DEF first, rest, N

-----------------------------------------------------------------------------
(* insert puts an entry at the end and pops from the front.                *)
LEMMA EvictionsFacts ==
  ASSUME NEW es \in Seq(Entry), es # <<>>, NEW total \in Nat, total = SumBytes(es)
  PROVE  LET n == Evictions(es, total)
             rest == SubSeq(es, n + 1, Len(es))
         IN /\ n \in 0 .. Len(es) - 1
            /\ Minus(total, SumBytes(SubSeq(es, 1, n))) = SumBytes(rest)
            /\ SumBytes(rest) <= MaxBytes \/ Len(rest) = 1
<1> DEFINE N == Len(es)
           Left(n) == Minus(total, SumBytes(SubSeq(es, 1, n)))
           Stops(n) == Left(n) <= MaxBytes \/ N - n <= 1
           First(n) == /\ Stops(n)
                       /\ \A m \in 0 .. n - 1 : Left(m) > MaxBytes /\ N - m > 1
<1>1. N \in Nat \ {0} /\ MaxBytes \in Nat
  BY EmptySeq, CacheAssumption
<1>2. ASSUME NEW n \in 0 .. N
      PROVE  Left(n) = SumBytes(SubSeq(es, n + 1, N)) /\ Left(n) \in Nat
  <2>1. /\ SubSeq(es, 1, n) \in Seq(Entry) /\ SubSeq(es, n + 1, N) \in Seq(Entry)
        /\ SumBytes(es) = SumBytes(SubSeq(es, 1, n)) + SumBytes(SubSeq(es, n + 1, N))
    BY Suffix
  <2>2. SumBytes(SubSeq(es, 1, n)) \in Nat /\ SumBytes(SubSeq(es, n + 1, N)) \in Nat
    BY <2>1, SumNatural
  <2> QED
    BY <2>1, <2>2 DEF Minus
<1>3. Evictions(es, total) = CHOOSE n \in 0 .. N : First(n)
  BY DEF Evictions
<1> HIDE DEF Left
<1>4. \E n \in 0 .. N : First(n)
  <2> DEFINE T == {n \in 0 .. N : Stops(n)}
  <2>1. N \in T /\ T \in SUBSET Nat
    BY <1>1
  <2>2. PICK n \in T : \A m \in T : ~(m < n)
    <3> HIDE DEF T
    <3> QED
      BY <2>1, SmallestNumber
  <2>3. ASSUME NEW m \in 0 .. n - 1 PROVE Left(m) > MaxBytes /\ N - m > 1
    <3>1. m \in 0 .. N /\ m < n
      BY <1>1, <2>2
    <3>2. ~Stops(m)
      BY <2>2, <3>1
    <3>3. Left(m) \in Nat
      BY <1>2, <3>1
    <3> QED
      BY <1>1, <3>1, <3>2, <3>3
  <2> QED
    BY <2>2, <2>3
<1> DEFINE n == Evictions(es, total)
<1>5. n \in 0 .. N /\ First(n)
  <2> HIDE DEF First
  <2> QED
    BY <1>3, <1>4
<1> HIDE DEF n
<1>6. n # N
  <2> SUFFICES ASSUME n = N PROVE FALSE
    OBVIOUS
  <2>1. n - 1 \in 0 .. n - 1 /\ ~(N - (n - 1) > 1)
    BY <1>1
  <2> QED
    BY <1>5, <2>1
<1>7. n \in 0 .. N - 1
  BY <1>1, <1>5, <1>6
<1>8. Len(SubSeq(es, n + 1, N)) = N - n
  BY <1>5, Suffix
<1>9. SumBytes(SubSeq(es, n + 1, N)) <= MaxBytes \/ Len(SubSeq(es, n + 1, N)) = 1
  <2>1. CASE Left(n) <= MaxBytes
    BY <1>2, <1>5, <2>1
  <2>2. CASE N - n <= 1
    <3> HIDE DEF Stops, First
    <3>1. n \in Nat /\ N - n >= 1
      BY <1>1, <1>7
    <3>2. N - n = 1
      BY <1>1, <2>2, <3>1
    <3> QED
      BY <1>8, <3>2
  <2> QED
    BY <1>5, <2>1, <2>2
<1> QED
  BY <1>2, <1>5, <1>7, <1>9 DEF Left, n

(* Since the total is exact and keys are distinct, what replacing a key or *)
(* removing a device takes off is exactly what it held.                    *)
CacheInv == CacheTypeOK /\ BytesExact /\ CacheBounded

LEMMA PushedFacts ==
  ASSUME CacheInv, NEW k \in Key, NEW bytes \in ImageBytes
  PROVE  LET es == Pushed(k, bytes)
         IN /\ es \in Seq(Entry) /\ es # <<>> /\ Len(es) <= Capacity
            /\ es[Len(es)] = [key |-> k, bytes |-> bytes]
            /\ Distinct(es)
            /\ Minus(estimatedBytes, SumBytes(PushedOut(k))) + bytes = SumBytes(es)
<1> DEFINE e == [key |-> k, bytes |-> bytes]
           kept == IF k \notin Keys /\ Len(entries) = Capacity THEN Tail(entries) ELSE entries
           left == Without(kept, {k})
           out == PushedOut(k)
           others == Key \ {k}
<1>1. /\ entries \in Seq(Entry) /\ Len(entries) \in Nat /\ Len(entries) <= Capacity
      /\ estimatedBytes = SumBytes(entries) /\ Distinct(entries)
      /\ Capacity \in Nat \ {0} /\ bytes \in Nat /\ e \in Entry /\ Keys = KeySet(entries)
  <2>1. entries \in Seq(Entry) /\ Len(entries) \in Nat
    BY EntryFacts DEF CacheInv, CacheTypeOK
  <2>2. DOMAIN entries = 1 .. Len(entries)
    BY <2>1, LenProperties
  <2>3. Distinct(entries) /\ Keys = KeySet(entries)
    BY <2>2 DEF CacheInv, CacheBounded, Distinct, Keys, KeySet
  <2> QED
    BY <2>1, <2>3, CacheAssumption DEF CacheInv, CacheBounded, BytesExact, Entry
<1>2. Pushed(k, bytes) = Append(left, e)
  BY DEF Pushed
<1> HIDE DEF e
<1>3. /\ kept \in Seq(Entry) /\ left \in Seq(Entry) /\ out \in Seq(Entry)
      /\ Distinct(left) /\ k \notin KeySet(left)
      /\ Len(left) < Capacity
      /\ SumBytes(entries) = SumBytes(out) + SumBytes(left)
  <2>1. CASE k \in Keys
    <3>1. kept = entries /\ out = Only(entries, {k})
      BY <2>1 DEF PushedOut
    <3>2. /\ left = Only(entries, others)
          /\ SumBytes(entries) = SumBytes(Only(entries, {k})) + SumBytes(left)
          /\ Len(entries) = Len(Only(entries, {k})) + Len(left)
      BY <1>1, <3>1, SumSplits, LenSplits DEF Without
    <3>3. left \in Seq(Entry) /\ out \in Seq(Entry) /\ Distinct(left)
      BY <1>1, <3>1, <3>2, OnlyType, OnlyDistinct
    <3>4. KeySet(left) = KeySet(entries) \cap others /\ KeySet(out) = KeySet(entries) \cap {k}
      BY <1>1, <3>1, <3>2, OnlyKeys
    <3>5. out # <<>>
      BY <1>1, <2>1, <3>3, <3>4, NoKeys
    <3>6. Len(out) \in Nat \ {0} /\ Len(left) \in Nat
      BY <3>3, <3>5, EmptySeq, EntryFacts
    <3>7. Len(left) < Capacity
      <4> HIDE DEF left, out, kept
      <4> QED
        BY <1>1, <3>1, <3>2, <3>6
    <3> QED
      BY <1>1, <3>1, <3>2, <3>3, <3>4, <3>7
  <2>2. CASE k \notin Keys
    <3>1. ASSUME NEW es \in Seq(Entry), Distinct(es), Len(es) < Capacity, k \notin KeySet(es)
          PROVE  /\ Without(es, {k}) \in Seq(Entry) /\ Distinct(Without(es, {k}))
                 /\ k \notin KeySet(Without(es, {k}))
                 /\ Len(Without(es, {k})) < Capacity
                 /\ SumBytes(es) = SumBytes(Without(es, {k}))
      <4>1. KeySet(Only(es, {k})) = {} /\ Only(es, {k}) \in Seq(Entry)
        BY <3>1, OnlyKeys, OnlyType
      <4>2. Only(es, {k}) = <<>>
        BY <4>1, NoKeys
      <4>3. /\ Without(es, {k}) \in Seq(Entry) /\ Distinct(Without(es, {k}))
            /\ KeySet(Without(es, {k})) = KeySet(es) \cap others
        BY <3>1, OnlyType, OnlyDistinct, OnlyKeys DEF Without
      <4>4. /\ Len(Without(es, {k})) \in Nat /\ SumBytes(Without(es, {k})) \in Nat
            /\ Len(<<>>) = 0 /\ SumBytes(<<>>) = 0
        BY <4>3, EntryFacts, SumNatural, EmptySeq, EmptySums
      <4>5. Len(es) = Len(Without(es, {k})) /\ SumBytes(es) = SumBytes(Without(es, {k}))
        <5>1. /\ Len(es) = Len(<<>>) + Len(Without(es, {k}))
              /\ SumBytes(es) = SumBytes(<<>>) + SumBytes(Without(es, {k}))
          BY <4>2, SumSplits, LenSplits
        <5> QED
          BY <4>4, <5>1
      <4> QED
        BY <3>1, <4>3, <4>5
    <3>2. CASE Len(entries) = Capacity
      <4>1. entries # <<>> /\ kept = Tail(entries) /\ out = SubSeq(entries, 1, 1)
        BY <1>1, <2>2, <3>2, EmptySeq DEF PushedOut
      <4>2. kept = SubSeq(entries, 1 + 1, Len(entries))
        BY <1>1, <4>1, TailIsSubSeq
      <4>3. 1 \in 0 .. Len(entries)
        BY <1>1, <3>2
      <4>4. /\ kept \in Seq(Entry) /\ out \in Seq(Entry) /\ Distinct(kept)
            /\ Len(kept) = Len(entries) - 1
            /\ \A i \in 1 .. Len(entries) - 1 : kept[i] = entries[1 + i]
            /\ SumBytes(entries) = SumBytes(out) + SumBytes(kept)
        <5> HIDE DEF kept, out
        <5>1. /\ SubSeq(entries, 1, 1) \in Seq(Entry)
              /\ SubSeq(entries, 1 + 1, Len(entries)) \in Seq(Entry)
              /\ Len(kept) = Len(entries) - 1 /\ Distinct(kept)
              /\ \A i \in 1 .. Len(entries) - 1 : kept[i] = entries[1 + i]
          BY <1>1, <4>2, <4>3, Suffix
        <5>2. SumBytes(entries) = SumBytes(SubSeq(entries, 1, 1)) + SumBytes(kept)
          BY <1>1, <4>2, <4>3, Suffix
        <5> QED
          BY <4>1, <4>2, <5>1, <5>2
      <4>5. k \notin KeySet(kept)
        <5> HIDE DEF kept
        <5>1. \A i \in 1 .. Len(entries) - 1 : 1 + i \in 1 .. Len(entries)
          BY <1>1
        <5> QED
          BY <1>1, <2>2, <4>4, <5>1 DEF KeySet
      <4>6. Len(kept) < Capacity
        <5> HIDE DEF kept
        <5> QED
          BY <1>1, <3>2, <4>4
      <4> QED
        <5> HIDE DEF kept, out
        <5> QED
          BY <3>1, <4>4, <4>5, <4>6
    <3>3. CASE Len(entries) # Capacity
      <4>1. kept = entries /\ out = <<>>
        BY <2>2, <3>3 DEF PushedOut
      <4>2. Len(entries) < Capacity /\ k \notin KeySet(entries)
        BY <1>1, <2>2, <3>3
      <4>3. /\ left \in Seq(Entry) /\ Distinct(left) /\ k \notin KeySet(left)
            /\ Len(left) < Capacity /\ SumBytes(entries) = SumBytes(left)
        BY <1>1, <3>1, <4>1, <4>2
      <4>4. SumBytes(out) = 0 /\ out \in Seq(Entry) /\ SumBytes(left) \in Nat
        BY <4>1, <4>3, EmptySums, EmptySeq, SumNatural
      <4> QED
        <5> HIDE DEF out, left, kept
        <5> QED
          BY <1>1, <4>1, <4>3, <4>4
    <3> QED
      BY <3>2, <3>3
  <2> QED
    BY <2>1, <2>2
<1> HIDE DEF kept, left, out
<1>4. e.key = k /\ e.bytes = bytes
  BY DEF e
<1>5. /\ Append(left, e) \in Seq(Entry) /\ Append(left, e) # <<>>
      /\ Len(Append(left, e)) = Len(left) + 1
      /\ Append(left, e)[Len(left) + 1] = e
      /\ SumBytes(Append(left, e)) = SumBytes(left) + bytes
      /\ Distinct(Append(left, e))
  BY <1>1, <1>3, <1>4, AppendProperties, AppendSum, AppendDistinct
<1>6. SumBytes(left) \in Nat /\ SumBytes(out) \in Nat /\ Len(left) \in Nat
  BY <1>3, SumNatural, EntryFacts
<1>7. Minus(estimatedBytes, SumBytes(out)) = SumBytes(left)
  BY <1>1, <1>3, <1>6 DEF Minus
<1>8. Len(Append(left, e)) <= Capacity
  BY <1>1, <1>3, <1>5, <1>6
<1> QED
  BY <1>2, <1>5, <1>7, <1>8 DEF e, out

-----------------------------------------------------------------------------
(* The invariant, operation by operation.                                  *)
LEMMA InvFacts ==
  ASSUME CacheInv
  PROVE  /\ entries \in Seq(Entry) /\ Distinct(entries)
         /\ Len(entries) \in Nat /\ SumBytes(entries) \in Nat
         /\ Len(entries) <= Capacity
         /\ SumBytes(entries) <= MaxBytes \/ Len(entries) = 1
         /\ estimatedBytes = SumBytes(entries)
<1>1. entries \in Seq(Entry)
  BY DEF CacheInv, CacheTypeOK
<1>2. DOMAIN entries = 1 .. Len(entries) /\ Len(entries) \in Nat /\ SumBytes(entries) \in Nat
  BY <1>1, LenProperties, SumNatural
<1>3. Distinct(entries)
  BY <1>2 DEF CacheInv, CacheBounded, Distinct
<1> QED
  BY <1>1, <1>2, <1>3 DEF CacheInv, CacheBounded, BytesExact

LEMMA InvFollows ==
  ASSUME NEW es \in Seq(Entry), entries' = es, estimatedBytes' = SumBytes(es),
         Distinct(es), Len(es) <= Capacity, SumBytes(es) <= MaxBytes \/ Len(es) = 1
  PROVE  CacheInv'
<1>1. DOMAIN es = 1 .. Len(es) /\ SumBytes(es) \in Nat
  BY LenProperties, SumNatural
<1>2. CacheTypeOK' /\ BytesExact'
  BY <1>1 DEF CacheTypeOK, BytesExact
<1>3. CacheBounded'
  BY <1>1 DEF CacheBounded, Distinct
<1> QED
  BY <1>2, <1>3 DEF CacheInv

LEMMA EmptyInv ==
  ASSUME entries' = <<>>, estimatedBytes' = 0
  PROVE  CacheInv'
<1>1. <<>> \in Seq(Entry) /\ Len(<<>>) = 0 /\ SumBytes(<<>>) = 0
  BY EmptySeq, EmptySums
<1>2. Distinct(<<>>)
  BY <1>1 DEF Distinct
<1>3. 0 <= Capacity /\ 0 <= MaxBytes
  BY CacheAssumption
<1> QED
  BY <1>1, <1>2, <1>3, InvFollows

LEMMA InsertFacts ==
  ASSUME CacheInv, NEW k \in Key, NEW bytes \in ImageBytes, Insert(k, bytes)
  PROVE  /\ CacheInv'
         /\ \E i \in DOMAIN entries' : entries'[i] = [key |-> k, bytes |-> bytes]
<1> DEFINE es == Pushed(k, bytes)
           total == Minus(estimatedBytes, SumBytes(PushedOut(k))) + bytes
           n == Evictions(es, total)
           rest == SubSeq(es, n + 1, Len(es))
<1>1. /\ es \in Seq(Entry) /\ es # <<>> /\ Len(es) <= Capacity /\ Len(es) \in Nat \ {0}
      /\ es[Len(es)] = [key |-> k, bytes |-> bytes]
      /\ Distinct(es) /\ total = SumBytes(es) /\ total \in Nat
  BY PushedFacts, SumNatural, EmptySeq
<1>2. entries' = rest /\ estimatedBytes' = Minus(total, SumBytes(SubSeq(es, 1, n)))
  BY DEF Insert
<1> HIDE DEF es, total
<1>3. /\ n \in 0 .. Len(es) - 1
      /\ Minus(total, SumBytes(SubSeq(es, 1, n))) = SumBytes(rest)
      /\ SumBytes(rest) <= MaxBytes \/ Len(rest) = 1
  BY <1>1, EvictionsFacts
<1> HIDE DEF n
<1>4. n \in 0 .. Len(es) /\ n \in Nat
  BY <1>1, <1>3
<1>5. /\ rest \in Seq(Entry) /\ Len(rest) = Len(es) - n /\ Distinct(rest)
      /\ \A i \in 1 .. Len(es) - n : rest[i] = es[n + i]
  BY <1>1, <1>4, Suffix
<1> HIDE DEF rest
<1>6. Len(rest) <= Capacity
  BY <1>1, <1>4, <1>5, CacheAssumption
<1>7. CacheInv'
  BY <1>2, <1>3, <1>5, <1>6, InvFollows
<1>8. Len(es) - n \in 1 .. Len(es) - n /\ n + (Len(es) - n) = Len(es)
  BY <1>1, <1>3
<1>9. rest[Len(es) - n] = [key |-> k, bytes |-> bytes]
  BY <1>1, <1>5, <1>8
<1>10. Len(es) - n \in DOMAIN rest
  BY <1>5, <1>8, LenProperties
<1> QED
  BY <1>2, <1>7, <1>9, <1>10

LEMMA GetKeepsInv ==
  ASSUME CacheInv, NEW k \in Key, Get(k)
  PROVE  CacheInv'
<1> DEFINE left == Without(entries, {k})
           hit == Only(entries, {k})
<1>1. /\ left \in Seq(Entry) /\ hit \in Seq(Entry) /\ Distinct(left) /\ Distinct(hit)
      /\ KeySet(left) \cap KeySet(hit) = {}
  BY InvFacts, OnlyType, OnlyDistinct, OnlyKeys DEF Without
<1>2. /\ SumBytes(entries) = SumBytes(hit) + SumBytes(left)
      /\ Len(entries) = Len(hit) + Len(left)
  BY InvFacts, SumSplits, LenSplits
<1>3. entries' = left \o hit /\ estimatedBytes' = estimatedBytes
  BY DEF Get
<1> HIDE DEF left, hit
<1>4. /\ left \o hit \in Seq(Entry) /\ Distinct(left \o hit)
      /\ SumBytes(left \o hit) = SumBytes(left) + SumBytes(hit)
      /\ Len(left \o hit) = Len(left) + Len(hit)
  BY <1>1, ConcatProperties, ConcatDistinct, ConcatSum
<1>5. /\ SumBytes(left) \in Nat /\ SumBytes(hit) \in Nat
      /\ Len(left) \in Nat /\ Len(hit) \in Nat
  BY <1>1, SumNatural, EntryFacts
<1>6. SumBytes(left \o hit) = SumBytes(entries) /\ Len(left \o hit) = Len(entries)
  BY <1>2, <1>4, <1>5
<1> QED
  BY <1>3, <1>4, <1>6, InvFacts, InvFollows

LEMMA ClearForUdidKeepsInv ==
  ASSUME CacheInv, NEW u \in Udid, ClearForUdid(u)
  PROVE  CacheInv'
<1> DEFINE mine == {k \in Key : k[1] = u}
           left == Without(entries, mine)
           gone == Only(entries, mine)
<1>1. left \in Seq(Entry) /\ gone \in Seq(Entry) /\ Distinct(left)
  BY InvFacts, OnlyType, OnlyDistinct DEF Without
<1>2. /\ SumBytes(entries) = SumBytes(gone) + SumBytes(left)
      /\ Len(entries) = Len(gone) + Len(left)
  BY InvFacts, SumSplits, LenSplits
<1>3. entries' = left /\ estimatedBytes' = Minus(estimatedBytes, SumBytes(gone))
  BY DEF ClearForUdid
<1> HIDE DEF mine, left, gone
<1>4. /\ SumBytes(left) \in Nat /\ SumBytes(gone) \in Nat
      /\ Len(left) \in Nat /\ Len(gone) \in Nat
  BY <1>1, SumNatural, EntryFacts
<1>5. Minus(estimatedBytes, SumBytes(gone)) = SumBytes(left)
  BY <1>2, <1>4, InvFacts DEF Minus
<1>6. Len(left) <= Len(entries) /\ SumBytes(left) <= SumBytes(entries)
  BY <1>2, <1>4, InvFacts
<1>7. Len(left) <= Capacity
  BY <1>4, <1>6, InvFacts, CacheAssumption
<1>8. SumBytes(left) <= MaxBytes \/ Len(left) = 1
  <2>1. CASE SumBytes(entries) <= MaxBytes
    BY <1>4, <1>6, <2>1, InvFacts, CacheAssumption
  <2>2. CASE Len(entries) = 1 /\ Len(left) # 1
    <3>1. Len(left) = 0
      <4>1. Len(left) <= 1 /\ Len(left) # 1
        BY <1>6, <2>2
      <4> QED
        BY <1>4, <4>1
    <3>2. left = <<>>
      BY <1>1, <3>1, EmptySeq
    <3>3. SumBytes(left) = 0
      BY <3>2, EmptySums
    <3> QED
      BY <3>3, CacheAssumption
  <2> QED
    BY <2>1, <2>2, InvFacts
<1> QED
  BY <1>1, <1>3, <1>5, <1>7, <1>8, InvFollows

LEMMA CacheInitial == CacheInit => CacheInv
<1> SUFFICES ASSUME CacheInit PROVE CacheInv
  OBVIOUS
<1>1. <<>> \in Seq(Entry) /\ Len(<<>>) = 0 /\ SumBytes(<<>>) = 0 /\ DOMAIN <<>> = {}
  BY EmptySeq, EmptySums
<1>2. entries = <<>> /\ estimatedBytes = 0
  BY DEF CacheInit
<1>3. 0 <= Capacity /\ 0 <= MaxBytes
  BY CacheAssumption
<1>4. CacheTypeOK /\ BytesExact
  BY <1>1, <1>2 DEF CacheTypeOK, BytesExact
<1>5. CacheBounded
  BY <1>1, <1>2, <1>3 DEF CacheBounded
<1> QED
  BY <1>4, <1>5 DEF CacheInv

LEMMA CacheStep == CacheInv /\ [CacheNext]_cacheVars => CacheInv'
<1> SUFFICES ASSUME CacheInv, [CacheNext]_cacheVars PROVE CacheInv'
  OBVIOUS
<1>1. ASSUME NEW k \in Key, Get(k) PROVE CacheInv'
  BY <1>1, GetKeepsInv
<1>2. ASSUME NEW k \in Key, NEW bytes \in ImageBytes, Insert(k, bytes) PROVE CacheInv'
  BY <1>2, InsertFacts
<1>3. ASSUME NEW u \in Udid, ClearForUdid(u) PROVE CacheInv'
  BY <1>3, ClearForUdidKeepsInv
<1>4. CASE Clear
  BY <1>4, EmptyInv DEF Clear
<1>5. CASE UNCHANGED cacheVars
  BY <1>5, InvFacts, InvFollows DEF cacheVars
<1> QED
  BY <1>1, <1>2, <1>3, <1>4, <1>5 DEF CacheNext

LEMMA CacheAlways == CacheSpec => []CacheInv
BY CacheInitial, CacheStep, PTL DEF CacheSpec

(* Every variable keeps its type.                                          *)
THEOREM CacheTypes == CacheSpec => []CacheTypeOK
<1>1. CacheInv => CacheTypeOK
  BY DEF CacheInv
<1> QED
  BY <1>1, CacheAlways, PTL

(* The running total is the sum of what the cache holds: what insert and   *)
(* clear_for_udid take off is never more than what was added, so that the  *)
(* saturating subtraction never hides a difference.                        *)
THEOREM BytesStayExact == CacheSpec => []BytesExact
<1>1. CacheInv => BytesExact
  BY DEF CacheInv
<1> QED
  BY <1>1, CacheAlways, PTL

(* Both limits hold after every operation, whatever the sizes of images,   *)
(* and no key has two entries.                                             *)
THEOREM CacheStaysBounded == CacheSpec => []CacheBounded
<1>1. CacheInv => CacheBounded
  BY DEF CacheInv
<1> QED
  BY <1>1, CacheAlways, PTL

(* The evictions of an insert never reach the image inserted, not even     *)
(* when it alone is larger than the limit.                                 *)
THEOREM InsertedImageStays == CacheSpec => InsertedStays
<1>1. ASSUME CacheInv, [CacheNext]_cacheVars
      PROVE  [cacheVars' # cacheVars =>
                \A k \in Key, bytes \in ImageBytes :
                  Insert(k, bytes) =>
                    \E i \in DOMAIN entries' :
                      entries'[i] = [key |-> k, bytes |-> bytes]]_cacheVars
  <2>1. ASSUME NEW k \in Key, NEW bytes \in ImageBytes, Insert(k, bytes)
        PROVE  \E i \in DOMAIN entries' : entries'[i] = [key |-> k, bytes |-> bytes]
    BY <1>1, <2>1, InsertFacts
  <2> QED
    BY <2>1
<1> QED
  BY <1>1, CacheAlways, PTL DEF CacheSpec, InsertedStays
=============================================================================
